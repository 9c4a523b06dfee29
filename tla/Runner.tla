------------------------------- MODULE Runner -------------------------------
(***************************************************************************)
(* taskmanager/runner.go with the commands of command.go: the goroutine    *)
(* that takes one command at a time from its clients (the HTTP handler and *)
(* the signal handler), answers it or broadcasts it to the instances of    *)
(* tasks, and collects their answers with a timeout.                       *)
(*                                                                         *)
(* An instance is one execution of TaskManager.Start(), the subject of     *)
(* module TaskManager.  Here it takes commands off its channel, ends its   *)
(* processes on a stop, answers, and may hang, as it does in the runs      *)
(* late_keepalive and shrink_by_two of that module.  It is identified by   *)
(* what started it: a start request, or the auto-start of a task.          *)
(***************************************************************************)
EXTENDS Frontend, FiniteSets

CONSTANTS
  None,
  Tasks,        \* the tasks found at the configured path
  AutoStart,    \* those to start at once
  Requests,     \* HTTP requests, each made at most once
  First,        \* the stop of the signal handler
  Second,       \* its second stop
  Lines,        \* what clients may type
  InboxCap,     \* buffer of inputCommands (10 in the code)
  QueueCap,     \* room for commands in a task's channel (at most 10)
  MaxHangs      \* bound: instances that stop responding

Stops     == {First, Second}
Commands  == Requests \cup Stops
Instances == AutoStart \cup Requests

ASSUME RunnerIdsAssumption ==
  /\ AutoStart \subseteq Tasks
  /\ Tasks \cap Commands = {} /\ Requests \cap Stops = {} /\ First # Second
  /\ None \notin Tasks \cup Commands
  /\ NoTask \notin Tasks
ASSUME FiniteAssumption == IsFiniteSet(Tasks) /\ IsFiniteSet(Requests)
ASSUME RunnerBoundsAssumption ==
  InboxCap \in Nat \ {0} /\ QueueCap \in Nat \ {0} /\ MaxHangs \in Nat
ASSUME LinesAssumption == \A l \in Lines : l \in Seq(Tasks \cup STRING) /\ WellTyped(l)

VARIABLES
  line,          \* what each request was typed as
  cmd,           \* the Command of each request
  client,        \* "new", "waiting" for the reply channel to be closed, "done"
  got,           \* what each client has received
  sig,           \* the signal handler: "none", "caught", "first", "second", "exited"
  inbox,         \* inputCommands
  rpc,           \* the Runner: "idle", or in Broadcast(): "send", "collect"
  cur,           \* the command it is dealing with
  outChannels,   \* Broadcast(): the instances it goes to
  toSend,        \* Broadcast(): those still to be told
  target,        \* Broadcast(): the one being told
  cnt,           \* Broadcast(): answers to wait for
  active,        \* task.Active, the Runner's copy
  taskCommands,  \* the instance whose channel the Runner has for each task
  phase,         \* where each instance is, see Phases
  queue,         \* its command channel
  hand,          \* the command it is dealing with
  alive,         \* it may have processes running
  gaveUp         \* history: the Runner's stop of it timed out

clientVars    == <<line, cmd, client, got, sig>>
broadcastVars == <<rpc, cur, outChannels, toSend, target, cnt>>
registryVars  == <<active, taskCommands>>
instanceVars  == <<phase, queue, hand, alive>>
vars == <<clientVars, inbox, broadcastVars, registryVars, instanceVars, gaveUp>>

(***************************************************************************)
(* "starting" in the loop of Start()                                       *)
(* "serving"  at the select of run()                                       *)
(* "stopping" in Stop(), waiting for the processes to end                  *)
(* "replying" in SafeReply()                                               *)
(* "hung"     blocked for ever                                             *)
(* "ended"    run() has returned: nobody reads the channel                 *)
(***************************************************************************)
Phases == {"none", "starting", "serving", "stopping", "replying", "hung", "ended"}

StopAll == [type |-> "stop", task |-> NoTask]
NoCommand == [type |-> "none", task |-> NoTask]

\* An answer of the Runner itself, and one of an instance.
Says(text, r) == [text |-> text, from |-> None, of |-> r]
AnswerOf(i)   == [text |-> "ok", from |-> i, of |-> hand[i]]
Named(t, r)   == [text |-> "name", from |-> t, of |-> r]

TimedOut(r) == Says("timeout", r) \in got[r]

Init ==
  /\ line = [r \in Requests |-> << >>]
  /\ cmd = [r \in Commands |-> NoCommand]
  /\ client = [r \in Commands |-> "new"]
  /\ got = [r \in Commands |-> {}]
  /\ sig = "none"
  /\ inbox = << >>
  /\ rpc = "idle" /\ cur = None /\ outChannels = {} /\ toSend = {}
  /\ target = None /\ cnt = 0
  /\ active = [t \in Tasks |-> t \in AutoStart]
  /\ taskCommands = [t \in Tasks |-> IF t \in AutoStart THEN t ELSE None]
  /\ phase = [i \in Instances |-> IF i \in AutoStart THEN "starting" ELSE "none"]
  /\ queue = [i \in Instances |-> << >>]
  /\ hand = [i \in Instances |-> None]
  /\ alive = [i \in Instances |-> FALSE]
  /\ gaveUp = [i \in Instances |-> FALSE]

-----------------------------------------------------------------------------
(* Clients: Command.Send() of the HTTP handler and of the signal handler.   *)
(* A client reads its reply channel until it is closed, so that the Runner  *)
(* is never held up by it.                                                  *)

Send(r, c) ==
  /\ Len(inbox) < InboxCap
  /\ inbox' = Append(inbox, r)
  /\ cmd' = [cmd EXCEPT ![r] = c]
  /\ client' = [client EXCEPT ![r] = "waiting"]
  /\ UNCHANGED got

\* A line is typed; a request with no route is answered by the router.
Type(r) ==
  /\ client[r] = "new"
  /\ \E l \in Lines :
       /\ line' = [line EXCEPT ![r] = l]
       /\ \/ /\ RoutesOf(HttpRequest(l)) # {}
             /\ Send(r, CommandOf(HttpRequest(l)))
          \/ /\ RoutesOf(HttpRequest(l)) = {}
             /\ client' = [client EXCEPT ![r] = "done"]
             /\ got' = [got EXCEPT ![r] = {Says("not found", r)}]
             /\ UNCHANGED <<inbox, cmd>>
  /\ UNCHANGED <<sig, broadcastVars, registryVars, instanceVars, gaveUp>>

\* The signal handler receives a signal, whatever the inbox holds.
Interrupt ==
  /\ sig = "none"
  /\ sig' = "caught"
  /\ UNCHANGED <<line, cmd, client, got, inbox, broadcastVars, registryVars,
                 instanceVars, gaveUp>>

\* It waits for room in the inbox, as any client.
FirstStop ==
  /\ sig = "caught"
  /\ sig' = "first"
  /\ Send(First, StopAll)
  /\ UNCHANGED <<line, broadcastVars, registryVars, instanceVars, gaveUp>>

\* The stop timed out: "kill them before exiting the manager".
SecondStop ==
  /\ sig = "first"
  /\ client[First] = "done" /\ TimedOut(First)
  /\ sig' = "second"
  /\ Send(Second, StopAll)
  /\ UNCHANGED <<line, broadcastVars, registryVars, instanceVars, gaveUp>>

\* os.Exit(): every goroutine is gone, the processes are not.
Exit ==
  /\ \/ sig = "first" /\ client[First] = "done" /\ ~TimedOut(First)
     \/ sig = "second" /\ client[Second] = "done"
  /\ sig' = "exited"
  /\ UNCHANGED <<line, cmd, client, got, inbox, broadcastVars, registryVars,
                 instanceVars, gaveUp>>

-----------------------------------------------------------------------------
(* The Runner: processCommand() *)

ActiveTasks == {t \in Tasks : active[t]}

Valid(c) ==
  /\ c.task \in Tasks \cup {NoTask}
  /\ c.type \in {"listworkers", "set", "start"} => c.task # NoTask
  /\ c.type \in {"listworkers", "set", "status", "stop"} /\ c.task # NoTask
       => active[c.task]

Receive(r) ==
  /\ rpc = "idle"
  /\ inbox # << >> /\ r = Head(inbox)
  /\ inbox' = Tail(inbox)

\* The answers are sent on the reply channel, which is then closed.
Close(r, answers) ==
  /\ got' = [got EXCEPT ![r] = @ \cup answers]
  /\ client' = [client EXCEPT ![r] = "done"]

\* A command the Runner answers on its own.
Answer(r, answers) ==
  /\ Receive(r)
  /\ Close(r, answers)
  /\ UNCHANGED <<line, cmd, sig, broadcastVars, gaveUp>>

Reject(r) ==
  /\ ~Valid(cmd[r])
  /\ Answer(r, {Says("failed", r)})
  /\ UNCHANGED <<registryVars, instanceVars>>

List(r) ==
  /\ Valid(cmd[r]) /\ cmd[r].type = "list"
  /\ Answer(r, {Named(t, r) : t \in Tasks})
  /\ UNCHANGED <<registryVars, instanceVars>>

AlreadyRunning(r) ==
  /\ Valid(cmd[r]) /\ cmd[r].type = "start" /\ active[cmd[r].task]
  /\ Answer(r, {Says("already running", r)})
  /\ UNCHANGED <<registryVars, instanceVars>>

\* Mutant: a task that is active is started again.
StartAgain(r) ==
  /\ Valid(cmd[r]) /\ cmd[r].type = "start"
  /\ Answer(r, {Says("started", r)})
  /\ active' = [active EXCEPT ![cmd[r].task] = TRUE]
  /\ taskCommands' = [taskCommands EXCEPT ![cmd[r].task] = r]
  /\ phase' = [phase EXCEPT ![r] = "starting"]
  /\ UNCHANGED <<queue, hand, alive>>

\* A fresh channel and a goroutine; the answer does not wait for the start.
Start(r) ==
  /\ Valid(cmd[r]) /\ cmd[r].type = "start" /\ ~active[cmd[r].task]
  /\ Answer(r, {Says("started", r)})
  /\ active' = [active EXCEPT ![cmd[r].task] = TRUE]
  /\ taskCommands' = [taskCommands EXCEPT ![cmd[r].task] = r]
  /\ phase' = [phase EXCEPT ![r] = "starting"]
  /\ UNCHANGED <<queue, hand, alive>>

\* Mutant: a broadcast goes to the channels of the inactive tasks too.
AllChannels(c) ==
  {taskCommands[t] : t \in IF c.task = NoTask THEN Tasks ELSE {c.task}}

\* Forward() to the task named, or Broadcast() to every active one.
Recipients(c) ==
  {taskCommands[t] : t \in IF c.task = NoTask THEN ActiveTasks ELSE {c.task}}

\* Mutant: only a stop of all the tasks marks them.
MarkAllInactive(c) ==
  active' = [t \in Tasks |-> active[t] /\ ~(c.type = "stop" /\ c.task = NoTask)]

\* "mark active tasks as inactive first"
MarkInactive(c) ==
  active' = [t \in Tasks |->
               active[t] /\ ~(c.type = "stop" /\ c.task \in {t, NoTask})]

Relay(r) ==
  /\ Valid(cmd[r])
  /\ cmd[r].type \in {"listworkers", "set", "status", "stop"}
  /\ Recipients(cmd[r]) # {}
  /\ Receive(r)
  /\ MarkInactive(cmd[r])
  /\ rpc' = "send" /\ cur' = r
  /\ outChannels' = Recipients(cmd[r])
  /\ toSend' = outChannels'
  /\ target' \in outChannels'
  /\ UNCHANGED <<clientVars, cnt, taskCommands, instanceVars, gaveUp>>

\* Mutant: the reply channel is not closed.
NoActiveTasksOpen(r) ==
  /\ Valid(cmd[r])
  /\ cmd[r].type \in {"listworkers", "set", "status", "stop"}
  /\ Recipients(cmd[r]) = {}
  /\ Receive(r)
  /\ got' = [got EXCEPT ![r] = {Says("no active tasks", r)}]
  /\ UNCHANGED <<line, cmd, client, sig, broadcastVars, registryVars,
                 instanceVars, gaveUp>>

NoActiveTasks(r) ==
  /\ Valid(cmd[r])
  /\ cmd[r].type \in {"listworkers", "set", "status", "stop"}
  /\ Recipients(cmd[r]) = {}
  /\ Answer(r, {Says("no active tasks", r)})
  /\ UNCHANGED <<registryVars, instanceVars>>

-----------------------------------------------------------------------------
(* The Runner: Broadcast() *)

\* SafeSend() has no timeout: it waits for room in the channel.
SendOne ==
  /\ rpc = "send"
  /\ Len(queue[target]) < QueueCap
  /\ queue' = [queue EXCEPT ![target] = Append(@, cur)]
  /\ toSend' = toSend \ {target}
  /\ IF toSend' = {}
     THEN rpc' = "collect" /\ target' = None /\ cnt' = Cardinality(outChannels)
     ELSE target' \in toSend' /\ UNCHANGED <<rpc, cnt>>
  /\ UNCHANGED <<clientVars, inbox, cur, outChannels, registryVars, phase, hand,
                 alive, gaveUp>>

\* Both channels are closed and the Runner takes its next command.
Finish(answers) ==
  /\ Close(cur, answers)
  /\ rpc' = "idle" /\ cur' = None /\ outChannels' = {} /\ cnt' = 0
  /\ UNCHANGED <<line, cmd, sig, inbox, toSend, target, registryVars>>

\* Mutant: the timer only covers the first answer.
TimeoutOfFirst ==
  /\ rpc = "collect" /\ got[cur] = {}
  /\ Finish({Says("timeout", cur)})
  /\ gaveUp' = [i \in Instances |-> gaveUp[i] \/ (cmd[cur].type = "stop" /\ i \in outChannels)]
  /\ UNCHANGED instanceVars

Timeout ==
  /\ rpc = "collect"
  /\ Finish({Says("timeout", cur)})
  /\ gaveUp' = [i \in Instances |->
                  \/ gaveUp[i]
                  \/ /\ cmd[cur].type = "stop"
                     /\ i \in outChannels \ {a.from : a \in got[cur]}]
  /\ UNCHANGED instanceVars

\* Mutant: off by one.
CollectAllButOne(i) ==
  IF cnt > 2
  THEN /\ got' = [got EXCEPT ![cur] = @ \cup {AnswerOf(i)}]
       /\ cnt' = cnt - 1
       /\ UNCHANGED <<line, cmd, client, sig, inbox, rpc, cur, outChannels,
                      toSend, target, registryVars>>
  ELSE Finish({AnswerOf(i)})

Collect(i) ==
  IF cnt > 1
  THEN /\ got' = [got EXCEPT ![cur] = @ \cup {AnswerOf(i)}]
       /\ cnt' = cnt - 1
       /\ UNCHANGED <<line, cmd, client, sig, inbox, rpc, cur, outChannels,
                      toSend, target, registryVars>>
  ELSE Finish({AnswerOf(i)})

-----------------------------------------------------------------------------
(* The instances *)

Started(i) ==
  /\ phase[i] = "starting"
  /\ phase' = [phase EXCEPT ![i] = "serving"]
  /\ alive' = [alive EXCEPT ![i] = TRUE]
  /\ UNCHANGED <<clientVars, inbox, broadcastVars, registryVars, queue, hand, gaveUp>>

TakeCommand(i) ==
  /\ phase[i] = "serving"
  /\ queue[i] # << >>
  /\ hand' = [hand EXCEPT ![i] = Head(queue[i])]
  /\ queue' = [queue EXCEPT ![i] = Tail(@)]
  /\ phase' = [phase EXCEPT ![i] =
                 IF cmd[Head(queue[i])].type = "stop" THEN "stopping" ELSE "replying"]
  /\ UNCHANGED <<clientVars, inbox, broadcastVars, registryVars, alive, gaveUp>>

\* Mutant: the stop does not wait for the processes.
WorkersLeft(i) ==
  /\ phase[i] = "stopping"
  /\ phase' = [phase EXCEPT ![i] = "replying"]
  /\ UNCHANGED <<clientVars, inbox, broadcastVars, registryVars, queue, hand, alive, gaveUp>>

\* StopWorkers() returns: all the processes have ended.
WorkersStopped(i) ==
  /\ phase[i] = "stopping"
  /\ phase' = [phase EXCEPT ![i] = "replying"]
  /\ alive' = [alive EXCEPT ![i] = FALSE]
  /\ UNCHANGED <<clientVars, inbox, broadcastVars, registryVars, queue, hand, gaveUp>>

\* After a stop, run() returns.
Replied(i) ==
  /\ phase' = [phase EXCEPT ![i] = IF cmd[hand[i]].type = "stop" THEN "ended" ELSE "serving"]
  /\ hand' = [hand EXCEPT ![i] = None]
  /\ UNCHANGED <<queue, alive, gaveUp>>

\* Mutant: one collector serves all the broadcasts.
ReplyOnShared(i) ==
  /\ phase[i] = "replying"
  /\ rpc = "collect"
  /\ Collect(i)
  /\ Replied(i)

\* SafeReply() meets the Runner on the collector of the command.
Reply(i) ==
  /\ phase[i] = "replying"
  /\ rpc = "collect" /\ hand[i] = cur
  /\ Collect(i)
  /\ Replied(i)

\* Mutant: the collector is not closed on the timeout.
ReplyUnclosed(i) ==
  /\ phase[i] = "replying"
  /\ client[hand[i]] = "new"
  /\ Replied(i)
  /\ UNCHANGED <<clientVars, inbox, broadcastVars, registryVars>>

\* The collector was closed on the timeout: SafeReply() recovers.
ReplyTooLate(i) ==
  /\ phase[i] = "replying"
  /\ client[hand[i]] = "done"
  /\ Replied(i)
  /\ UNCHANGED <<clientVars, inbox, broadcastVars, registryVars>>

Hang(i) ==
  /\ phase[i] \in {"serving", "stopping"}
  /\ Cardinality({j \in Instances : phase[j] = "hung"}) < MaxHangs
  /\ phase' = [phase EXCEPT ![i] = "hung"]
  /\ UNCHANGED <<clientVars, inbox, broadcastVars, registryVars, queue, hand,
                 alive, gaveUp>>

-----------------------------------------------------------------------------

ProcessCommand(r) ==
  \/ Reject(r) \/ List(r) \/ AlreadyRunning(r) \/ Start(r)
  \/ Relay(r) \/ NoActiveTasks(r)

RunnerStep == SendOne \/ Timeout \/ \E r \in Commands : ProcessCommand(r)

InstanceStep(i) ==
  Started(i) \/ TakeCommand(i) \/ WorkersStopped(i) \/ Reply(i) \/ ReplyTooLate(i)

SignalStep == FirstStop \/ SecondStop \/ Exit

Next ==
  /\ sig # "exited"
  /\ \/ \E r \in Requests : Type(r)
     \/ Interrupt \/ SignalStep \/ RunnerStep
     \/ \E i \in Instances : InstanceStep(i) \/ Hang(i)

(***************************************************************************)
(* Goroutines that can run do run and timers fire.  Nothing is assumed of  *)
(* clients, of the user's interrupt and of hangs.                          *)
(***************************************************************************)
Fairness ==
  /\ WF_vars(sig # "exited" /\ RunnerStep)
  /\ WF_vars(sig # "exited" /\ SignalStep)
  /\ \A i \in Instances : WF_vars(sig # "exited" /\ InstanceStep(i))

Spec == Init /\ [][Next]_vars /\ Fairness

-----------------------------------------------------------------------------
(* Properties *)

Answers == [text : {"not found", "failed", "already running", "started",
                    "no active tasks", "timeout", "ok", "name"},
            from : Tasks \cup Instances \cup {None}, of : Commands]

\* The type of every variable.
TypeOK ==
  /\ DOMAIN line = Requests /\ DOMAIN cmd = Commands
  /\ client \in [Commands -> {"new", "waiting", "done"}]
  /\ got \in [Commands -> SUBSET Answers]
  /\ sig \in {"none", "caught", "first", "second", "exited"}
  /\ inbox \in Seq(Commands)
  /\ rpc \in {"idle", "send", "collect"}
  /\ cur \in Commands \cup {None}
  /\ outChannels \subseteq Instances /\ toSend \subseteq outChannels
  /\ target \in Instances \cup {None}
  /\ cnt \in Nat
  /\ active \in [Tasks -> BOOLEAN]
  /\ taskCommands \in [Tasks -> Instances \cup {None}]
  /\ phase \in [Instances -> Phases]
  /\ queue \in [Instances -> Seq(Commands)]
  /\ hand \in [Instances -> Commands \cup {None}]
  /\ alive \in [Instances -> BOOLEAN]
  /\ gaveUp \in [Instances -> BOOLEAN]

\* The task of an instance.
Owner(i) == IF i \in Tasks THEN i ELSE cmd[i].task

\* The Runner has the channel of an instance for its task.
InCharge(i) == active[Owner(i)] /\ taskCommands[Owner(i)] = i

HasAnswered == {a.from : a \in got[cur]}

BeingStopped(i) ==
  /\ rpc # "idle" /\ cmd[cur].type = "stop"
  /\ i \in outChannels \ HasAnswered

\* No process escapes the Runner: an instance that may have processes is the one
\* the Runner has for its task, or is being stopped, or its stop timed out.  So
\* two instances of a task overlap only after a timeout, and a stop that was
\* answered in time has left nothing behind.
Supervised ==
  \A i \in Instances :
    alive[i] \/ phase[i] = "starting" =>
      \/ InCharge(i)
      \/ BeingStopped(i)
      \/ gaveUp[i]

\* What module TaskManager takes for granted of the Runner: it puts nothing in a
\* channel behind a stop, so no command is left unread when run() returns.
NothingAfterStop ==
  \A i \in Instances :
    /\ \A k \in 1..Len(queue[i]) :
         cmd[queue[i][k]].type = "stop" => k = Len(queue[i])
    /\ hand[i] # None /\ cmd[hand[i]].type = "stop" => queue[i] = << >>
    /\ phase[i] = "ended" => queue[i] = << >>

\* A client gets answers to its own request only, and those of a task it names
\* from that task: an answer that comes after the timeout never reaches the next.
AnswersToTheirOwn ==
  \A r \in Commands : \A a \in got[r] :
    /\ a.of = r
    /\ cmd[r].task # NoTask /\ a.text = "ok" => Owner(a.from) = cmd[r].task

\* A broadcast that does not time out ends with the answer of every instance it
\* went to, though Broadcast() only counts them.
AnswersComplete ==
  [][rpc = "collect" /\ rpc' = "idle" =>
       \/ Says("timeout", cur) \in got'[cur]
       \/ {a.from : a \in got'[cur]} = outChannels]_vars

\* What was typed is what happens: the Runner takes a task for stopped only for a
\* line that stops it or all, or for a signal, and for active only for its start.
AsTyped(l, t) == l \in {<<"stop">>, <<"stop", t>>}
ActiveAsAsked ==
  [][\A t \in Tasks :
       /\ active[t] /\ ~active'[t] => cur' \in Stops \/ AsTyped(line[cur'], t)
       /\ ~active[t] /\ active'[t] => line[Head(inbox)] = <<"start", t>>]_vars

\* The manager keeps the promises of module Supervisor: one instance of a task at a
\* time, a stop confirmed only when the processes are gone, and no task started
\* again while one before it may have processes, unless its stop timed out.
Life(i) ==
  IF phase[i] = "none" THEN "none"
  ELSE IF InCharge(i) THEN "running"
  ELSE IF BeingStopped(i) THEN "stopping"
  ELSE IF gaveUp[i] THEN "abandoned"
  ELSE "stopped"

Promise == INSTANCE Supervisor WITH
  life <- [i \in Instances |-> Life(i)],
  task <- [i \in Instances |-> IF phase[i] = "none" THEN None ELSE Owner(i)]

ImplementsSupervisor == Promise!Spec

\* Broadcast() waits for room in the channel of an instance that reads no more.
Blocked == rpc = "send" /\ phase[target] = "hung" /\ Len(queue[target]) = QueueCap

\* Every request is answered, tasks that hang notwithstanding, unless the manager
\* exits or the Runner blocks on the full channel of an instance that hangs.
RequestsAnswered ==
  \A r \in Commands : client[r] = "waiting" ~> client[r] = "done" \/ Blocked \/ sig = "exited"

\* SafeReply() comes back: a task that answers while the Runner is still sending
\* the command to others, or after the timeout, is let go, with the same provisos.
RepliesReturn ==
  \A i \in Instances : phase[i] = "replying" ~> phase[i] # "replying" \/ Blocked \/ sig = "exited"

\* An interrupt ends the manager, under the same condition.
InterruptExits == sig = "caught" ~> sig = "exited" \/ Blocked

\* README and signalhandler.go: what does not stop is killed before the exit.
KilledBeforeExit == sig = "exited" => \A i \in Instances : ~alive[i]

=============================================================================
