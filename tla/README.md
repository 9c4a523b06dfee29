# workerpoolmanager in TLA+

A verification development of `quipo/workerpoolmanager`: a daemon that keeps, for
each *task*, a pool of operating-system processes at a wanted size, restarts the
ones that die or stall, and takes commands over HTTP and from signals. The
modules are translated from the Go code; line numbers refer to `src/`.

## 1. The system

One executable (`wpmanager`) runs these goroutines. They share no state except the
maps of a task, which only its own goroutine touches; everything else is channels.

```
 HTTP clients, signals                         processes (children)
        |  Command                                 |      ^ SIGTERM, SIGKILL
        v                                keep-alive|      |
   inputCommands[10]                        zmq proxy     |
        |                                          |      |
     Runner --commandChannel[10]--> TaskManager <--[10]-- keep-alive handler
        ^                              |   ^  ^           (one for each task)
        |  replies (collector)         |   |  |
        +------------------------------+   |  +-- stoppedworker, same channel[10]
                CommandsChannel (unbuffered)           |
                keepAliveChannel (unbuffered)          |
                                       v               |
                                   Worker.run() -------+
                                       ^ exitChannel (unbuffered, one message)
                                   Worker.waitOnProcess()
```

| component | state | operations | what makes it correct |
|---|---|---|---|
| **Worker** `taskmanager/worker.go` | process, pid, `LastAliveAt`, its three channels | `Start`, `waitOnProcess`, `run` (exit, command, keep-alive, ticker), `Stop` (SIGTERM, grace period, SIGKILL), `cleanTermination`, `Info` | each exit is reported once; a stop ends the process; a stalled worker is stopped and reported as stalled; the loop ends when its channel is closed |
| **TaskManager** `taskmanager/taskmanager.go` | `Active`, `Cardinality`, `workerChannels`, `keepaliveChannels`, two counters | `Start`, `run`, `StartWorker`, `StopWorkersByPid`, `Set`, `Stop`, `Status`, `ListWorkers`, `cleanWorkerReference`, `restoreCardinality`, `MaintainWorkerCardinality`, `keepWorkerAlive` | as many processes as wanted, never more; none forgotten; none left when a stop is answered; the loop never hangs; no send on a closed channel |
| **Command** `taskmanager/command.go` | the reply channel | `Fail`, `Success`, `SafeReply`, `SafeSend`, `Broadcast`, `Forward`, `Send` | one answer for each receiver, a closed channel at the end, no unrecovered panic |
| **Runner** `taskmanager/runner.go` | its copy of each task, `Active`, `taskCommands` | `Run`, `processCommand`, `validateCommand`, `getChannelsOfActiveTasks`, auto-start | its view of a task agrees with the task; every command is answered; one instance of a task at a time |
| **SignalHandler** `taskmanager/signalhandler.go` | none | stop, second stop on timeout, exit | the manager exits with no process left |
| **Keep-alive handler** `taskmanager/keepalivehandler.go`, **proxy** and **publisher** `utils/` | a subscription, a channel of ten | `Run`, `ZmqPubSubProxy`, `SendKeepAlives` | a task gets the keep-alives of its own processes; clean shutdown |
| **HTTPHandler** `taskmanager/httphandler.go` | none | one route for each command | each request becomes the command it names, and is answered |
| **Configuration** `wpmanager/wpmanager.go`, `CopyFrom`, `NewTaskManager` | the configuration | merge, defaults | a task gets what its entry says, or the default |
| **Console** `wpconsole/`, **HTTP client** `utils/httpclient.go` | none that matters | one line of text becomes one request | what is typed is what happens, also when the task name is missing |
| **Example tasks** `resources/examples/` | none | processes to try the manager with | none |

What is hard about it: an exit can be taken by three different pieces of code (the
loop, a `Stop()` for a command, a `Stop()` for the ticker) and must be reported by
one; commands, exits, stalls, keep-alives and the grace timer interleave freely;
several rendezvous on unbuffered channels can block a goroutine for good; workers
are identified by pid and the kernel reuses pids; and the code that restarts
workers also runs on the reports of workers that were asked to stop. Above the
tasks, one single-threaded Runner serves all clients with timeouts while tasks may hang
and answer late, believes a task stopped as soon as it forwards the stop, and may start a
second instance of it; and the keep-alive channel is closed from both ends. The complete
list, with lines, is under `hazards` in `PROJECT.json`.

## 2. Modules

| module | contents |
|---|---|
| `Worker` | the three actors of one worker: process, `waitOnProcess()`, `run()` with `Stop()`; `kill(2)` and the allocation of pids |
| `TaskManager` | one execution of `TaskManager.Start()` over those workers, with the `StopWorkersByPid()` goroutines, `Broadcast()` of info commands, keep-alives and the Runner as the environment; fairness and all properties |
| `WorkerPool` | the abstract specification: what a task promises about its processes, with no channels and no signals |
| `Supervisor` | the abstract specification of the manager: what it promises about the executions of its tasks, with no commands, channels or answers |
| `Frontend` | operators: from a line typed at the console, over the HTTP client and the routes, to a command |
| `Runner` | the Runner with its clients, the signal handler, the broadcasts of `command.go`, and several instances of tasks at the level the Runner sees them; fairness and properties |
| `KeepAlive` | publisher, proxy, subscriptions, keep-alive handlers and their channels, for several tasks and instances of one task; fairness and properties |
| `MCTaskManager`, `MCRunner`, `MCKeepAlive` | what TLC needs to instantiate them: assignments of pids, lines to type, names |
| `TaskManager_proofs` | types and the channel discipline, for every instance, pid reuse included |
| `PoolSafety_proofs` | signals, pid reuse included; the fate of the processes, when no pid is reused; the loops that never end, the stop that does not return, and hangs |
| `PoolRefinement_proofs` | `TaskManager` implements `WorkerPool`, when no pid is reused |
| `PoolCounting_proofs` | every exit is counted once; a running task has its workers |
| `RunnerInvariant_proofs` | the inductive invariant of `Runner`, and the steps that keep its parts about types, clients, broadcasts and answers |
| `RunnerStops_proofs` | the parts about stops, the counting of answers, and instances that start and die |
| `Runner_proofs` | supervision, what was typed, the refinement of `Supervisor`, and the theorems about `Runner` |
| `KeepAlive_proofs` | the theorems about `KeepAlive` |

`Worker` is a part of `TaskManager` (EXTENDS), `Frontend` of `Runner`. `Runner`, `TaskManager` and
`KeepAlive` look at the same `TaskManager.Start()` from three sides: `TaskManager` from the processes, with
the Runner and the keep-alives as its environment; `Runner` from the commands; `KeepAlive` from
the keep-alive channel. What one assumes of the other is said below; composed they would be out of TLC's reach.

### How state and actions correspond to the code

*Worker.* `run[w]` is the program counter of the goroutine of `run()`, into which
`Stop()` is inlined: `select` (line 130), `forward` (144, the report of an exit the
loop took itself), `info` (313), `stopping` and `killing` (the two selects of
`Stop()`, before and after SIGKILL), `feedback` (259, the last line of `Stop()`),
`ended` (155-158). `caller[w]` says which of the three callers `Stop()` has,
because only a closed channel ends the loop afterwards. `waiter[w]` is
`waitOnProcess()`; it sends exactly one message. `stale[w]` is the value
`HasStalled()` would return: `Elapse` makes it true, `TakeKeepAlive` false again.
The `break` after line 145 is commented out in the code, so the loop of a dead
worker goes back to its `select`, and can be stopped, asked and told of keep-alives.

*Pids.* A worker instance is not its pid. `PidOf` is what the kernel gives to each
instance, and `PidFree` is all the kernel promises: the pid of a process that was
not reaped is not given out. Which instance a start takes is open when their pids tell them apart: of the
instances that could be started `NextFresh` takes the least of those that are *alike*, which have the same
pid or pids that nobody shares. So a pid may be reused at any start, those in the loop of `Start()` included. `SendSignal` reaches whatever process has the pid when
the call is made.

*TaskManager.* `tpc` is the program counter of the goroutine of `Start()`, `after`
what follows the `StopWorkersByPid()` in progress (the function is called from four
places). `workerChannels[p]` and `keepaliveChannels[p]` hold the worker whose channel
the map has under pid `p`. `stopper[w]` is the goroutine `StopWorkersByPid()` starts for
`w`. A rendezvous is one action of both sides: `SendStop`, `SendInfo`, `CollectInfo`,
`DeliverKeepAlive`, `AnswerStop`. A send on a buffered channel that nobody can fill
(the answer of a stop, capacity one) is part of the action before it.
`cleanWorkerReference()`, `restoreCardinality()` and `MaintainWorkerCardinality()` are
one call in the code and a path `loop -> restore -> maintain -> loop` here, since
`StartWorker()` creates a process and other goroutines run in between; the task takes
no command on that path, as in the code.

*Panics.* The model keeps them: `ForgetWorker` recovers the `close` of a missing channel
as the deferred function does, `DropKeepAliveChannel` is the recovered send of
`keepWorkerAlive()`, and `tpc = "panic"` is the unrecovered one that ends the manager: of a second reply to the start
command, and of `Info()` on a collector that was closed when the broadcast timed out (`AnswerOnClosed`).

*The Runner, seen from a task*, only forwards: it has at most `MaxRequests` commands, may send another
before the first was answered (it gives up after a minute), and sends none after a stop. That
last assumption is `NothingAfterStop` of module `Runner`, proved there. A status or a stop may name no task and go to others as well:
the Runner may then be `sending` for a while after this task got it, or for good when one of the others hangs with a full channel. Until it
collects, the task waits in `SafeReply()` (`tpc = "reply"`, `CollectorReady`); afterwards the Runner receives, or has closed the collector and
`SafeReply()` recovers. `set` and `listworkers` name one task, so that their answers do not wait for others.

*Outages.* `failing` says that the command of the task cannot be executed at present (the file is missing, no more
processes, no memory). An outage may begin at any time, at most `MaxOutages` times, and may never end; while it lasts every
start fails, so that `restoreCardinality()` spins (`Spinning`). Where `MaintainWorkerCardinality()` gave up is recorded in `givenUp`.

### The front end and the Runner

*Frontend.* A line is the sequence of its words, a path the sequence of its segments. `Param` is
`parseReadline()` with `parseParams()`, `ListUrl` to `StatusUrl` are the methods of the client, `HttpRequest` the switch
of the console, `Routes` the table of `HTTPHandler.Run()`, `CommandOf` its handlers. A missing name
leaves a slash at the end (`DELETE /tasks/`), which the router takes for the route without a name, or an empty segment in the
middle, for which there is no route. `WellTyped` is what `parseReadline()` and `parseParams()` can make of a line: a word the console
makes a request for, parameters that are not empty, and more than one of them for `set` only. It also leaves out names with a slash
in them, which the client puts into the path as they are: `status T1/start` is `GET /tasks/T1/start`, and starts `T1`.

*Runner.* `rpc` is the program counter of the one goroutine: `idle` at the select of `Run()`, `send` and
`collect` in `Broadcast()`. The commands the Runner answers by itself (`Reject`, `List`, `AlreadyRunning`, `Start`,
`NoActiveTasks`) are one action with their answer: the client reads its reply channel until it is
closed, so that they do not block. `Relay` is `Forward()` and `Broadcast()` alike, because the first calls the second
with one channel; it makes the whole of `MarkInactive` first, as the code does. `SendOne` waits for room in the
channel of one instance after the other, with no timeout; `Collect` counts answers; `Timeout` may
fire whenever the Runner collects (the timer of the code starts again with each answer).

*Clients and the signal handler.* A request is typed once; `got[r]` is what its reply channel has brought.
`sig` is where the signal handler is: it catches the signal (`Interrupt`) whatever the inbox holds, and sends its stop when there is
room (`FirstStop`). `Exit` ends the behaviour: `Next` has `sig # "exited"`.

*Instances.* One for each `Start()` of a task, named for the request or the auto-start that made it, because
each has a channel of its own (`taskCommands`). `phase` is how far it is with a command, `hand` the command, `alive`
whether it may have processes. `Reply` meets the Runner on the collector of *that* command; when the collector is
closed `ReplyTooLate` is the recovered panic; in between, `SafeReply()` waits. `Hang` is any of the ways
`TaskManager` shows to hang. A failed start, which ends the manager (`startup_failure`), is left out here. The reports of
workers, which share the channel with the commands, are not modelled in `Runner`: `QueueCap` is 1 instead of 10,
so that a full channel is reached all the same.

*Supervisor.* `Promise` maps an instance to `running` when the Runner has its channel for its task, to `stopping` from the
moment the stop is relayed until it is answered or given up, then to `stopped` or `abandoned`. `Stop(Tasks)` is the stop with no name, one
step for all the instances; the sends and answers of the broadcast are stutters but for the answer of each instance (`Confirm`). A
timeout is `GiveUp`, for those that have not answered. Between `Stop` and `Confirm` the processes of an instance may still boot: its
`Start()` may be in its loop when the stop is put in the channel.

### Keep-alives

A name is a sequence, a subscription a prefix (`Subscribed`). `Forward` is the proxy, and loses what it likes: PUB
and SUB sockets drop messages. `handler[h]` is at the poller (`poll`), on the channel (`send`), or `ended`; the
three deferred calls of `Run()` are one step, `SendOnClosed`, with the order Go gives them: close, which panics
again, then the recovery. `Poll` skips what cannot be decoded. `TakeKeepAlive` is the receiving end in the task with
the hang of `late_keepalive`; `entries[h]` are the keys of `keepaliveChannels`, which no exit deletes. `CloseChannel` has
the panic of a second close. A pid may go to a process of another task once its process ended.

### Abstractions

Time is not measured: a grace timer, a ticker or a stall may fire whenever its
condition allows. Texts of replies and logs are left out. A `set` with an option other than a
cardinality, or a value that is not a number, changes nothing and is not an input.
A negative cardinality behaves as zero. The `stopworkers` command of `RunCommand()` is left
out: `validateCommand()` refuses it and nothing else sends it. `BroadcastTimesOut` may fire whenever a task collects
the answers of its workers, as `Timeout` may in `Runner`; the timer of the code starts again with each answer.
A keep-alive that is on its way is a pid in a set: the ten places of the channel
and the socket before it only delay it.

## 3. Model checking

| run | question | instance |
|---|---|---|
| `pool_safety` | with own pids: is every exit counted once, is no process forgotten or alive after a stop, does the task implement the pool, does a stopped task return, does a loop end, is a hang ever resolved? | 3 processes for a cardinality of 2, `set 1` and `stop` in any order, 1 natural exit, 1 stall, keep-alives of one worker; 1.65 million states |
| `pool_pid_reuse` | when the third and fourth process may get the pids of earlier ones: is anything sent on a closed channel, does an answer come after its broadcast, who gets whose signals, is an exit lost? | 5 processes on 3 pids, so that the report of a process whose pid was given away, and later the report of the process that got it, are both handled; 2 natural exits, keep-alives, one status or stop command; 1.1 million states |
| `pool_recovery` | does the task come back to its loop unless it hangs, spins or is not heard, is it ever back short of workers, and is the pool refilled? | one worker, replaced at most three times, 1 natural exit, 1 stall, 1 outage, keep-alives, one command among `set 0`, `set 2`, status, list and stop; 31 000 states |
| `runner` | does an instance escape the Runner, an answer reach the wrong client, a broadcast end early, a task start or stop that nobody asked to, a task run twice or restarted too early, a request or an answering task wait for ever? | two tasks, one auto-started, two requests with any of seven lines, the interrupt, timeouts at any moment, one instance that hangs; 68 000 states |
| `keepalive` | who closes the channel, is a handler stuck, does it end? | `Task1` and `Task10` on one pid, one message on the wire, two in each socket, one in each channel; 553 000 states |
| `stop_returns`, `worker_loop_ends`, `late_keepalive`, `shrink_by_two`, `startup_failure`, `full_queue`, `orphans_at_exit` | seven statements of the repository the code does not keep (section 5) | the smallest instance that shows each |

*Why these bounds.* Every property but the pool's is about one worker or a pair
(the dead one and the one that took its pid, or the one stopped too many): three to five
instances give every pair of roles, with one more to restart. `QueueCap` is 2, at
least one less than the number of processes, so senders do block on the full channel.
`MaxExits` bounds only natural exits; kills are not bounded. `MaxStalls` bounds
how many workers are stale at once, of those in `Silent` (any worker in `pool_safety`, the first one in the liveness run). `MaxOutages` bounds
outages, not the starts that fail in one, and at most one keep-alive per pid is on its way. `NextFresh` is a
symmetry argument: instances that are alike have no identity before one
starts. When all of `Workers` were started, `StartWorker` has nothing to start, which
leaves a task waiting in `restore` or `maintain`; the safety runs accept that, the
liveness run has more instances than it can use.

In `runner` two requests and two stops give every overlap of two commands, an instance started for a task whose
former instance is still stopping, and a late answer while another broadcast collects. The lines have
every kind of path but `set`, which the Runner handles as it does a status with a name, and one with no route. `InboxCap`
is 2 for three clients, so that clients wait. In `keepalive` two tasks are enough for every property (one is
disturbed by the other); two instances of one task are covered by the proofs, which hold for any names.

*Deadlock* is not checked: a task stops for good when it has ended, and the model is
bounded. What must not get stuck is stated as `ResponsiveUnlessHung`.

*Fairness.* Goroutines that can run do run (weak fairness of `TaskStep`, of each worker's own
steps and of `Reap`). Where a goroutine's step competes with others for a `select` the fairness
is strong (`TakeCommand`, `TakeExit`, `SendStop`): Go picks among ready cases at random, and a
blocked sender is served in order. A process that got SIGKILL ends. Nothing is assumed of
clients, of processes that got only SIGTERM, of stalls, of keep-alives, of the end of an outage, and of the Runner, which may never
come to collect an answer. In `Runner` the Runner (its timer
included), the signal handler once it caught a signal, and each instance run; nothing is assumed of clients, of
the interrupt and of hangs. In `KeepAlive` handlers and tasks run; nothing is assumed of processes, of the
network, and of the return of the last `Stop()`, which may not come (`stop_returns`).

*The hangs.* `Hung` names the two ways in which the goroutine of a task waits for a worker that does not come: the `Stop()` of the
worker waits for an exit message that was already taken (`Doomed`: it was stopped, or its channel closed, or it stalled, after its exit), or its
loop waits for room in the channel of the task (`Blocked`). The task may be waiting in `StopWorkersByPid()`, in the sending half of
`Broadcast()` or in `keepWorkerAlive()`. `late_keepalive`, `stop_returns` and `full_queue` show one of these each; `HungForGood`, proved for all
instances, says that none ever resolves itself: only a panic of the manager ends one. `ResponsiveUnlessHung` names two more reasons for
the task not to come back: `Spinning`, the endless loop of `restoreCardinality()` during an outage, and `Unheard`, the answer to
a Runner that is stuck sending to another task. Both may be for good, and both may end. It says that there is no further reason, and is checked with
exits, stalls, outages, keep-alives and every kind of command.

### Properties

- `ExitsConserved`: the processes whose exit was taken = those counted in
  `nStoppedWorkers` + reports on the channel + reports in hand. Relates three actors and
  the channel between them.
- `StallReported`: `Stop()` evaluates `HasStalled()` again after its wait; no keep-alive
  gets in between to turn a stall into a plain exit.
- `NoSendOnClosedChannel`: the send the code does not guard against a closed channel never meets one, even when a
  report closes the channel of the process that inherited the pid.
- `AnsweredBeforeClose`: `Broadcast()` counts answers and closes its collector, on which `Info()` sends unguarded. Unless it times out,
  no worker is left to answer. After a timeout one may be, and its answer ends the manager: the property has that exception, and the
  step is in the model (section 5).
- `StraySignals`: with reused pids the `Stop()` of a dead worker, which waits for a second exit message, does signal another process,
  with SIGTERM and later with SIGKILL. Every process that gets a signal its own `Stop()` is not waiting out has inherited the pid of a reaped one.
- `AliveTracked`, `StopAnsweredAllDead`, `ImplementsPool`: with own pids, no
  process is forgotten or left alive, and the pool's promise is kept.
- `NeverShort`: a running task is back in its loop with too few workers only when `MaintainWorkerCardinality()` met an error that its callers
  ignored (`givenUp`); `restoreCardinality()` never gives up, so the handling of an exit does no harm to the pool, but spins.
- `HungForGood`, `ResponsiveUnlessHung`: what hangs, hangs for good, and nothing else makes the task stay away from its
  loop. The first is an action property about any step of any actor; the second is liveness.
- `StoppedNeverReturns`: the safety side of `stop_returns`: `Start()` only returns from a stop command that found no worker.
- `NoLoopEnds`: the safety side of `worker_loop_ends`: the clean-up of `worker.go:155-158` is never reached. With reused
  pids it is, by a worker whose channel was closed in place of another's.
- `PoolRefilled`: liveness; when the task runs and keeps coming back to its loop the pool gets to its cardinality and stays there,
  unless a set met an error: then nothing tries again until the next exit or set, and the client was told the cardinality changed.
- `Supervised`: an instance that may have processes is the one the Runner has for its task, or is being stopped, or
  its stop timed out. So two instances of a task overlap only after a timeout.
- `NothingAfterStop`: nothing is put in a channel behind a stop, where nobody would read it.
- `AnswersToTheirOwn`, `AnswersComplete`: late answers never reach the next broadcast, which only counts, and a broadcast that
  does not time out has the answer of every instance it went to.
- `ActiveAsAsked`: relates the typed line, over URL, route and validation, to what becomes active.
- `ImplementsSupervisor`: the manager keeps the promises of `Supervisor`: a task has one instance at a time, a stop is confirmed only
  when the processes are gone, and a task is started again only then, or when its stop timed out.
- `RequestsAnswered`, `RepliesReturn`, `InterruptExits`: liveness of the Runner, tasks that hang notwithstanding. The exception
  `Blocked` is real: with a full channel of a hung instance before it the Runner waits for ever, and with it all the clients and the
  signal handler, because sending has no timeout. Tasks that have already answered wait in `SafeReply()` for as long.
- `ClosedOnceByTask`: both ends close the channel; the close of the task, which nothing recovers, is always the first.
- `HandlerResponsive`, `HandlerEnds`: the handler waits only for a task that is hung or in its last `Stop()`. After the close
  it ends, at once when it was blocked, else at the next keep-alive it can decode, whatever comes before that.
  A handler that gets no more keep-alives never notices the close: the code has no other way to tell it.

Every one has a mutant: a plausible error in the translated code that breaks it.

## 4. Proofs

Proved with TLAPS for any finite set of processes, any pids, any targets and any bounds.

1. `TypeCorrect`: `TypeOK` is inductive. The one lemma with content is that a command taken
   from the channel is a message of its type, so that a report names a worker and a set
   command a number.
2. `ChannelsOpen` rests on `ChannelInv`: an entry of `workerChannels` is the open channel of a
   started worker *with that pid*, and the workers a stop or a broadcast still has to reach are in
   the map. `NoSendOnClosedChannel` is not inductive: that the channel is
   open now does not say that it is still in the map, and a channel is only closed with its entry.
   No assumption on pids is needed, because an entry that is overwritten is never closed.
3. `BroadcastAnswered`: `AnsweredBeforeClose` is inductive given `ChannelInv`. Unless a broadcast timed out the workers that are to answer are
   among those told and not heard (`Answering`); while it is still sending these are in the map it will collect from, because
   no entry is added or deleted meanwhile.
4. `StallsReported` rests on `StallInv`: while `Stop()` runs for a stall, `stale` still holds.
5. `ExitsReaped`: `ExitInv` follows an exit from the process over the wait, the
   loop or `Stop()`, and the channel. Everything below needs it: a report is never about a live process.
6. `SignalsExplained`: `StraySignals` for any pids, by `SignalInv` and `ExitInv`. A signal that is sent reaches the one process that has
   the pid; if that is not the worker's own, its own was reaped. Under `NoPidReuse` (no two of the processes ever started have the same pid):
   `NoneForgotten` (`AliveTracked` is inductive given `ExitInv`), and
   `StopsComplete` with `StopInv`: a task that took a stop is in none of the places that start
   workers, and during the stop each living process has a goroutine waiting for it.
   The assumption is needed: with reused pids the code does forget processes, because a
   report deletes whatever is under its pid.
7. `PoolImplemented`: under `NoPidReuse`, `Spec => ImplementsPool`. Each action is mapped to a step of
   `WorkerPool` or to a stutter (`StepsOfThePool`). Two starts need a count: `Restock` starts when the *map*
   is short, and by `AliveTracked` the living are a subset of the map; the loop of `Start()` counts
   its own iterations, and `StartInv` bounds the living by them.

8. `EveryExitCounted`: `ExitsConserved` with `ExitInv`. The lemmas `ReportsAppend` and `ReportsTail` count the reports of a
   channel (the second over the bijection that shifts positions by one); taking an exit, reporting it and
   counting it are the only steps that move one. No assumption on pids.
9. `RunningTaskIsFull`: under `NoPidReuse`, `NeverShort` by `ShortInv`: in the loop of `Start()` there are as many entries as starts,
   in `restoreCardinality()` and `MaintainWorkerCardinality()` any number, everywhere else of a running task that did not give up
   at least the cardinality. With reused pids the loop of `Start()` may overwrite an entry, hence the assumption.
10. `HangsForGood`: `HungForGood` for channels of any capacity, pids reused or not, but for a panic of the manager. `DoomedStays`: nobody sends a second exit
    message. `BlockedStays`: only the task takes from its channel, and it waits elsewhere. `AwaitedStays`: the three
    waits of the task end only when the worker's loop is in its `select`, has ended, or takes an exit. `ExitInv` is
    needed for the first two: a worker with a report in hand has taken its exit.
11. `StopsNeverReturn`: `StoppedNeverReturns`, pids reused or not, by `ReturnInv`: once a stop is answered every worker in the map has
    given its exit message away, nothing is deleted from the map any more, and the last stop asks each of them.
12. `LoopsGoOn`: under `NoPidReuse`, `NoLoopEnds` by `LoopInv`: a channel is closed only after the exit of its worker was
    taken (`ExitInv` and `ChannelInv`), and the `Stop()` for a closed channel needs a second exit message.

*Runner*, for any tasks, requests, lines and bounds. `Inv` has one part for each thing the properties depend
on: `ClientInv` (a client sends once and has nothing before its turn), `BroadcastInv` (where a broadcast is), `InstanceInv`
(an instance not started has nothing, and its start was answered by then), `PendingInv` (what an instance still has to answer is being
broadcast or was given up), `OwnerInv` (commands that name a task are with its instances), `StopInv` (who was sent a stop is not
the instance of an active task, nor still to be told), `OnceInv` and `CountInv` (below), `StartedInv`, `DeadInv`.

13. `NothingBehindStop`: marking the tasks inactive *before* the stop is sent is what makes it inductive
    (`StopInv`).
14. `OwnAnswersOnly`: from `PendingInv` and `OwnerInv`; a timeout ends a command for good.
15. `AllSupervised`: a task is marked inactive in the step that makes its instance one `BeingStopped`, and
    that lasts until it answered, when its processes are gone, or until the timeout.
16. `CountingIsEnough`: by `OnceInv` an instance has the current command once and not after it answered, so that (`CountInv`) `cnt` is
    the number of instances that did not answer yet; at zero all did.
17. `RunnerTypeCorrect`: with the same invariant, since `Collect` and `SendOne` are typed only where the broadcast is.
18. `WhatWasTyped`: `ActiveAsAsked` for any tasks and any well-typed lines (`LinesAssumption`). `Segments` takes a line to the segments of
    its path, `RouteOfStop`, `RouteOfStart` and `RouteOfOthers` find the one route each path has, or none, and `StopAndStartLines` turns that
    around: a command that stops or starts comes from a line that says so. By `LineInv` the command of a
    request stays the one its line makes.
19. `SupervisorImplemented`: `Spec => ImplementsSupervisor`. The map (`LifeMap`, `TaskMap`) reads the Runner's registry, the broadcast
    and the history of timeouts. By `StoppingAre` the instances that are being stopped are exactly those mapped to `stopping`, so that
    they change in one step. Two parts are added to `Inv`: `StoppingInv` (an instance that ends its processes has a stop in hand) and
    `AbandonedInv` (an instance that was given up is never again in charge or being stopped). TLC checked them on `runner`
    before they were proved.

*KeepAlive*, for any instances, names and pids: `TheTaskClosesFirst` and `KeepAliveTypeCorrect`, from their
conjunction and `Decoded` (what a handler is about to send is no garbage, so that the channel has keep-alives only).

TLC alone checks the liveness properties (outside the prover's reach, as is `ENABLED`) and the
counterexamples. Every invariant and every action property of the passing runs, and both refinements, are theorems.

*Assumptions.* Those of the constants, named in the modules that declare them; `NoPidReuse`, a hypothesis of the theorems
that need it and of no other; and `LinesAssumption`, which is what the console can make of a line, but for names with a slash.

## 5. Where the code does not do what it says

1. `stop_returns`: after a stop command was answered, `Start()` runs `Stop()` a second time over
   workers already dead; each waits for an exit message nobody will send (`worker.go:241`). The
   task never terminates.
2. `worker_loop_ends`: "closed channel => stop and cleanup" (`worker.go:132`) never gets to the clean-up,
   for the same reason: one goroutine and one ticker leak for each worker that ends.
3. `late_keepalive`: a keep-alive handled after its process was reported dead is sent to a loop stuck as in 2;
   the task hangs for ever.
4. `shrink_by_two`: reports are handled one by one, and each counts the dead workers not yet cleaned
   as extra: a live worker too many is stopped, or a dead one is stopped and the task hangs.
5. `startup_failure`: the loop of `Start()` goes on after a failed start and replies twice on a closed channel: the
   manager panics.
6. `full_queue`: a worker that took the exit of its process waits for room in the task's channel while the task, broadcasting, waits to
   tell that worker the command (`worker.go:144`, `command.go:100`). The run has a channel of one and two exits; the code needs ten
   reports on the channel and one more.
7. `orphans_at_exit`: the stop of the signal handler marks every task inactive and times out; the second stop
   ("kill them before exiting the manager", `signalhandler.go:50`) is no kill and reaches no task, and the manager exits with
   processes alive. The run has no client, so that nothing else can have marked the task.

Three more things the models show, where no line says otherwise: a worker that answers an info command after the broadcast of its task timed
out (`command.go:123`) sends on a closed channel and ends the manager; the loop of a dead worker that is told to stop, or whose
channel is closed, signals whatever process has its pid by then (`worker.go:218`, `241`); and a failed start in a set leaves the pool short
for good (`taskmanager.go:421`).

## 6. Not modelled

- *Configuration*: JSON, the directory of tasks, `CopyFrom()` and the defaults of `NewTaskManager()`. It is input and
  output and one assignment for each field, done once before anything runs. One boundary there is worth knowing: with a
  `StallTimeout` of 1 or less the ticker of `worker.go:120` gets a period that is not positive, and panics.
- *Commands without a sender*: `kill` and `stopped` in the Runner (let through, sent by nobody; no task answers `kill`), and
  `stopworkers` in the task (the Runner refuses it).
- *HTTP server*: the first `ListenAndServe()` (`httphandler.go:26`) has the port as a rune, fails and returns at once; the second
  serves. Bodies, status codes and the routing library are left out, but for how a route is matched.
- *Console*: `open`/`connect`, the history, completion and the help text.
- *Time*: lengths of timeouts, grace periods and tickers. A timer may fire when it is running.
- *One-part messages* at the port of the proxy, which would make the handler decode its last message again.
- The example tasks, the profiler, logging.
- A composition of `Runner` with `TaskManager` in one model: each assumes of the other what the other one shows
  (`NothingAfterStop`; the hangs of section 5), and the product of their states is out of TLC's reach.
