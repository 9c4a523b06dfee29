----------------------------- MODULE KeepAlive -----------------------------
(***************************************************************************)
(* The way of a keep-alive from a process to its worker: the publisher of  *)
(* utils/keepalivemanager.go, the proxy of utils/zmqwrapper.go, the        *)
(* handler of taskmanager/keepalivehandler.go with its subscription and    *)
(* its channel, and the receiving end in taskmanager.go, over several      *)
(* tasks and several instances of one task.                                *)
(*                                                                         *)
(* A task name is a sequence, because a ZeroMQ subscription is a prefix.   *)
(* An instance is one execution of TaskManager.Start().                    *)
(***************************************************************************)
EXTENDS Naturals, SequencesExt

CONSTANTS
  None,
  Instances,
  NameOf,       \* the name of the task of each instance
  Pids,
  WireCap,      \* bound: messages on their way through the proxy
  SocketCap,    \* high-water mark of a subscription
  ChannelCap    \* buffer of the keep-alive channel (10 in the code)

ASSUME InstancesAssumption == None \notin Instances /\ None \notin Pids
ASSUME NamesAssumption == NameOf \in [Instances -> Seq(Nat)]
ASSUME CapsAssumption ==
  WireCap \in Nat \ {0} /\ SocketCap \in Nat \ {0} /\ ChannelCap \in Nat \ {0}

VARIABLES
  process,     \* the instance whose process has each pid, if any
  wire,        \* messages the proxy has not forwarded yet
  socket,      \* messages received for each handler
  handler,     \* JobqueueKeepAliveHandler.Run(): see HandlerStates
  message,     \* the keep-alive it has in hand
  channel,     \* the channel between handler and task
  closed,      \* it was closed
  task,        \* Start(): see TaskStates
  entries      \* the keys of keepaliveChannels

processVars == <<process, wire>>
handlerVars == <<socket, handler, message>>
channelVars == <<channel, closed>>
taskVars    == <<task, entries>>
vars == <<processVars, handlerVars, channelVars, taskVars>>

Names == {NameOf[h] : h \in Instances}
KeepAliveOf(p) == [pid |-> p, name |-> NameOf[process[p]]]
Garbage == [pid |-> None, name |-> None]

\* "poll" at the poller, "send" on the channel, "ended" closed and returned.
HandlerStates == {"none", "poll", "send", "ended"}

\* "running" in run(), "hung" in keepWorkerAlive() on the channel of a worker that
\* reads no more, "stopping" in the last Stop(), "ended", "panic" unrecovered.
TaskStates == {"none", "running", "hung", "stopping", "ended", "panic"}

Init ==
  /\ process = [p \in Pids |-> None]
  /\ wire = << >>
  /\ socket  = [h \in Instances |-> << >>]
  /\ handler = [h \in Instances |-> "none"]
  /\ message = [h \in Instances |-> Garbage]
  /\ channel = [h \in Instances |-> << >>]
  /\ closed  = [h \in Instances |-> FALSE]
  /\ task    = [h \in Instances |-> "none"]
  /\ entries = [h \in Instances |-> {}]

-----------------------------------------------------------------------------
(* Processes and the publisher *)

\* StartWorker() of a running task; the kernel gives out any free pid.
StartProcess(h, p) ==
  /\ task[h] = "running"
  /\ process[p] = None
  /\ process' = [process EXCEPT ![p] = h]
  /\ entries' = [entries EXCEPT ![h] = @ \cup {p}]
  /\ UNCHANGED <<wire, handlerVars, channelVars, task>>

\* Nothing deletes the entry of a process that ends.
EndProcess(p) ==
  /\ process[p] # None
  /\ process' = [process EXCEPT ![p] = None]
  /\ UNCHANGED <<wire, handlerVars, channelVars, taskVars>>

Publish(topic, keepalive) ==
  /\ Len(wire) < WireCap
  /\ wire' = Append(wire, [topic |-> topic, body |-> keepalive])
  /\ UNCHANGED <<process, handlerVars, channelVars, taskVars>>

\* SetAlive(): the name of the task is the topic, and is repeated in the body.
SetAlive(p) ==
  /\ process[p] # None
  /\ Publish(NameOf[process[p]], KeepAliveOf(p))

\* Anything may be published at the port of the proxy.
PublishGarbage == \E name \in Names : Publish(name, Garbage)

-----------------------------------------------------------------------------
(* The proxy and the subscriptions *)

\* A subscription to the name of a task is a prefix of the topics it gets.
Subscribed(topic) ==
  {h \in Instances : handler[h] \in {"poll", "send"} /\ IsPrefix(NameOf[h], topic)}

\* PUB and SUB sockets lose messages, when a queue is full or a peer is not
\* connected yet.
Forward ==
  /\ wire # << >>
  /\ wire' = Tail(wire)
  /\ \E S \in SUBSET {h \in Subscribed(Head(wire).topic) : Len(socket[h]) < SocketCap} :
       socket' = [h \in Instances |->
                    IF h \in S THEN Append(socket[h], Head(wire).body) ELSE socket[h]]
  /\ UNCHANGED <<process, handler, message, channelVars, taskVars>>

-----------------------------------------------------------------------------
(* The handler *)

\* Mutant: a message that cannot be decoded ends the handler.
PollOrReturn(h) ==
  /\ handler[h] = "poll"
  /\ socket[h] # << >>
  /\ message' = [message EXCEPT ![h] = Head(socket[h])]
  /\ socket' = [socket EXCEPT ![h] = Tail(@)]
  /\ handler' = [handler EXCEPT ![h] = IF message'[h] = Garbage THEN "ended" ELSE "send"]
  /\ closed' = [closed EXCEPT ![h] = @ \/ message'[h] = Garbage]
  /\ UNCHANGED <<processVars, channel, taskVars>>

\* Mutant: the error of the decoder is ignored.
PollUnchecked(h) ==
  /\ handler[h] = "poll"
  /\ socket[h] # << >>
  /\ message' = [message EXCEPT ![h] = Head(socket[h])]
  /\ socket' = [socket EXCEPT ![h] = Tail(@)]
  /\ handler' = [handler EXCEPT ![h] = "send"]
  /\ UNCHANGED <<processVars, channelVars, taskVars>>

\* A message that cannot be decoded is skipped.
Poll(h) ==
  /\ handler[h] = "poll"
  /\ socket[h] # << >>
  /\ message' = [message EXCEPT ![h] = Head(socket[h])]
  /\ socket' = [socket EXCEPT ![h] = Tail(@)]
  /\ handler' = [handler EXCEPT ![h] = IF message'[h] = Garbage THEN "poll" ELSE "send"]
  /\ UNCHANGED <<processVars, channelVars, taskVars>>

SendToTask(h) ==
  /\ handler[h] = "send" /\ ~closed[h]
  /\ Len(channel[h]) < ChannelCap
  /\ channel' = [channel EXCEPT ![h] = Append(@, message[h])]
  /\ handler' = [handler EXCEPT ![h] = "poll"]
  /\ message' = [message EXCEPT ![h] = Garbage]
  /\ UNCHANGED <<processVars, socket, closed, taskVars>>

\* Mutant: the panic is recovered inside the loop.
SendAndGoOn(h) ==
  /\ handler[h] = "send" /\ closed[h]
  /\ handler' = [handler EXCEPT ![h] = "poll"]
  /\ UNCHANGED <<processVars, socket, message, channelVars, taskVars>>

\* The send panics, also when it was blocked at the time of the close; the
\* deferred close panics again, and the function deferred before it recovers.
SendOnClosed(h) ==
  /\ handler[h] = "send" /\ closed[h]
  /\ handler' = [handler EXCEPT ![h] = "ended"]
  /\ UNCHANGED <<processVars, socket, message, channelVars, taskVars>>

-----------------------------------------------------------------------------
(* The task *)

\* Start(): a fresh channel and a handler, when the Runner has no other instance
\* of the task active.
StartTask(h) ==
  /\ task[h] = "none"
  /\ \A g \in Instances : NameOf[g] = NameOf[h] => task[g] # "running"
  /\ task' = [task EXCEPT ![h] = "running"]
  /\ handler' = [handler EXCEPT ![h] = "poll"]
  /\ UNCHANGED <<processVars, socket, message, channelVars, entries>>

\* "keep-alives for workers of the current task"
ForTask(h, keepalive) == keepalive.name = NameOf[h]

\* keepWorkerAlive(): the worker of a dead process may read no more, and the task
\* waits for it for ever.
TakeKeepAlive(h) ==
  /\ task[h] = "running"
  /\ channel[h] # << >>
  /\ channel' = [channel EXCEPT ![h] = Tail(@)]
  /\ LET keepalive == Head(channel[h])
         pid == keepalive.pid
     IN \/ UNCHANGED task
        \/ /\ ForTask(h, keepalive)
           /\ pid \in entries[h] /\ process[pid] # h
           /\ task' = [task EXCEPT ![h] = "hung"]
  /\ UNCHANGED <<processVars, handlerVars, closed, entries>>

\* A stop: the processes end and run() returns.
StopTask(h) ==
  /\ task[h] = "running"
  /\ task' = [task EXCEPT ![h] = "stopping"]
  /\ process' = [p \in Pids |-> IF process[p] = h THEN None ELSE process[p]]
  /\ UNCHANGED <<wire, handlerVars, channelVars, entries>>

\* Mutant: the task leaves the closing to the handler.
LeaveOpen(h) ==
  /\ task[h] = "stopping"
  /\ task' = [task EXCEPT ![h] = "ended"]
  /\ UNCHANGED <<processVars, handlerVars, channelVars, entries>>

\* The last Stop() has returned: close(keepalives).
CloseChannel(h) ==
  /\ task[h] = "stopping"
  /\ task' = [task EXCEPT ![h] = IF closed[h] THEN "panic" ELSE "ended"]
  /\ closed' = [closed EXCEPT ![h] = TRUE]
  /\ UNCHANGED <<processVars, handlerVars, channel, entries>>

-----------------------------------------------------------------------------

ProcessStep ==
  \/ \E p \in Pids : EndProcess(p) \/ SetAlive(p) \/ \E h \in Instances : StartProcess(h, p)
  \/ PublishGarbage

HandlerStep(h) == Poll(h) \/ SendToTask(h) \/ SendOnClosed(h)

Next ==
  /\ \A h \in Instances : task[h] # "panic"
  /\ \/ ProcessStep \/ Forward
     \/ \E h \in Instances :
          HandlerStep(h) \/ StartTask(h) \/ TakeKeepAlive(h) \/ StopTask(h) \/ CloseChannel(h)

\* Handlers and tasks that can run do run.  Nothing is assumed of processes, of
\* what the network loses, of stops, and of the return of the last Stop().
Fairness ==
  \A h \in Instances : WF_vars(HandlerStep(h)) /\ WF_vars(TakeKeepAlive(h))

Spec == Init /\ [][Next]_vars /\ Fairness

-----------------------------------------------------------------------------
(* Properties *)

KeepAlives == [pid : Pids, name : Names]
Bodies == KeepAlives \cup {Garbage}

\* The type of every variable.
TypeOK ==
  /\ process \in [Pids -> Instances \cup {None}]
  /\ wire \in Seq([topic : Names, body : Bodies])
  /\ socket  \in [Instances -> Seq(Bodies)]
  /\ handler \in [Instances -> HandlerStates]
  /\ message \in [Instances -> Bodies]
  /\ channel \in [Instances -> Seq(KeepAlives)]
  /\ closed  \in [Instances -> BOOLEAN]
  /\ task    \in [Instances -> TaskStates]
  /\ entries \in [Instances -> SUBSET Pids]

\* Both ends close the channel.  The handler does so only after a panic that the
\* close of the task caused, so the close of the task, which nothing would recover,
\* never finds the channel closed, and run() never reads from a closed channel.
ClosedOnceByTask ==
  \A h \in Instances :
    /\ task[h] # "panic"
    /\ closed[h] => task[h] = "ended"
    /\ handler[h] = "ended" => closed[h]

\* The handler is stuck only while its task neither reads nor closes the channel.
HandlerResponsive ==
  \A h \in Instances :
    []<>(handler[h] # "send" \/ task[h] \in {"hung", "stopping"})

\* The handler of a closed channel ends: at once when it was blocked on it, else at
\* the next keep-alive, whatever comes before it that cannot be decoded.  (With no
\* keep-alive after the close it waits at the poller for ever.)
HandlerEnds ==
  \A h \in Instances :
    closed[h] /\ (handler[h] = "send" \/ \E i \in 1..Len(socket[h]) : socket[h][i] # Garbage)
      ~> handler[h] = "ended"

=============================================================================
