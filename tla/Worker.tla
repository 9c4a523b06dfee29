------------------------------- MODULE Worker -------------------------------
(***************************************************************************)
(* taskmanager/worker.go: the three actors behind one worker instance.     *)
(*                                                                         *)
(*   - the operating-system process, a child of the manager;               *)
(*   - the goroutine of waitOnProcess(), which reaps the process and then  *)
(*     sends ONE message on the unbuffered exitChannel;                    *)
(*   - the goroutine of run(), an event loop that also executes Stop().    *)
(*                                                                         *)
(* A worker instance is not its pid: the kernel may give the pid of a      *)
(* reaped process to a later one, so PidOf need not be injective.          *)
(*                                                                         *)
(* The actions that meet the task's goroutine on an unbuffered channel     *)
(* (BeginStop, TakeInfo, TakeKeepAlive) are the worker's half of the       *)
(* rendezvous; module TaskManager adds the other half.                     *)
(***************************************************************************)
EXTENDS Naturals, Sequences, FiniteSets

CONSTANTS
  Workers,      \* the worker instances that may ever be started
  Pids,         \* process identifiers
  PidOf,        \* the pid the kernel gives to each instance
  QueueCap,     \* buffer of the task's command channel (10 in the code)
  MaxExits,     \* bound: processes that end without being asked to
  Silent,       \* the workers whose keep-alives may dry up
  MaxStalls     \* bound: how many have at any time

ASSUME WorkersAssumption == Workers \subseteq Nat /\ IsFiniteSet(Workers)
ASSUME PidAssumption     == PidOf \in [Workers -> Pids]
ASSUME QueueAssumption   == QueueCap \in Nat \ {0}
ASSUME BoundsAssumption  == MaxExits \in Nat /\ MaxStalls \in Nat

VARIABLES
  proc,       \* the process: "none", "running", "exited"
  signal,     \* the strongest signal it was sent: "none", "term", "kill"
  waiter,     \* waitOnProcess(): "none", "wait", "send" (on exitChannel), "done"
  run,        \* where run() is, see RunStates
  caller,     \* who called the Stop() in progress, see Callers
  stale,      \* HasStalled(): no keep-alive for StallTimeout
  stalled,    \* Params["stalled"] of the stoppedworker command in hand
  cmdClosed,  \* CommandsChannel has been closed
  commands    \* the task's command channel, TaskFeedbackChannel to the worker

workerVars == <<proc, signal, waiter, run, caller, stale, stalled, cmdClosed>>

(***************************************************************************)
(* "select"   blocked in the select of run()                               *)
(* "forward"  sending on TaskFeedbackChannel from the loop itself          *)
(* "info"     sending the answer to an info command                        *)
(* "stopping" in Stop(): SIGTERM sent, waiting for the exit or the grace   *)
(* "killing"  in Stop(): SIGKILL sent, waiting for the exit only           *)
(* "feedback" in Stop(): answered, sending on TaskFeedbackChannel          *)
(* "ended"    run() has returned and closed exitChannel, keepAliveChannel  *)
(***************************************************************************)
RunStates == {"none", "select", "forward", "info", "stopping", "killing",
              "feedback", "ended"}

\* Stop() runs for a stop command, or through cleanTermination() for a stalled
\* worker or a closed command channel.
Callers == {"none", "stop", "stall", "closed"}

StoppedWorker(w, s) == [type |-> "stoppedworker", worker |-> w, stalled |-> s]

WorkerInit ==
  /\ proc      = [w \in Workers |-> "none"]
  /\ signal    = [w \in Workers |-> "none"]
  /\ waiter    = [w \in Workers |-> "none"]
  /\ run       = [w \in Workers |-> "none"]
  /\ caller    = [w \in Workers |-> "none"]
  /\ stale     = [w \in Workers |-> FALSE]
  /\ stalled   = [w \in Workers |-> FALSE]
  /\ cmdClosed = [w \in Workers |-> FALSE]
  /\ commands  = << >>

WorkerTypeOK ==
  /\ proc      \in [Workers -> {"none", "running", "exited"}]
  /\ signal    \in [Workers -> {"none", "term", "kill"}]
  /\ waiter    \in [Workers -> {"none", "wait", "send", "done"}]
  /\ run       \in [Workers -> RunStates]
  /\ caller    \in [Workers -> Callers]
  /\ stale     \in [Workers -> BOOLEAN]
  /\ stalled   \in [Workers -> BOOLEAN]
  /\ cmdClosed \in [Workers -> BOOLEAN]

Live == {w \in Workers : proc[w] = "running"}

-----------------------------------------------------------------------------
(* Starting a process *)

\* The kernel never gives out the pid of a process that was not reaped yet.
PidFree(p) == \A v \in Workers : PidOf[v] = p => waiter[v] # "wait"

\* Instances not started yet are told apart by the pid they would get, and only
\* when another has it too.  Of those that are alike the least one is taken.
Fresh(w) == proc[w] = "none" /\ PidFree(PidOf[w])
Shared(w) == \E v \in Workers \ {w} : PidOf[v] = PidOf[w]
Alike(v, w) == PidOf[v] = PidOf[w] \/ (~Shared(v) /\ ~Shared(w))
NextFresh(w) == Fresh(w) /\ \A v \in Workers : Fresh(v) /\ Alike(v, w) => w <= v

Spawn(w) ==
  /\ NextFresh(w)
  /\ proc'   = [proc   EXCEPT ![w] = "running"]
  /\ waiter' = [waiter EXCEPT ![w] = "wait"]
  /\ run'    = [run    EXCEPT ![w] = "select"]
  /\ UNCHANGED <<signal, caller, stale, stalled, cmdClosed>>

-----------------------------------------------------------------------------
(* The process and waitOnProcess() *)

\* The process ends by itself: done, failed or crashed.
ExitAlone(w) ==
  /\ proc[w] = "running"
  /\ signal[w] = "none"
  /\ Cardinality({v \in Workers : proc[v] = "exited"}) < MaxExits
  /\ proc' = [proc EXCEPT ![w] = "exited"]
  /\ UNCHANGED <<signal, waiter, run, caller, stale, stalled, cmdClosed, commands>>

\* The process ends on a signal; it may take its time over SIGTERM.
ExitOnSignal(w) ==
  /\ proc[w] = "running"
  /\ signal[w] # "none"
  /\ proc' = [proc EXCEPT ![w] = "exited"]
  /\ UNCHANGED <<signal, waiter, run, caller, stale, stalled, cmdClosed, commands>>

\* cmd.Process.Wait() returns, the pid is free again.
Reap(w) ==
  /\ waiter[w] = "wait"
  /\ proc[w] = "exited"
  /\ waiter' = [waiter EXCEPT ![w] = "send"]
  /\ UNCHANGED <<proc, signal, run, caller, stale, stalled, cmdClosed, commands>>

\* The clock passes LastAliveAt + StallTimeout.
Elapse(w) ==
  /\ w \in Silent
  /\ run[w] \notin {"none", "ended"}
  /\ ~stale[w]
  /\ Cardinality({v \in Workers : stale[v]}) < MaxStalls
  /\ stale' = [stale EXCEPT ![w] = TRUE]
  /\ UNCHANGED <<proc, signal, waiter, run, caller, stalled, cmdClosed, commands>>

-----------------------------------------------------------------------------
(* run() and Stop() *)

\* kill(2) reaches whatever process has the pid now.
SendSignal(p, s) ==
  signal' = [v \in Workers |->
               IF PidOf[v] = p /\ proc[v] = "running" /\ signal[v] # "kill"
               THEN s ELSE signal[v]]

\* The first half of Stop(): SIGTERM, then the select with the grace timer.
BeginStop(w, who) ==
  /\ run[w] = "select"
  /\ SendSignal(PidOf[w], "term")
  /\ run'    = [run    EXCEPT ![w] = "stopping"]
  /\ caller' = [caller EXCEPT ![w] = who]
  /\ UNCHANGED <<proc, waiter, stale, stalled, cmdClosed>>

\* The loop takes the exit message, to forward it with "stalled" false.
TakeExit(w) ==
  /\ run[w] = "select"
  /\ waiter[w] = "send"
  /\ waiter' = [waiter EXCEPT ![w] = "done"]
  /\ run'    = [run    EXCEPT ![w] = "forward"]
  /\ UNCHANGED <<proc, signal, caller, stale, stalled, cmdClosed, commands>>

\* Mutant: the commented-out break of the loop is put back.
ForwardAndBreak(w) ==
  /\ run[w] = "forward"
  /\ Len(commands) < QueueCap
  /\ commands' = Append(commands, StoppedWorker(w, FALSE))
  /\ run' = [run EXCEPT ![w] = "ended"]
  /\ UNCHANGED <<proc, signal, waiter, caller, stale, stalled, cmdClosed>>

\* Mutant: the exit is consumed but not forwarded.
ForwardLost(w) ==
  /\ run[w] = "forward"
  /\ run' = [run EXCEPT ![w] = "select"]
  /\ UNCHANGED <<proc, signal, waiter, caller, stale, stalled, cmdClosed, commands>>

Forward(w) ==
  /\ run[w] = "forward"
  /\ Len(commands) < QueueCap
  /\ commands' = Append(commands, StoppedWorker(w, FALSE))
  /\ run' = [run EXCEPT ![w] = "select"]
  /\ UNCHANGED <<proc, signal, waiter, caller, stale, stalled, cmdClosed>>

\* The ticker fires and HasStalled().
StallTick(w) ==
  /\ stale[w]
  /\ BeginStop(w, "stall")
  /\ UNCHANGED commands

\* The receive from CommandsChannel reports it closed.
TakeClosed(w) ==
  /\ cmdClosed[w]
  /\ BeginStop(w, "closed")
  /\ UNCHANGED commands

\* Mutant: after the SIGKILL the loop does not wait for the exit.
GraceExpiresUnawaited(w) ==
  /\ run[w] = "stopping"
  /\ SendSignal(PidOf[w], "kill")
  /\ run' = [run EXCEPT ![w] = "select"]
  /\ UNCHANGED <<proc, waiter, caller, stale, stalled, cmdClosed, commands>>

GraceExpires(w) ==
  /\ run[w] = "stopping"
  /\ SendSignal(PidOf[w], "kill")
  /\ run' = [run EXCEPT ![w] = "killing"]
  /\ UNCHANGED <<proc, waiter, caller, stale, stalled, cmdClosed, commands>>

\* Mutant: the answer is given without waiting for the exit.
AnswerUnawaited(w) ==
  /\ run[w] \in {"stopping", "killing"}
  /\ waiter'  = [waiter  EXCEPT ![w] = "done"]
  /\ stalled' = [stalled EXCEPT ![w] = stale[w]]
  /\ run'     = [run     EXCEPT ![w] = "feedback"]
  /\ UNCHANGED <<proc, signal, caller, stale, cmdClosed, commands>>

\* Mutant: HasStalled() is not evaluated.
AnswerNeverStalled(w) ==
  /\ run[w] \in {"stopping", "killing"}
  /\ waiter[w] = "send"
  /\ waiter'  = [waiter  EXCEPT ![w] = "done"]
  /\ run'     = [run     EXCEPT ![w] = "feedback"]
  /\ UNCHANGED <<proc, signal, caller, stale, stalled, cmdClosed, commands>>

\* Stop() takes the exit message, evaluates HasStalled() and answers on a
\* buffered channel.
StopTakesExit(w) ==
  /\ run[w] \in {"stopping", "killing"}
  /\ waiter[w] = "send"
  /\ waiter'  = [waiter  EXCEPT ![w] = "done"]
  /\ stalled' = [stalled EXCEPT ![w] = stale[w]]
  /\ run'     = [run     EXCEPT ![w] = "feedback"]
  /\ UNCHANGED <<proc, signal, caller, stale, cmdClosed, commands>>

\* The last line of Stop(); the loop goes on unless the channel was closed.
Feedback(w) ==
  /\ run[w] = "feedback"
  /\ Len(commands) < QueueCap
  /\ commands' = Append(commands, StoppedWorker(w, stalled[w]))
  /\ run'    = [run EXCEPT ![w] = IF caller[w] = "closed" THEN "ended" ELSE "select"]
  /\ caller' = [caller EXCEPT ![w] = "none"]
  /\ stalled' = [stalled EXCEPT ![w] = FALSE]
  /\ UNCHANGED <<proc, signal, waiter, stale, cmdClosed>>

TakeInfo(w) ==
  /\ run[w] = "select"
  /\ run' = [run EXCEPT ![w] = "info"]
  /\ UNCHANGED <<proc, signal, waiter, caller, stale, stalled, cmdClosed>>

AnswerInfo(w) ==
  /\ run[w] = "info"
  /\ run' = [run EXCEPT ![w] = "select"]
  /\ UNCHANGED <<proc, signal, waiter, caller, stale, stalled, cmdClosed>>

TakeKeepAlive(w) ==
  /\ run[w] = "select"
  /\ stale' = [stale EXCEPT ![w] = FALSE]
  /\ UNCHANGED <<proc, signal, waiter, run, caller, stalled, cmdClosed>>

=============================================================================
