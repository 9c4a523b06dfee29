----------------------------- MODULE Supervisor -----------------------------
(***************************************************************************)
(* What the manager promises about the executions of its tasks, with no    *)
(* commands, channels or answers: a task has one instance at a time, which *)
(* is asked to stop once, and it is started again only when the processes  *)
(* of the one before are gone, or when a stop was given up on.  Module     *)
(* Runner is shown to keep to it.                                          *)
(***************************************************************************)
CONSTANTS
  Tasks,
  Instances,   \* the executions of tasks there may ever be
  AutoStart,   \* tasks started with the manager, each by the instance of its name
  None

VARIABLES
  life,    \* "none", "running", "stopping", and then "stopped" or "abandoned"
  task,    \* the task of an instance
  alive    \* whether an instance may have processes

supervisorVars == <<life, task, alive>>

Init ==
  /\ life = [i \in Instances |-> IF i \in AutoStart THEN "running" ELSE "none"]
  /\ task = [i \in Instances |-> IF i \in AutoStart THEN i ELSE None]
  /\ alive = [i \in Instances |-> FALSE]

RunningFor(ts) == {i \in Instances : life[i] = "running" /\ task[i] \in ts}
Stopping       == {i \in Instances : life[i] = "stopping"}

Start(i, t) ==
  /\ Stopping = {} /\ RunningFor({t}) = {}
  /\ life[i] = "none"
  /\ life' = [life EXCEPT ![i] = "running"]
  /\ task' = [task EXCEPT ![i] = t]
  /\ UNCHANGED alive

\* Its processes are started after it is, even when it is to stop by then.
Boot(i) ==
  /\ life[i] \in {"running", "stopping", "abandoned"}
  /\ alive' = [alive EXCEPT ![i] = TRUE]
  /\ UNCHANGED <<life, task>>

\* A stop goes to all the instances of some tasks, one stop at a time.
Stop(ts) ==
  /\ Stopping = {} /\ RunningFor(ts) # {}
  /\ life' = [i \in Instances |-> IF i \in RunningFor(ts) THEN "stopping" ELSE life[i]]
  /\ UNCHANGED <<task, alive>>

\* The processes end, in time or not.
Die(i) ==
  /\ life[i] \in {"stopping", "abandoned"}
  /\ alive' = [alive EXCEPT ![i] = FALSE]
  /\ UNCHANGED <<life, task>>

Confirm(i) ==
  /\ life[i] = "stopping" /\ ~alive[i]
  /\ life' = [life EXCEPT ![i] = "stopped"]
  /\ UNCHANGED <<task, alive>>

GiveUp ==
  /\ Stopping # {}
  /\ life' = [i \in Instances |-> IF i \in Stopping THEN "abandoned" ELSE life[i]]
  /\ UNCHANGED <<task, alive>>

Next ==
  \/ \E i \in Instances : \E t \in Tasks : Start(i, t)
  \/ \E i \in Instances : Boot(i) \/ Die(i) \/ Confirm(i)
  \/ Stop(Tasks) \/ \E t \in Tasks : Stop({t})
  \/ GiveUp

Spec == Init /\ [][Next]_supervisorVars

=============================================================================
