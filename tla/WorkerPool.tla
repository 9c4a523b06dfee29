----------------------------- MODULE WorkerPool -----------------------------
(***************************************************************************)
(* What a task promises about its pool of processes, with no channels, no  *)
(* goroutines and no signals: a process is only started when fewer than    *)
(* the target are alive, never once the pool is closed, and the closing is *)
(* confirmed only when none is left.  The README promises to "maintain the *)
(* desired number of worker processes for each task" and to stop them all  *)
(* before shutting down; module TaskManager is shown to keep to it.        *)
(***************************************************************************)
EXTENDS Naturals, FiniteSets

CONSTANTS
  Workers,        \* the processes that may ever be started
  Targets,        \* targets the pool may be given
  InitialTarget   \* the first one

VARIABLES
  fresh,      \* processes not started yet
  alive,      \* processes that run
  target,     \* how many should run
  open,       \* processes may be started
  confirmed   \* the stop was confirmed to whoever asked

poolState == <<fresh, alive, target, open, confirmed>>

Init ==
  /\ fresh = Workers
  /\ alive = {}
  /\ target = InitialTarget
  /\ open = TRUE
  /\ confirmed = FALSE

Start(w) ==
  /\ open
  /\ w \in fresh
  /\ Cardinality(alive) < target
  /\ fresh' = fresh \ {w}
  /\ alive' = alive \cup {w}
  /\ UNCHANGED <<target, open, confirmed>>

Exit(w) ==
  /\ w \in alive
  /\ alive' = alive \ {w}
  /\ UNCHANGED <<fresh, target, open, confirmed>>

Resize(n) ==
  /\ open
  /\ target' = n
  /\ UNCHANGED <<fresh, alive, open, confirmed>>

Close ==
  /\ open
  /\ open' = FALSE
  /\ UNCHANGED <<fresh, alive, target, confirmed>>

Confirm ==
  /\ ~open
  /\ alive = {}
  /\ confirmed' = TRUE
  /\ UNCHANGED <<fresh, alive, target, open>>

Next ==
  \/ \E w \in Workers : Start(w) \/ Exit(w)
  \/ \E n \in Targets : Resize(n)
  \/ Close
  \/ Confirm

Spec == Init /\ [][Next]_poolState

=============================================================================
