--------------------------- MODULE MCTaskManager ---------------------------
(* TLC instances of TaskManager: how pids are given to the instances.       *)
EXTENDS TaskManager

\* Every process has a pid of its own.
OwnPids == [w \in Workers |-> w]

\* The third and the fourth process may get the pid of an earlier one.
ReusedPids == [w \in Workers |-> IF w \in {3, 4} THEN w - 2 ELSE w]

=============================================================================
