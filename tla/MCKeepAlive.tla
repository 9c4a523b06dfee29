----------------------------- MODULE MCKeepAlive -----------------------------
(* TLC instances of KeepAlive: the names of the tasks.                      *)
EXTENDS KeepAlive

\* An instance of "Task1" and one of "Task10".
PrefixNames == [h \in Instances |-> IF h = 10 THEN <<1, 0>> ELSE <<1>>]

=============================================================================
