------------------------------ MODULE MCRunner ------------------------------
(* TLC instances of Runner: what the clients type.                          *)
EXTENDS Runner

CONSTANTS T1, T2

\* Starts, both stops, the status of all, the list of tasks, and the list of the
\* workers of a task without its name, for which there is no route.
RunnerLines ==
  {<<"start", T1>>, <<"start", T2>>, <<"stop">>, <<"stop", T1>>, <<"status">>,
   <<"ls">>, <<"lw">>}

=============================================================================
