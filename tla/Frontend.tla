------------------------------ MODULE Frontend ------------------------------
(***************************************************************************)
(* From a line typed at the console to a command for the Runner: the main  *)
(* loop of wpconsole/wpconsole.go, the methods of utils/httpclient.go and  *)
(* the routes of taskmanager/httphandler.go.                               *)
(*                                                                         *)
(* A line is the sequence of its words, a path the sequence of its         *)
(* segments; a path that ends in a slash has an empty last segment.        *)
(***************************************************************************)
EXTENDS Naturals, Sequences

CONSTANT NoTask   \* the empty task name

Empty == ""

\* The commands of the console that make a request.
Words == {"ls", "list", "lw", "listworkers", "set", "start", "stop", "st", "status"}

\* What parseReadline() and parseParams() make of a line: its words are not empty,
\* and only set has more than one parameter.  A name with a slash in it, which
\* would be more than one segment of a path, is not typed.
WellTyped(line) ==
  /\ line # << >> /\ line[1] \in Words
  /\ \A k \in 2..Len(line) : line[k] \notin {Empty, NoTask}
  /\ line[1] # "set" => Len(line) <= 2

\* parseReadline() and parseParams(): missing parameters are empty.
Param(line, k) == IF k < Len(line) THEN line[k + 1] ELSE Empty

Http(method, path) == [method |-> method, path |-> path]

\* The methods of the HTTP client.  An empty name leaves an empty segment.
ListUrl             == Http("GET", <<"list">>)
ListWorkersUrl(t)   == Http("GET", <<"tasks", t, "list">>)
SetUrl(t, param, v) == Http("POST", <<"tasks", t, "set", param, v>>)
StartUrl(t)         == Http("POST", <<"tasks", t, "start">>)
StopUrl(t)          == Http("DELETE", <<"tasks", t>>)
StatusUrl(t)        == Http("GET", <<"tasks", t>>)

\* The request the console makes for a line.
HttpRequest(line) ==
  LET word == line[1]
      name == Param(line, 1)
  IN CASE word \in {"ls", "list"}        -> ListUrl
       [] word \in {"lw", "listworkers"} -> ListWorkersUrl(name)
       [] word = "set"                   -> SetUrl(name, Param(line, 2), Param(line, 3))
       [] word = "start"                 -> StartUrl(name)
       [] word = "stop"                  -> StopUrl(name)
       [] word \in {"st", "status"}      -> StatusUrl(name)

Wildcards == {":id", ":name", ":value"}

\* The routes of HTTPHandler.Run(), with the type of the command of each handler.
Routes ==
  {[methods |-> {"GET"},                path |-> <<"tasks">>,                 type |-> "status"],
   [methods |-> {"GET"},                path |-> <<"tasks", ":id">>,          type |-> "status"],
   [methods |-> {"GET"},                path |-> <<"list">>,                  type |-> "list"],
   [methods |-> {"GET", "PUT", "POST"}, path |-> <<"tasks", ":id", "start">>, type |-> "start"],
   [methods |-> {"GET"},                path |-> <<"tasks", ":id", "list">>,  type |-> "listworkers"],
   [methods |-> {"DELETE"},             path |-> <<"tasks">>,                 type |-> "stop"],
   [methods |-> {"DELETE"},             path |-> <<"tasks", ":id">>,          type |-> "stop"],
   [methods |-> {"PUT", "POST"},        path |-> <<"tasks", ":id", "stop">>,  type |-> "stop"],
   [methods |-> {"GET", "PUT", "POST"},
    path |-> <<"tasks", ":id", "set", ":name", ":value">>,                    type |-> "set"]}

\* The router ignores a slash at the end of a path; a wildcard matches one
\* segment, which is not empty.
WithoutSlash(path) ==
  IF path[Len(path)] = Empty THEN SubSeq(path, 1, Len(path) - 1) ELSE path

Matches(pattern, path) ==
  /\ Len(pattern) = Len(path)
  /\ \A i \in 1..Len(path) :
       pattern[i] = path[i] \/ (pattern[i] \in Wildcards /\ path[i] # Empty)

RoutesOf(request) ==
  {route \in Routes : /\ request.method \in route.methods
                      /\ Matches(route.path, WithoutSlash(request.path))}

\* Mutant: the route of a single task is served like that of all of them.
CommandWithoutId(request) ==
  LET route == CHOOSE r \in RoutesOf(request) : TRUE
  IN  [type |-> route.type,
       task |-> IF Len(route.path) > 2 THEN request.path[2] ELSE NoTask]

\* params["id"] is the empty string on a route without it.
CommandOf(request) ==
  LET route == CHOOSE r \in RoutesOf(request) : TRUE
  IN  [type |-> route.type,
       task |-> IF Len(route.path) > 1 THEN request.path[2] ELSE NoTask]

=============================================================================
