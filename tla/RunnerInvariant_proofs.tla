----------------------- MODULE RunnerInvariant_proofs -----------------------
(***************************************************************************)
(* The inductive invariant of Runner, for any tasks, requests, lines and   *)
(* bounds: its parts, what each step does to the channels, and that every  *)
(* step keeps the types, the order of the clients and of the broadcast, and*)
(* the owners of the answers.                                              *)
(***************************************************************************)
EXTENDS Runner, FiniteSetTheorems, TLAPS

\* What the assumptions say of the identifiers.
LEMMA Ids ==
  /\ Requests \subseteq Commands /\ Stops \subseteq Commands
  /\ Requests \subseteq Instances /\ AutoStart \subseteq Instances /\ AutoStart \subseteq Tasks
  /\ Commands = Requests \cup Stops /\ Instances = AutoStart \cup Requests
  /\ First \in Commands /\ Second \in Commands /\ First # Second
  /\ First \in Stops /\ Second \in Stops /\ First \notin Requests /\ Second \notin Requests
  /\ None \notin Commands /\ None \notin Instances /\ None \notin Tasks /\ NoTask \notin Tasks
  /\ Tasks \cap Commands = {} /\ Requests \cap Stops = {}
BY RunnerIdsAssumption DEF Commands, Stops, Instances

\* There are finitely many instances.
LEMMA FinitelyMany == IsFiniteSet(Instances)
BY FiniteAssumption, RunnerIdsAssumption, FS_Subset, FS_Union DEF Instances

-----------------------------------------------------------------------------
(* Sequences: what is in them, and that nothing is in them twice *)

Entries(s)  == {s[k] : k \in 1..Len(s)}
Distinct(s) == \A j, k \in 1..Len(s) : s[j] = s[k] => j = k

\* What Append() does to the entries.
LEMMA AppendEntries ==
  ASSUME NEW S, NEW s \in Seq(S), NEW x \in S
  PROVE  /\ Append(s, x) \in Seq(S)
         /\ Entries(Append(s, x)) = Entries(s) \cup {x}
         /\ Distinct(s) /\ x \notin Entries(s) => Distinct(Append(s, x))
<1>1. /\ Append(s, x) \in Seq(S) /\ Len(Append(s, x)) = Len(s) + 1
      /\ \A k \in 1..Len(s) : Append(s, x)[k] = s[k]
      /\ Append(s, x)[Len(s) + 1] = x /\ Len(s) \in Nat
  OBVIOUS
<1>2. 1..(Len(s) + 1) = (1..Len(s)) \cup {Len(s) + 1}
  BY <1>1
<1>3. Entries(Append(s, x)) = Entries(s) \cup {x}
  BY <1>1, <1>2 DEF Entries
<1>4. ASSUME Distinct(s), x \notin Entries(s) PROVE Distinct(Append(s, x))
  BY <1>1, <1>2, <1>4 DEF Entries, Distinct
<1> QED
  BY <1>1, <1>3, <1>4

\* What Tail() does to them.
LEMMA TailEntries ==
  ASSUME NEW S, NEW s \in Seq(S), s # << >>
  PROVE  /\ Tail(s) \in Seq(S) /\ Head(s) \in S
         /\ Entries(s) = Entries(Tail(s)) \cup {Head(s)}
         /\ Distinct(s) => Distinct(Tail(s)) /\ Head(s) \notin Entries(Tail(s))
<1>1. /\ Tail(s) \in Seq(S) /\ Len(Tail(s)) = Len(s) - 1 /\ Len(s) \in Nat \ {0}
      /\ \A k \in 1..(Len(s) - 1) : Tail(s)[k] = s[k + 1]
      /\ Head(s) = s[1] /\ Head(s) \in S
  OBVIOUS
<1>2. ASSUME NEW k \in 1..Len(s) PROVE s[k] \in Entries(Tail(s)) \cup {Head(s)}
  <2>1. CASE k = 1
    BY <1>1, <2>1
  <2>2. CASE k # 1
    <3>1. k - 1 \in 1..Len(Tail(s)) /\ Tail(s)[k - 1] = s[k]
      BY <1>1, <2>2
    <3> QED
      BY <3>1 DEF Entries
  <2> QED
    BY <2>1, <2>2
<1>3. \A k \in 1..Len(Tail(s)) : Tail(s)[k] = s[k + 1] /\ k + 1 \in 1..Len(s) /\ k + 1 # 1
  BY <1>1
<1>4. Entries(s) = Entries(Tail(s)) \cup {Head(s)}
  BY <1>1, <1>2, <1>3 DEF Entries
<1>5. ASSUME Distinct(s) PROVE Distinct(Tail(s)) /\ Head(s) \notin Entries(Tail(s))
  BY <1>1, <1>3, <1>5 DEF Entries, Distinct
<1> QED
  BY <1>1, <1>4, <1>5

\* The entries of a sequence over a set are in the set; the empty one has none.
LEMMA EntriesOf ==
  /\ \A S : \A s \in Seq(S) : Entries(s) \subseteq S
  /\ Entries(<< >>) = {} /\ Distinct(<< >>)
BY DEF Entries, Distinct

-----------------------------------------------------------------------------
(* The inductive invariant *)

\* Commands an instance has not answered.
Pending(i) == (Entries(queue[i]) \cup {hand[i]}) \ {None}

IsStop(r) == cmd[r].type = "stop"

\* A client sends once, and gets nothing before the Runner takes its command.
ClientInv ==
  /\ \A s \in Stops : cmd[s] \in {NoCommand, StopAll}
  /\ sig \in {"none", "caught"} => client[First] = "new"
  /\ sig \in {"none", "caught", "first"} => client[Second] = "new"
  /\ \A r \in Commands : client[r] = "new" => got[r] = {}
  /\ \A r \in Entries(inbox) : client[r] = "waiting" /\ got[r] = {}
  /\ Distinct(inbox)

\* Where a broadcast is.
BroadcastInv ==
  /\ rpc = "idle" <=> cur = None
  /\ cur # None => client[cur] = "waiting" /\ cur \notin Entries(inbox)
  /\ rpc = "idle" => outChannels = {}
  /\ rpc = "send" => target \in toSend /\ got[cur] = {}
  /\ rpc # "send" => toSend = {}

\* An active task has an instance; an instance does nothing before it is started,
\* and its start request is answered by then.
InstanceInv ==
  /\ \A t \in Tasks : active[t] => taskCommands[t] # None
  /\ \A i \in Instances :
       /\ phase[i] \in {"stopping", "replying"} => hand[i] # None
       /\ phase[i] = "none" =>
            /\ queue[i] = << >> /\ hand[i] = None /\ ~alive[i]
            /\ i \notin outChannels
            /\ \A t \in Tasks : taskCommands[t] # i
       /\ phase[i] # "none" /\ i \in Requests => client[i] = "done"

\* A command is with an instance while it is broadcast, and after it timed out.
PendingInv ==
  \A i \in Instances : \A r \in Pending(i) : client[r] = "done" \/ r = cur

\* Commands that name a task go to an instance of that task.
OwnerInv ==
  /\ \A t \in Tasks : taskCommands[t] # None => Owner(taskCommands[t]) = t
  /\ \A i \in Instances : \A r \in Pending(i) :
       cmd[r].task # NoTask => Owner(i) = cmd[r].task
  /\ \A i \in outChannels : cmd[cur].task # NoTask => Owner(i) = cmd[cur].task

\* The instances that answered were started.
FromInv ==
  \A r \in Commands : \A a \in got[r] :
    a.text = "ok" => a.from \in Instances /\ phase[a.from] # "none"

\* An instance that was sent a stop is out of the Runner's reach.
Stopped(i) == phase[i] = "ended" \/ \E r \in Pending(i) : IsStop(r)

StopInv ==
  /\ \A i \in Instances : Stopped(i) =>
       /\ i \notin toSend
       /\ \A t \in Tasks : active[t] => taskCommands[t] # i
  /\ cur # None /\ IsStop(cur) =>
       \A i \in outChannels, t \in Tasks : active[t] => taskCommands[t] # i

\* An instance has a command once, and the one being broadcast only until it has
\* answered.
OnceInv ==
  \A i \in Instances :
    /\ Distinct(queue[i]) /\ hand[i] \notin Entries(queue[i])
    /\ cur \in Pending(i) => i \in outChannels \ (toSend \cup HasAnswered)

\* cnt is the number of answers that are missing.
CountInv ==
  rpc = "collect" =>
    /\ cnt = Cardinality(outChannels \ HasAnswered)
    /\ HasAnswered \subseteq outChannels
    /\ cnt > 0

\* What was started belongs to a task.
StartedInv == \A i \in Instances : phase[i] # "none" => Owner(i) \in Tasks

\* An instance that is about to answer a stop has no processes.
DeadInv ==
  \A i \in Instances : phase[i] = "replying" /\ IsStop(hand[i]) => ~alive[i]

Inv ==
  /\ TypeOK /\ ClientInv /\ BroadcastInv /\ InstanceInv /\ PendingInv /\ OwnerInv
  /\ StopInv /\ NothingAfterStop /\ OnceInv /\ CountInv /\ FromInv /\ AnswersToTheirOwn
  /\ StartedInv /\ DeadInv /\ Supervised

-----------------------------------------------------------------------------
(* The steps *)

\* Answers of the Runner itself.
OwnAnswers(r) == {a \in Answers : a.of = r /\ a.text # "ok"}

Answered(r) ==
  /\ \E A \in SUBSET OwnAnswers(r) : Answer(r, A)
  /\ UNCHANGED <<registryVars, instanceVars>>

\* The commands the Runner answers without touching a task.
LEMMA AnsweredCases ==
  ASSUME NEW r \in Commands,
         Reject(r) \/ List(r) \/ AlreadyRunning(r) \/ NoActiveTasks(r)
  PROVE  Answered(r)
<1>1. \A x \in {"failed", "already running", "no active tasks"} :
        {Says(x, r)} \in SUBSET OwnAnswers(r)
  <2> SUFFICES ASSUME NEW x \in {"failed", "already running", "no active tasks"}
               PROVE  Says(x, r) \in OwnAnswers(r)
    OBVIOUS
  <2>1. Says(x, r) \in Answers
    BY DEF Says, Answers
  <2> QED
    BY <2>1 DEF Says, OwnAnswers
<1>2. {Named(t, r) : t \in Tasks} \in SUBSET OwnAnswers(r)
  <2> SUFFICES ASSUME NEW t \in Tasks PROVE Named(t, r) \in OwnAnswers(r)
    OBVIOUS
  <2>1. Named(t, r) \in Answers
    BY DEF Named, Answers
  <2> QED
    BY <2>1 DEF Named, OwnAnswers
<1>3. CASE Reject(r)
  BY <1>1, <1>3 DEF Reject, Answered
<1>4. CASE List(r)
  BY <1>2, <1>4 DEF List, Answered
<1>5. CASE AlreadyRunning(r)
  BY <1>1, <1>5 DEF AlreadyRunning, Answered
<1>6. CASE NoActiveTasks(r)
  BY <1>1, <1>6 DEF NoActiveTasks, Answered
<1> QED
  BY <1>3, <1>4, <1>5, <1>6

\* Only a request starts a task.
LEMMA Starters ==
  ASSUME TypeOK, ClientInv, NEW r \in Commands, Start(r)
  PROVE  r \in Requests /\ r \in Instances /\ cmd[r].task \in Tasks
<1>1. cmd[r].type = "start"
  BY DEF Start
<1>2. r \notin Stops
  BY <1>1 DEF ClientInv, NoCommand, StopAll
<1> QED
  BY <1>1, <1>2, Ids DEF Start, Valid

\* A broadcast goes to the instances of active tasks.
LEMMA Recipient ==
  ASSUME TypeOK, InstanceInv, NEW r \in Commands, Relay(r)
  PROVE  /\ outChannels' \subseteq Instances
         /\ \A i \in outChannels' : \E t \in Tasks :
              /\ active[t] /\ i = taskCommands[t] /\ cmd[r].task \in {t, NoTask}
         /\ cmd[r].task = NoTask =>
              \A t \in Tasks : active[t] => taskCommands[t] \in outChannels'
         /\ cmd[r].task # NoTask =>
              cmd[r].task \in Tasks /\ outChannels' = {taskCommands[cmd[r].task]}
<1>1. outChannels' = Recipients(cmd[r]) /\ Valid(cmd[r])
      /\ cmd[r].type \in {"listworkers", "set", "status", "stop"}
  BY DEF Relay
<1>2. cmd[r].task # NoTask => cmd[r].task \in Tasks /\ active[cmd[r].task]
  BY <1>1 DEF Valid
<1>3. CASE cmd[r].task = NoTask
  BY <1>1, <1>3 DEF Recipients, ActiveTasks, TypeOK, InstanceInv
<1>4. CASE cmd[r].task # NoTask
  BY <1>1, <1>2, <1>4 DEF Recipients, TypeOK, InstanceInv
<1> QED
  BY <1>3, <1>4

\* A request with no route.
NotFound(r) ==
  /\ client' = [client EXCEPT ![r] = "done"]
  /\ got' = [got EXCEPT ![r] = {Says("not found", r)}]
  /\ UNCHANGED <<inbox, cmd>>

LEMMA TypeCases ==
  ASSUME NEW r \in Requests, Type(r), DOMAIN line = Requests
  PROVE  /\ client[r] = "new"
         /\ UNCHANGED <<sig, broadcastVars, registryVars, instanceVars, gaveUp>>
         /\ DOMAIN line' = Requests
         /\ (\E c : Send(r, c)) \/ NotFound(r)
<1>1. PICK l \in Lines :
         /\ line' = [line EXCEPT ![r] = l]
         /\ Send(r, CommandOf(HttpRequest(l))) \/ NotFound(r)
  BY Zenon DEF Type, NotFound
<1> QED
  BY <1>1, Zenon DEF Type

\* A client that types changes nothing of the others.
LEMMA TypeOthers ==
  ASSUME TypeOK, NEW r \in Requests, Type(r)
  PROVE  \A x \in Commands \ {r} :
           client'[x] = client[x] /\ got'[x] = got[x] /\ cmd'[x] = cmd[x]
<1>1. (\E c : Send(r, c)) \/ NotFound(r)
  BY TypeCases DEF TypeOK
<1>2. CASE \E c : Send(r, c)
  BY <1>2 DEF Send, TypeOK
<1>3. CASE NotFound(r)
  BY <1>3 DEF NotFound, TypeOK
<1> QED
  BY <1>1, <1>2, <1>3

\* An answer that is not the last one, and the last one.
ReplyMore(i) ==
  /\ phase[i] = "replying" /\ rpc = "collect" /\ hand[i] = cur
  /\ cnt > 1 /\ cnt' = cnt - 1
  /\ got' = [got EXCEPT ![cur] = @ \cup {AnswerOf(i)}]
  /\ Replied(i)
  /\ UNCHANGED <<line, cmd, client, sig, inbox, rpc, cur, outChannels, toSend,
                 target, registryVars>>

ReplyLast(i) ==
  /\ phase[i] = "replying" /\ rpc = "collect" /\ hand[i] = cur
  /\ ~(cnt > 1)
  /\ Finish({AnswerOf(i)})
  /\ Replied(i)

LEMMA ReplyCases ==
  ASSUME NEW i \in Instances, Reply(i)
  PROVE  ReplyMore(i) \/ ReplyLast(i)
BY Zenon DEF Reply, Collect, ReplyMore, ReplyLast

\* A step of the signal handler alone.
SignalOnly == Interrupt \/ Exit

\* The disjuncts of Next.
LEMMA NextCases ==
  ASSUME [Next]_vars
  PROVE  \/ UNCHANGED vars
         \/ \E r \in Requests : Type(r)
         \/ FirstStop \/ SecondStop \/ SignalOnly
         \/ \E r \in Commands : Answered(r) \/ Start(r) \/ Relay(r)
         \/ SendOne \/ Timeout
         \/ \E i \in Instances :
              \/ Started(i) \/ TakeCommand(i) \/ WorkersStopped(i)
              \/ ReplyMore(i) \/ ReplyLast(i) \/ ReplyTooLate(i) \/ Hang(i)
BY AnsweredCases, ReplyCases, Zenon
   DEF Next, SignalStep, SignalOnly, RunnerStep, ProcessCommand, InstanceStep

-----------------------------------------------------------------------------
(* What the steps do to the channels *)

LEMMA SendEffect ==
  ASSUME TypeOK, NEW r \in Commands, NEW c, Send(r, c)
  PROVE  /\ Entries(inbox') = Entries(inbox) \cup {r}
         /\ Distinct(inbox) /\ r \notin Entries(inbox) => Distinct(inbox')
BY AppendEntries DEF TypeOK, Send

LEMMA ReceiveEffect ==
  ASSUME TypeOK, NEW r \in Commands, Receive(r)
  PROVE  /\ r \in Entries(inbox) /\ Entries(inbox) = Entries(inbox') \cup {r}
         /\ Distinct(inbox) => Distinct(inbox') /\ r \notin Entries(inbox')
BY TailEntries DEF TypeOK, Receive

LEMMA SendOneEffect ==
  ASSUME TypeOK, BroadcastInv, SendOne
  PROVE  /\ cur \in Commands /\ target \in Instances /\ target \in toSend
         /\ Entries(queue'[target]) = Entries(queue[target]) \cup {cur}
         /\ Distinct(queue[target]) /\ cur \notin Entries(queue[target])
              => Distinct(queue'[target])
         /\ \A i \in Instances \ {target} : queue'[i] = queue[i]
<1>1. /\ cur \in Commands /\ target \in Instances /\ target \in toSend
      /\ queue[target] \in Seq(Commands)
      /\ queue'[target] = Append(queue[target], cur)
      /\ \A i \in Instances \ {target} : queue'[i] = queue[i]
  BY DEF TypeOK, BroadcastInv, SendOne
<1> QED
  BY <1>1, AppendEntries

LEMMA TakeEffect ==
  ASSUME TypeOK, NEW i \in Instances, TakeCommand(i)
  PROVE  /\ hand'[i] \in Entries(queue[i]) /\ hand'[i] = Head(queue[i])
         /\ hand'[i] \in Commands
         /\ Entries(queue[i]) = Entries(queue'[i]) \cup {hand'[i]}
         /\ Distinct(queue[i]) => Distinct(queue'[i]) /\ hand'[i] \notin Entries(queue'[i])
         /\ \A j \in Instances \ {i} : queue'[j] = queue[j] /\ hand'[j] = hand[j]
<1>1. /\ queue[i] \in Seq(Commands) /\ queue[i] # << >>
      /\ queue'[i] = Tail(queue[i]) /\ hand'[i] = Head(queue[i])
      /\ \A j \in Instances \ {i} : queue'[j] = queue[j] /\ hand'[j] = hand[j]
  BY DEF TypeOK, TakeCommand
<1> QED
  BY <1>1, TailEntries

LEMMA PendingCommands ==
  ASSUME TypeOK, NEW i \in Instances
  PROVE  Entries(queue[i]) \subseteq Commands /\ Pending(i) \subseteq Commands
BY EntriesOf, Ids DEF TypeOK, Pending

\* SendOne() adds to what one instance has pending, TakeCommand() moves, and an
\* answer removes.
LEMMA PendingSent ==
  ASSUME TypeOK, BroadcastInv, SendOne
  PROVE  \A i \in Instances :
           Pending(i)' = IF i = target THEN Pending(i) \cup {cur} ELSE Pending(i)
<1>1. hand' = hand /\ cur # None
  BY SendOneEffect, Ids DEF SendOne
<1>2. ASSUME NEW i \in Instances, i = target PROVE Pending(i)' = Pending(i) \cup {cur}
  BY <1>1, <1>2, SendOneEffect DEF Pending
<1>3. ASSUME NEW i \in Instances, i # target PROVE Pending(i)' = Pending(i)
  BY <1>1, <1>3, SendOneEffect DEF Pending
<1> QED
  BY <1>2, <1>3

LEMMA PendingTaken ==
  ASSUME TypeOK, NEW i \in Instances, TakeCommand(i)
  PROVE  \A j \in Instances : Pending(j)' \subseteq Pending(j)
<1>1. Pending(i)' \subseteq Pending(i)
  BY TakeEffect DEF Pending
<1>2. ASSUME NEW j \in Instances \ {i} PROVE Pending(j)' = Pending(j)
  BY <1>2, TakeEffect DEF Pending
<1> QED
  BY <1>1, <1>2

LEMMA PendingReplied ==
  ASSUME TypeOK, NEW i \in Instances, Replied(i)
  PROVE  /\ Pending(i)' = Entries(queue[i]) \ {None}
         /\ \A j \in Instances \ {i} : Pending(j)' = Pending(j)
         /\ \A j \in Instances : Pending(j)' \subseteq Pending(j)
<1>1. queue' = queue /\ hand'[i] = None /\ \A j \in Instances \ {i} : hand'[j] = hand[j]
  BY DEF Replied, TypeOK
<1>2. Pending(i)' = Entries(queue[i]) \ {None}
  BY <1>1 DEF Pending
<1>3. ASSUME NEW j \in Instances \ {i} PROVE Pending(j)' = Pending(j)
  BY <1>1, <1>3 DEF Pending
<1>4. Pending(i)' \subseteq Pending(i)
  BY <1>2 DEF Pending
<1> QED
  BY <1>2, <1>3, <1>4

\* A client does not become new again, an instance is not started again, and the
\* command of a client that sent it stays.
LEMMA Stable ==
  ASSUME TypeOK, ClientInv, BroadcastInv, InstanceInv, [Next]_vars
  PROVE  /\ \A r \in Commands : client[r] # "new" => cmd'[r] = cmd[r]
         /\ \A i \in Instances : phase[i] # "none" => phase'[i] # "none" /\ Owner(i)' = Owner(i)
<1> USE Ids DEF TypeOK
<1>1. \A r \in Commands : client[r] # "new" => cmd'[r] = cmd[r]
  <2>1. CASE UNCHANGED cmd
    BY <2>1
  <2>2. ASSUME NEW r \in Requests, Type(r)
        PROVE  \A x \in Commands : client[x] # "new" => cmd'[x] = cmd[x]
    BY <2>2, TypeOthers, TypeCases
  <2>3. CASE FirstStop
    BY <2>3 DEF FirstStop, Send, ClientInv
  <2>4. CASE SecondStop
    BY <2>4 DEF SecondStop, Send, ClientInv
  <2>5. ASSUME NEW r \in Commands, Answered(r) \/ Start(r) \/ Relay(r) PROVE UNCHANGED cmd
    BY <2>5 DEF Answered, Answer, Start, Relay, clientVars
  <2>6. ASSUME NEW i \in Instances,
               \/ Started(i) \/ TakeCommand(i) \/ WorkersStopped(i)
               \/ ReplyMore(i) \/ ReplyLast(i) \/ ReplyTooLate(i) \/ Hang(i)
        PROVE  UNCHANGED cmd
    BY <2>6 DEF Started, TakeCommand, WorkersStopped, ReplyMore, ReplyLast, Finish,
                ReplyTooLate, Hang, clientVars
  <2>7. UNCHANGED vars \/ SignalOnly \/ SendOne \/ Timeout => UNCHANGED cmd
    BY DEF vars, SignalOnly, Interrupt, Exit, SendOne, Timeout, Finish, clientVars
  <2> QED
    BY <2>1, <2>2, <2>3, <2>4, <2>5, <2>6, <2>7, NextCases, Zenon
<1>2. \A i \in Instances : phase[i] # "none" => phase'[i] # "none"
  <2>1. CASE UNCHANGED phase
    BY <2>1
  <2>2. ASSUME NEW r \in Requests, Type(r) PROVE UNCHANGED phase
    BY <2>2 DEF Type, instanceVars
  <2>3. ASSUME NEW r \in Commands, Answered(r) \/ Relay(r) PROVE UNCHANGED phase
    BY <2>3 DEF Answered, Relay, instanceVars
  <2>4. ASSUME NEW r \in Commands, Start(r)
        PROVE  \A i \in Instances : phase[i] # "none" => phase'[i] # "none"
    BY <2>4 DEF Start
  <2>5. ASSUME NEW i \in Instances,
               \/ Started(i) \/ TakeCommand(i) \/ WorkersStopped(i)
               \/ Replied(i) \/ Hang(i)
        PROVE  \A j \in Instances : phase[j] # "none" => phase'[j] # "none"
    BY <2>5 DEF Started, TakeCommand, WorkersStopped, Replied, Hang
  <2>6. \A i \in Instances : ReplyMore(i) \/ ReplyLast(i) \/ ReplyTooLate(i) => Replied(i)
    BY DEF ReplyMore, ReplyLast, ReplyTooLate
  <2>7. \/ UNCHANGED vars \/ FirstStop \/ SecondStop \/ SignalOnly \/ SendOne \/ Timeout
        => UNCHANGED phase
    BY DEF vars, FirstStop, SecondStop, SignalOnly, Interrupt, Exit, SendOne, Timeout, instanceVars
  <2> QED
    BY <2>1, <2>2, <2>3, <2>4, <2>5, <2>6, <2>7, NextCases, Zenon
<1>3. ASSUME NEW i \in Instances, phase[i] # "none" PROVE Owner(i)' = Owner(i)
  <2>1. CASE i \in Tasks
    BY <2>1 DEF Owner
  <2>2. CASE i \notin Tasks
    <3>1. i \in Requests /\ client[i] = "done"
      BY <1>3, <2>2 DEF InstanceInv
    <3> QED
      BY <1>1, <2>2, <3>1 DEF Owner
  <2> QED
    BY <2>1, <2>2
<1> QED
  BY <1>1, <1>2, <1>3

\* Every step keeps the types; what is sent as an answer is one.
LEMMA TypeStep == Inv /\ [Next]_vars => TypeOK'
<1> SUFFICES ASSUME Inv, [Next]_vars PROVE TypeOK'
  OBVIOUS
<1>0. TypeOK /\ BroadcastInv /\ InstanceInv /\ ClientInv
  BY DEF Inv
<1> USE <1>0, Ids DEF TypeOK, Phases
<1>1. CASE UNCHANGED vars
  BY <1>1 DEF vars, clientVars, broadcastVars, registryVars, instanceVars
<1>2. ASSUME NEW r \in Requests, Type(r) PROVE TypeOK'
  <2>1. /\ UNCHANGED <<sig, broadcastVars, registryVars, instanceVars, gaveUp>>
        /\ DOMAIN line' = Requests
    BY <1>2, TypeCases
  <2>2. Says("not found", r) \in Answers
    BY DEF Says, Answers
  <2>3. CASE \E c : Send(r, c)
    <3>1. PICK c : Send(r, c)
      BY <2>3
    <3> QED
      BY <2>1, <3>1 DEF Send, clientVars, broadcastVars, registryVars, instanceVars
  <2>4. CASE NotFound(r)
    <3>1. got' \in [Commands -> SUBSET Answers]
      <4>1. {Says("not found", r)} \in SUBSET Answers
        BY <2>2, Zenon
      <4>2. got' = [got EXCEPT ![r] = {Says("not found", r)}]
        BY <2>4 DEF NotFound
      <4>3. r \in Commands /\ got \in [Commands -> SUBSET Answers]
        OBVIOUS
      <4> HIDE <1>0, Ids DEF TypeOK, Says, Answers
      <4> QED
        BY <4>1, <4>2, <4>3
    <3>2. client' \in [Commands -> {"new", "waiting", "done"}]
      BY <2>4 DEF NotFound
    <3> QED
      BY <2>1, <2>4, <3>1, <3>2 DEF NotFound, clientVars, broadcastVars, registryVars, instanceVars
  <2> QED
    BY <1>2, <2>3, <2>4, TypeCases
<1>3. ASSUME FirstStop PROVE TypeOK'
  BY <1>3 DEF FirstStop, Send, clientVars, broadcastVars, registryVars, instanceVars
<1>4. ASSUME SecondStop PROVE TypeOK'
  BY <1>4 DEF SecondStop, Send, clientVars, broadcastVars, registryVars, instanceVars
<1>5. ASSUME SignalOnly PROVE TypeOK'
  BY <1>5 DEF SignalOnly, Interrupt, Exit, clientVars, broadcastVars, registryVars, instanceVars
<1>6. ASSUME NEW r \in Commands, Answered(r) PROVE TypeOK'
  BY <1>6 DEF Answered, OwnAnswers, Answer, Receive, Close, clientVars, broadcastVars, registryVars, instanceVars
<1>7. ASSUME NEW r \in Commands, Start(r) PROVE TypeOK'
  <2>1. r \in Requests /\ r \in Instances /\ cmd[r].task \in Tasks
    BY <1>7, Starters
  <2>2. got' \in [Commands -> SUBSET Answers]
    <3>1. Says("started", r) \in Answers
      BY DEF Says, Answers
    <3> QED
      BY <1>7, <3>1 DEF Start, Answer, Close
  <2> QED
    BY <1>7, <2>1, <2>2 DEF Start, Answer, Receive, Close, clientVars, broadcastVars, registryVars, instanceVars
<1>8. ASSUME NEW r \in Commands, Relay(r) PROVE TypeOK'
  <2>1. outChannels' \subseteq Instances
    BY <1>8, Recipient
  <2>2. active' \in [Tasks -> BOOLEAN]
    BY <1>8 DEF Relay, MarkInactive
  <2> QED
    BY <1>8, <2>1, <2>2 DEF Relay, Receive, clientVars, broadcastVars, registryVars, instanceVars
<1>9. ASSUME SendOne PROVE TypeOK'
  <2>1. Cardinality(outChannels) \in Nat
    BY FinitelyMany, FS_Subset, FS_CardinalityType
  <2>2. target \in Instances /\ cur \in Commands
    BY <1>9 DEF SendOne, BroadcastInv
  <2> QED
    BY <1>9, <2>1, <2>2 DEF SendOne, clientVars, broadcastVars, registryVars, instanceVars
<1>10. ASSUME Timeout PROVE TypeOK'
  <2>1. Says("timeout", cur) \in Answers /\ cur \in Commands /\ toSend = {} /\ toSend = {}
    BY <1>10 DEF BroadcastInv, Timeout, Says, Answers
  <2> QED
    BY <1>10, <2>1 DEF Timeout, Finish, Close, clientVars, broadcastVars, registryVars, instanceVars
<1>11. ASSUME NEW i \in Instances, Started(i) PROVE TypeOK'
  BY <1>11 DEF Started, clientVars, broadcastVars, registryVars, instanceVars
<1>12. ASSUME NEW i \in Instances, TakeCommand(i) PROVE TypeOK'
  BY <1>12 DEF TakeCommand, clientVars, broadcastVars, registryVars, instanceVars
<1>13. ASSUME NEW i \in Instances, WorkersStopped(i) PROVE TypeOK'
  BY <1>13 DEF WorkersStopped, clientVars, broadcastVars, registryVars, instanceVars
<1>14. ASSUME NEW i \in Instances, ReplyMore(i) PROVE TypeOK'
  <2>1. AnswerOf(i) \in Answers /\ cur \in Commands /\ toSend = {}
    BY <1>14 DEF BroadcastInv, ReplyMore, AnswerOf, Answers
  <2> QED
    BY <1>14, <2>1 DEF ReplyMore, Replied, clientVars, broadcastVars, registryVars, instanceVars
<1>15. ASSUME NEW i \in Instances, ReplyLast(i) PROVE TypeOK'
  <2>1. AnswerOf(i) \in Answers /\ cur \in Commands /\ toSend = {}
    BY <1>15 DEF BroadcastInv, ReplyLast, AnswerOf, Answers
  <2> QED
    BY <1>15, <2>1 DEF ReplyLast, Replied, Finish, Close, clientVars, broadcastVars, registryVars, instanceVars
<1>16. ASSUME NEW i \in Instances, ReplyTooLate(i) PROVE TypeOK'
  BY <1>16 DEF ReplyTooLate, Replied, clientVars, broadcastVars, registryVars, instanceVars
<1>17. ASSUME NEW i \in Instances, Hang(i) PROVE TypeOK'
  BY <1>17 DEF Hang, clientVars, broadcastVars, registryVars, instanceVars
<1> QED
  BY <1>1, <1>2, <1>3, <1>4, <1>5, <1>6, <1>7, <1>8, <1>9, <1>10, <1>11, <1>12, <1>13, <1>14, <1>15, <1>16, <1>17, NextCases

\* Every step keeps the clients in order: a client is in the inbox only between
\* its Send() and the Runner's receive, and has been given nothing before that.
LEMMA ClientStep == Inv /\ [Next]_vars => ClientInv'
<1> SUFFICES ASSUME Inv, [Next]_vars PROVE ClientInv'
  OBVIOUS
<1>0. TypeOK /\ ClientInv /\ BroadcastInv
  BY DEF Inv
<1> USE <1>0, Ids DEF TypeOK, ClientInv, BroadcastInv
<1>a. Entries(inbox) \subseteq Commands
  BY EntriesOf
<1> USE <1>a
<1>1. CASE UNCHANGED vars
  BY <1>1 DEF vars, clientVars, broadcastVars, registryVars, instanceVars
<1>2. ASSUME NEW r \in Requests, Type(r) PROVE ClientInv'
  <2>1. /\ UNCHANGED <<sig, broadcastVars, registryVars, instanceVars, gaveUp>>
        /\ client[r] = "new" /\ r \notin Entries(inbox)
    BY <1>2, TypeCases
  <2>2. CASE \E c : Send(r, c)
    <3>1. PICK c : Send(r, c)
      BY <2>2
    <3>2. Entries(inbox') = Entries(inbox) \cup {r} /\ Distinct(inbox')
      BY <2>1, <3>1, SendEffect
    <3>3. /\ cmd' = [cmd EXCEPT ![r] = c] /\ client' = [client EXCEPT ![r] = "waiting"]
          /\ got' = got /\ sig' = sig
      BY <2>1, <3>1 DEF Send
    <3> QED
      BY <2>1, <3>2, <3>3
  <2>3. CASE NotFound(r)
    BY <2>1, <2>3 DEF NotFound, clientVars, broadcastVars, registryVars, instanceVars
  <2> QED
    BY <1>2, <2>2, <2>3, TypeCases
<1>3. ASSUME FirstStop PROVE ClientInv'
  <2>1. Send(First, StopAll) /\ sig = "caught" /\ First \notin Entries(inbox)
    BY <1>3 DEF FirstStop
  <2>2. Entries(inbox') = Entries(inbox) \cup {First} /\ Distinct(inbox')
    BY <2>1, SendEffect
  <2>3. /\ cmd' = [cmd EXCEPT ![First] = StopAll]
        /\ client' = [client EXCEPT ![First] = "waiting"] /\ got' = got
        /\ sig' = "first"
    BY <1>3, <2>1 DEF Send, FirstStop
  <2> QED
    BY <2>1, <2>2, <2>3
<1>4. ASSUME SecondStop PROVE ClientInv'
  <2>1. Send(Second, StopAll) /\ sig = "first" /\ Second \notin Entries(inbox)
    BY <1>4 DEF SecondStop
  <2>2. Entries(inbox') = Entries(inbox) \cup {Second} /\ Distinct(inbox')
    BY <2>1, SendEffect
  <2>3. /\ cmd' = [cmd EXCEPT ![Second] = StopAll]
        /\ client' = [client EXCEPT ![Second] = "waiting"] /\ got' = got
        /\ sig' = "second"
    BY <1>4, <2>1 DEF Send, SecondStop
  <2> QED
    BY <2>1, <2>2, <2>3
<1>5. ASSUME SignalOnly PROVE ClientInv'
  BY <1>5 DEF SignalOnly, Interrupt, Exit, clientVars, broadcastVars, registryVars, instanceVars
<1>6. ASSUME NEW r \in Commands, Answered(r) PROVE ClientInv'
  <2>1. Receive(r)
    BY <1>6 DEF Answered, Answer
  <2> QED
    BY <1>6, <2>1, ReceiveEffect DEF Answered, Answer, Close, clientVars, broadcastVars, registryVars, instanceVars
<1>7. ASSUME NEW r \in Commands, Start(r) PROVE ClientInv'
  <2>1. Receive(r)
    BY <1>7 DEF Start, Answer
  <2> QED
    BY <1>7, <2>1, ReceiveEffect DEF Start, Answer, Close, clientVars, broadcastVars, registryVars, instanceVars
<1>8. ASSUME NEW r \in Commands, Relay(r) PROVE ClientInv'
  <2>1. Receive(r)
    BY <1>8 DEF Relay
  <2> QED
    BY <1>8, <2>1, ReceiveEffect DEF Relay, clientVars, broadcastVars, registryVars, instanceVars
<1>9. ASSUME SendOne PROVE ClientInv'
  BY <1>9 DEF SendOne, clientVars, broadcastVars, registryVars, instanceVars
<1>10. ASSUME Timeout PROVE ClientInv'
  BY <1>10 DEF Timeout, Finish, Close, clientVars, broadcastVars, registryVars, instanceVars
<1>11. ASSUME NEW i \in Instances, Started(i) PROVE ClientInv'
  BY <1>11 DEF Started, clientVars, broadcastVars, registryVars, instanceVars
<1>12. ASSUME NEW i \in Instances, TakeCommand(i) PROVE ClientInv'
  BY <1>12 DEF TakeCommand, clientVars, broadcastVars, registryVars, instanceVars
<1>13. ASSUME NEW i \in Instances, WorkersStopped(i) PROVE ClientInv'
  BY <1>13 DEF WorkersStopped, clientVars, broadcastVars, registryVars, instanceVars
<1>14. ASSUME NEW i \in Instances, ReplyMore(i) PROVE ClientInv'
  BY <1>14 DEF ReplyMore, Replied, clientVars, broadcastVars, registryVars, instanceVars
<1>15. ASSUME NEW i \in Instances, ReplyLast(i) PROVE ClientInv'
  BY <1>15 DEF ReplyLast, Replied, Finish, Close, clientVars, broadcastVars, registryVars, instanceVars
<1>16. ASSUME NEW i \in Instances, ReplyTooLate(i) PROVE ClientInv'
  BY <1>16 DEF ReplyTooLate, Replied, clientVars, broadcastVars, registryVars, instanceVars
<1>17. ASSUME NEW i \in Instances, Hang(i) PROVE ClientInv'
  BY <1>17 DEF Hang, clientVars, broadcastVars, registryVars, instanceVars
<1> QED
  BY <1>1, <1>2, <1>3, <1>4, <1>5, <1>6, <1>7, <1>8, <1>9, <1>10, <1>11, <1>12, <1>13, <1>14, <1>15, <1>16, <1>17, NextCases

\* Every step keeps the Runner's place in Broadcast() consistent with its client.
LEMMA BroadcastStep == Inv /\ [Next]_vars => BroadcastInv'
<1> SUFFICES ASSUME Inv, [Next]_vars PROVE BroadcastInv'
  OBVIOUS
<1>0. TypeOK /\ ClientInv /\ BroadcastInv
  BY DEF Inv
<1> USE <1>0, Ids DEF TypeOK, BroadcastInv
<1>a. Entries(inbox) \subseteq Commands
  BY EntriesOf DEF TypeOK
<1> USE <1>a
<1>1. CASE UNCHANGED vars
  BY <1>1 DEF vars, clientVars, broadcastVars, registryVars, instanceVars
<1>2. ASSUME NEW r \in Requests, Type(r) PROVE BroadcastInv'
  <2>1. /\ UNCHANGED <<sig, broadcastVars, registryVars, instanceVars, gaveUp>>
        /\ client[r] = "new" /\ r # cur
    BY <1>2, TypeCases
  <2>2. CASE \E c : Send(r, c)
    <3>1. PICK c : Send(r, c)
      BY <2>2
    <3>2. Entries(inbox') = Entries(inbox) \cup {r}
      BY <3>1, SendEffect
    <3>3. client' = [client EXCEPT ![r] = "waiting"] /\ got' = got
      BY <3>1 DEF Send
    <3> QED
      BY <2>1, <3>2, <3>3 DEF broadcastVars
  <2>3. CASE NotFound(r)
    BY <2>1, <2>3 DEF NotFound, clientVars, broadcastVars, registryVars, instanceVars
  <2> QED
    BY <1>2, <2>2, <2>3, TypeCases
<1>3. ASSUME FirstStop PROVE BroadcastInv'
  <2>1. Send(First, StopAll) /\ First # cur /\ UNCHANGED broadcastVars
    BY <1>3 DEF FirstStop, ClientInv
  <2>2. Entries(inbox') = Entries(inbox) \cup {First}
    BY <2>1, SendEffect
  <2>3. client' = [client EXCEPT ![First] = "waiting"] /\ got' = got
    BY <2>1 DEF Send
  <2> QED
    BY <2>1, <2>2, <2>3 DEF broadcastVars
<1>4. ASSUME SecondStop PROVE BroadcastInv'
  <2>1. Send(Second, StopAll) /\ Second # cur /\ UNCHANGED broadcastVars
    BY <1>4 DEF SecondStop, ClientInv
  <2>2. Entries(inbox') = Entries(inbox) \cup {Second}
    BY <2>1, SendEffect
  <2>3. client' = [client EXCEPT ![Second] = "waiting"] /\ got' = got
    BY <2>1 DEF Send
  <2> QED
    BY <2>1, <2>2, <2>3 DEF broadcastVars
<1>5. ASSUME SignalOnly PROVE BroadcastInv'
  BY <1>5 DEF SignalOnly, Interrupt, Exit, clientVars, broadcastVars, registryVars, instanceVars
<1>6. ASSUME NEW r \in Commands, Answered(r) PROVE BroadcastInv'
  <2>1. Receive(r) /\ rpc = "idle" /\ UNCHANGED broadcastVars
    BY <1>6 DEF Answered, Answer, Receive
  <2> QED
    BY <2>1 DEF broadcastVars
<1>7. ASSUME NEW r \in Commands, Start(r) PROVE BroadcastInv'
  <2>1. Receive(r) /\ rpc = "idle" /\ UNCHANGED broadcastVars
    BY <1>7 DEF Start, Answer, Receive
  <2> QED
    BY <2>1 DEF broadcastVars
<1>8. ASSUME NEW r \in Commands, Relay(r) PROVE BroadcastInv'
  <2>1. r \in Entries(inbox) /\ r \notin Entries(inbox')
    BY <1>8, ReceiveEffect DEF Relay, ClientInv
  <2>2. client[r] = "waiting" /\ got[r] = {}
    BY <2>1 DEF ClientInv
  <2> QED
    BY <1>8, <2>1, <2>2 DEF Relay, clientVars, broadcastVars, registryVars, instanceVars
<1>9. ASSUME SendOne PROVE BroadcastInv'
  BY <1>9 DEF SendOne, clientVars, broadcastVars, registryVars, instanceVars
<1>10. ASSUME Timeout PROVE BroadcastInv'
  BY <1>10 DEF Timeout, Finish, Close, clientVars, broadcastVars, registryVars, instanceVars
<1>11. ASSUME NEW i \in Instances, Started(i) PROVE BroadcastInv'
  BY <1>11 DEF Started, clientVars, broadcastVars, registryVars, instanceVars
<1>12. ASSUME NEW i \in Instances, TakeCommand(i) PROVE BroadcastInv'
  BY <1>12 DEF TakeCommand, clientVars, broadcastVars, registryVars, instanceVars
<1>13. ASSUME NEW i \in Instances, WorkersStopped(i) PROVE BroadcastInv'
  BY <1>13 DEF WorkersStopped, clientVars, broadcastVars, registryVars, instanceVars
<1>14. ASSUME NEW i \in Instances, ReplyMore(i) PROVE BroadcastInv'
  BY <1>14 DEF ReplyMore, Replied, clientVars, broadcastVars, registryVars, instanceVars
<1>15. ASSUME NEW i \in Instances, ReplyLast(i) PROVE BroadcastInv'
  BY <1>15 DEF ReplyLast, Replied, Finish, Close, clientVars, broadcastVars, registryVars, instanceVars
<1>16. ASSUME NEW i \in Instances, ReplyTooLate(i) PROVE BroadcastInv'
  BY <1>16 DEF ReplyTooLate, Replied, clientVars, broadcastVars, registryVars, instanceVars
<1>17. ASSUME NEW i \in Instances, Hang(i) PROVE BroadcastInv'
  BY <1>17 DEF Hang, clientVars, broadcastVars, registryVars, instanceVars
<1> QED
  BY <1>1, <1>2, <1>3, <1>4, <1>5, <1>6, <1>7, <1>8, <1>9, <1>10, <1>11, <1>12, <1>13, <1>14, <1>15, <1>16, <1>17, NextCases

\* Every step leaves an instance that was not started untouched, and gives an
\* active task an instance.
LEMMA InstancesStep == Inv /\ [Next]_vars => InstanceInv'
<1> SUFFICES ASSUME Inv, [Next]_vars PROVE InstanceInv'
  OBVIOUS
<1>0. TypeOK /\ ClientInv /\ BroadcastInv /\ InstanceInv
  BY DEF Inv
<1> USE <1>0, Ids DEF TypeOK, InstanceInv
<1>a. Entries(inbox) \subseteq Commands
  BY EntriesOf DEF TypeOK
<1> USE <1>a
<1>1. CASE UNCHANGED vars
  BY <1>1 DEF vars, clientVars, broadcastVars, registryVars, instanceVars
<1>2. ASSUME NEW r \in Requests, Type(r) PROVE InstanceInv'
  <2>1. /\ UNCHANGED <<sig, broadcastVars, registryVars, instanceVars, gaveUp>>
        /\ client[r] = "new"
    BY <1>2, TypeCases
  <2>2. \A x \in Commands \ {r} : client'[x] = client[x]
    BY <1>2, TypeOthers
  <2> QED
    BY <2>1, <2>2 DEF clientVars, broadcastVars, registryVars, instanceVars
<1>3. ASSUME FirstStop PROVE InstanceInv'
  <2>1. client' = [client EXCEPT ![First] = "waiting"]
    BY <1>3 DEF FirstStop, Send
  <2> QED
    BY <1>3, <2>1 DEF FirstStop, clientVars, broadcastVars, registryVars, instanceVars
<1>4. ASSUME SecondStop PROVE InstanceInv'
  <2>1. client' = [client EXCEPT ![Second] = "waiting"]
    BY <1>4 DEF SecondStop, Send
  <2> QED
    BY <1>4, <2>1 DEF SecondStop, clientVars, broadcastVars, registryVars, instanceVars
<1>5. ASSUME SignalOnly PROVE InstanceInv'
  BY <1>5 DEF SignalOnly, Interrupt, Exit, clientVars, broadcastVars, registryVars, instanceVars
<1>6. ASSUME NEW r \in Commands, Answered(r) PROVE InstanceInv'
  BY <1>6 DEF Answered, OwnAnswers, Answer, Receive, Close, clientVars, broadcastVars, registryVars, instanceVars
<1>7. ASSUME NEW r \in Commands, Start(r) PROVE InstanceInv'
  <2>1. r \in Requests /\ r \in Instances /\ cmd[r].task \in Tasks
    BY <1>7, Starters
  <2>2. r \in Entries(inbox)
    BY <1>7, ReceiveEffect DEF Start, Answer
  <2>3. client[r] = "waiting"
    BY <2>2 DEF ClientInv
  <2> QED
    BY <1>7, <2>1, <2>3 DEF Start, Answer, Close, clientVars, broadcastVars, registryVars, instanceVars
<1>8. ASSUME NEW r \in Commands, Relay(r) PROVE InstanceInv'
  <2>1. \A i \in outChannels' : \E t \in Tasks : i = taskCommands[t]
    BY <1>8, Recipient
  <2>2. \A t \in Tasks : active'[t] => active[t]
    BY <1>8 DEF Relay, MarkInactive
  <2> QED
    BY <1>8, <2>1, <2>2 DEF Relay, clientVars, broadcastVars, registryVars, instanceVars
<1>9. ASSUME SendOne PROVE InstanceInv'
  <2>1. target \in toSend /\ \A i \in Instances \ {target} : queue'[i] = queue[i]
    BY <1>9, SendOneEffect
  <2> QED
    BY <1>9, <2>1 DEF SendOne, clientVars, broadcastVars, registryVars, instanceVars
<1>10. ASSUME Timeout PROVE InstanceInv'
  BY <1>10 DEF Timeout, Finish, Close, clientVars, broadcastVars, registryVars, instanceVars
<1>11. ASSUME NEW i \in Instances, Started(i) PROVE InstanceInv'
  BY <1>11 DEF Started, clientVars, broadcastVars, registryVars, instanceVars
<1>12. ASSUME NEW i \in Instances, TakeCommand(i) PROVE InstanceInv'
  BY <1>12 DEF TakeCommand, clientVars, broadcastVars, registryVars, instanceVars
<1>13. ASSUME NEW i \in Instances, WorkersStopped(i) PROVE InstanceInv'
  BY <1>13 DEF WorkersStopped, clientVars, broadcastVars, registryVars, instanceVars
<1>14. ASSUME NEW i \in Instances, ReplyMore(i) PROVE InstanceInv'
  BY <1>14 DEF ReplyMore, Replied, registryVars, InstanceInv
<1>15. ASSUME NEW i \in Instances, ReplyLast(i) PROVE InstanceInv'
  <2>1. \A x \in Commands : client[x] = "done" => client'[x] = "done"
    BY <1>15 DEF ReplyLast, Finish, Close
  <2> QED
    BY <1>15, <2>1 DEF ReplyLast, Replied, Finish, registryVars
<1>16. ASSUME NEW i \in Instances, ReplyTooLate(i) PROVE InstanceInv'
  BY <1>16 DEF ReplyTooLate, Replied, clientVars, broadcastVars, registryVars, instanceVars
<1>17. ASSUME NEW i \in Instances, Hang(i) PROVE InstanceInv'
  BY <1>17 DEF Hang, clientVars, broadcastVars, registryVars, instanceVars
<1> QED
  BY <1>1, <1>2, <1>3, <1>4, <1>5, <1>6, <1>7, <1>8, <1>9, <1>10, <1>11, <1>12, <1>13, <1>14, <1>15, <1>16, <1>17, NextCases

\* Every step leaves with the instances only the command that is being broadcast
\* and commands whose client is done.
LEMMA PendingStep == Inv /\ [Next]_vars => PendingInv'
<1> SUFFICES ASSUME Inv, [Next]_vars PROVE PendingInv'
  OBVIOUS
<1>0. TypeOK /\ ClientInv /\ BroadcastInv /\ InstanceInv /\ PendingInv
  BY DEF Inv
<1> USE <1>0, Ids DEF TypeOK, PendingInv
<1>a. \A i \in Instances : Pending(i) \subseteq Commands
  BY PendingCommands
<1>b. UNCHANGED <<queue, hand>> => \A i \in Instances : Pending(i)' = Pending(i)
  BY DEF Pending
<1> USE <1>a, <1>b
<1>1. CASE UNCHANGED vars
  BY <1>1 DEF vars, clientVars, broadcastVars, registryVars, instanceVars
<1>2. ASSUME NEW r \in Requests, Type(r) PROVE PendingInv'
  <2>1. UNCHANGED <<queue, hand, cur>> /\ client[r] = "new"
    BY <1>2, TypeCases DEF instanceVars, broadcastVars
  <2>2. \A x \in Commands : client[x] = "done" => client'[x] = "done"
    BY <1>2, <2>1, TypeOthers
  <2> QED
    BY <2>1, <2>2
<1>3. ASSUME FirstStop PROVE PendingInv'
  <2>1. UNCHANGED <<queue, hand, cur>> /\ client' = [client EXCEPT ![First] = "waiting"]
    BY <1>3 DEF FirstStop, Send, instanceVars, broadcastVars
  <2>2. client[First] = "new"
    BY <1>3 DEF FirstStop, ClientInv
  <2> QED
    BY <2>1, <2>2
<1>4. ASSUME SecondStop PROVE PendingInv'
  <2>1. UNCHANGED <<queue, hand, cur>> /\ client' = [client EXCEPT ![Second] = "waiting"]
    BY <1>4 DEF SecondStop, Send, instanceVars, broadcastVars
  <2>2. client[Second] = "new"
    BY <1>4 DEF SecondStop, ClientInv
  <2> QED
    BY <2>1, <2>2
<1>5. ASSUME SignalOnly PROVE PendingInv'
  BY <1>5 DEF SignalOnly, Interrupt, Exit, clientVars, broadcastVars, registryVars, instanceVars
<1>6. ASSUME NEW r \in Commands, Answered(r) PROVE PendingInv'
  <2>1. UNCHANGED <<queue, hand, cur>> /\ client' = [client EXCEPT ![r] = "done"]
    BY <1>6 DEF Answered, Answer, Close, instanceVars, broadcastVars
  <2> QED
    BY <2>1
<1>7. ASSUME NEW r \in Commands, Start(r) PROVE PendingInv'
  <2>1. UNCHANGED <<queue, hand, cur>> /\ client' = [client EXCEPT ![r] = "done"]
    BY <1>7 DEF Start, Answer, Close, broadcastVars
  <2> QED
    BY <2>1
<1>8. ASSUME NEW r \in Commands, Relay(r) PROVE PendingInv'
  <2>1. UNCHANGED <<queue, hand, client>> /\ cur = None
    BY <1>8 DEF Relay, Receive, BroadcastInv, instanceVars, clientVars
  <2> QED
    BY <2>1, Ids
<1>9. ASSUME SendOne PROVE PendingInv'
  <2>1. UNCHANGED <<client, cur>>
    BY <1>9 DEF SendOne, clientVars
  <2>2. \A i \in Instances : Pending(i)' \subseteq Pending(i) \cup {cur}
    BY <1>9, PendingSent
  <2> QED
    BY <2>1, <2>2
<1>10. ASSUME Timeout PROVE PendingInv'
  <2>1. UNCHANGED <<queue, hand>> /\ client' = [client EXCEPT ![cur] = "done"]
    BY <1>10 DEF Timeout, Finish, Close, instanceVars
  <2> QED
    BY <2>1
<1>11. ASSUME NEW i \in Instances, Started(i) PROVE PendingInv'
  BY <1>11 DEF Started, clientVars, broadcastVars, registryVars, instanceVars
<1>12. ASSUME NEW i \in Instances, TakeCommand(i) PROVE PendingInv'
  <2>1. UNCHANGED <<client, cur>>
    BY <1>12 DEF TakeCommand, clientVars, broadcastVars
  <2>2. \A j \in Instances : Pending(j)' \subseteq Pending(j)
    BY <1>12, PendingTaken
  <2> QED
    BY <2>1, <2>2
<1>13. ASSUME NEW i \in Instances, WorkersStopped(i) PROVE PendingInv'
  BY <1>13 DEF WorkersStopped, clientVars, broadcastVars, registryVars, instanceVars
<1>14. ASSUME NEW i \in Instances, ReplyMore(i) PROVE PendingInv'
  <2>1. UNCHANGED <<client, cur>> /\ Replied(i)
    BY <1>14 DEF ReplyMore
  <2>2. \A j \in Instances : Pending(j)' \subseteq Pending(j)
    BY <2>1, PendingReplied
  <2> QED
    BY <2>1, <2>2
<1>15. ASSUME NEW i \in Instances, ReplyLast(i) PROVE PendingInv'
  <2>1. client' = [client EXCEPT ![cur] = "done"] /\ Replied(i)
    BY <1>15 DEF ReplyLast, Finish, Close
  <2>2. \A j \in Instances : Pending(j)' \subseteq Pending(j)
    BY <2>1, PendingReplied
  <2> QED
    BY <2>1, <2>2
<1>16. ASSUME NEW i \in Instances, ReplyTooLate(i) PROVE PendingInv'
  <2>1. UNCHANGED <<client, cur>> /\ Replied(i)
    BY <1>16 DEF ReplyTooLate, clientVars, broadcastVars
  <2>2. \A j \in Instances : Pending(j)' \subseteq Pending(j)
    BY <2>1, PendingReplied
  <2> QED
    BY <2>1, <2>2
<1>17. ASSUME NEW i \in Instances, Hang(i) PROVE PendingInv'
  BY <1>17 DEF Hang, clientVars, broadcastVars, registryVars, instanceVars
<1> QED
  BY <1>1, <1>2, <1>3, <1>4, <1>5, <1>6, <1>7, <1>8, <1>9, <1>10, <1>11, <1>12, <1>13, <1>14, <1>15, <1>16, <1>17, NextCases

\* Who owns what, when no command is sent and no channel is made.
LEMMA OwnerQuiet ==
  ASSUME Inv, [Next]_vars, UNCHANGED taskCommands,
         \A i \in Instances : Pending(i)' \subseteq Pending(i),
         outChannels' = {} \/ UNCHANGED <<outChannels, cur>>
  PROVE  OwnerInv'
<1>0. TypeOK /\ ClientInv /\ BroadcastInv /\ InstanceInv /\ PendingInv /\ OwnerInv
  BY DEF Inv
<1>1. ASSUME NEW t \in Tasks, taskCommands'[t] # None
      PROVE  Owner(taskCommands[t])' = t
  <2>1. taskCommands[t] \in Instances /\ phase[taskCommands[t]] # "none"
    BY <1>0, <1>1 DEF InstanceInv, TypeOK
  <2>2. Owner(taskCommands[t])' = Owner(taskCommands[t])
    BY <2>1, <1>0, Stable
  <2> QED
    BY <1>0, <1>1, <2>2 DEF OwnerInv
<1>2. ASSUME NEW i \in Instances, NEW r \in Pending(i)', cmd'[r].task # NoTask
      PROVE  Owner(i)' = cmd'[r].task
  <2>1. r \in Pending(i) /\ r \in Commands /\ phase[i] # "none"
    BY <1>0, <1>2, PendingCommands, EntriesOf DEF InstanceInv, Pending
  <2>2. client[r] # "new"
    BY <1>0, <2>1, Ids DEF PendingInv, BroadcastInv
  <2> QED
    BY <1>0, <1>2, <2>1, <2>2, Stable DEF OwnerInv
<1>3. ASSUME NEW i \in outChannels', cmd'[cur'].task # NoTask
      PROVE  Owner(i)' = cmd'[cur'].task
  <2>1. cur' = cur /\ i \in outChannels /\ i \in Instances /\ phase[i] # "none"
    BY <1>0, <1>3 DEF TypeOK, InstanceInv
  <2>2. cur \in Commands /\ client[cur] # "new"
    BY <1>0, <2>1 DEF BroadcastInv, TypeOK
  <2> QED
    BY <1>0, <1>3, <2>1, <2>2, Stable DEF OwnerInv
<1> QED
  BY <1>1, <1>2, <1>3 DEF OwnerInv

\* Every step sends a command that names a task to an instance of that task.
LEMMA OwnerStep == Inv /\ [Next]_vars => OwnerInv'
<1> SUFFICES ASSUME Inv, [Next]_vars PROVE OwnerInv'
  OBVIOUS
<1>0. TypeOK /\ ClientInv /\ BroadcastInv /\ InstanceInv /\ PendingInv /\ OwnerInv
  BY DEF Inv
<1> USE <1>0, Ids
<1>a. \A i \in Instances : Pending(i) \subseteq Commands
  BY PendingCommands
<1>b. UNCHANGED <<queue, hand>> => \A i \in Instances : Pending(i)' = Pending(i)
  BY DEF Pending
<1> USE <1>a, <1>b
<1>1. CASE UNCHANGED vars
  <2>1. UNCHANGED <<taskCommands, outChannels, cur>>
    BY <1>1 DEF vars, registryVars, broadcastVars, instanceVars
  <2>2. \A j \in Instances : Pending(j)' \subseteq Pending(j)
    BY <1>1, <1>b DEF vars, registryVars, broadcastVars, instanceVars
  <2> QED
    BY <2>1, <2>2, OwnerQuiet
<1>2. ASSUME NEW r \in Requests, Type(r) PROVE OwnerInv'
  <2>1. UNCHANGED <<taskCommands, outChannels, cur>>
    BY <1>2 DEF Type, registryVars, broadcastVars, instanceVars
  <2>2. \A j \in Instances : Pending(j)' \subseteq Pending(j)
    BY <1>2, <1>b DEF Type, registryVars, broadcastVars, instanceVars
  <2> QED
    BY <2>1, <2>2, OwnerQuiet
<1>3. ASSUME FirstStop PROVE OwnerInv'
  <2>1. UNCHANGED <<taskCommands, outChannels, cur>>
    BY <1>3 DEF FirstStop, registryVars, broadcastVars, instanceVars
  <2>2. \A j \in Instances : Pending(j)' \subseteq Pending(j)
    BY <1>3, <1>b DEF FirstStop, registryVars, broadcastVars, instanceVars
  <2> QED
    BY <2>1, <2>2, OwnerQuiet
<1>4. ASSUME SecondStop PROVE OwnerInv'
  <2>1. UNCHANGED <<taskCommands, outChannels, cur>>
    BY <1>4 DEF SecondStop, registryVars, broadcastVars, instanceVars
  <2>2. \A j \in Instances : Pending(j)' \subseteq Pending(j)
    BY <1>4, <1>b DEF SecondStop, registryVars, broadcastVars, instanceVars
  <2> QED
    BY <2>1, <2>2, OwnerQuiet
<1>5. ASSUME SignalOnly PROVE OwnerInv'
  <2>1. UNCHANGED <<taskCommands, outChannels, cur>>
    BY <1>5 DEF SignalOnly, Interrupt, Exit, registryVars, broadcastVars, instanceVars
  <2>2. \A j \in Instances : Pending(j)' \subseteq Pending(j)
    BY <1>5, <1>b DEF SignalOnly, Interrupt, Exit, registryVars, broadcastVars, instanceVars
  <2> QED
    BY <2>1, <2>2, OwnerQuiet
<1>6. ASSUME NEW r \in Commands, Answered(r) PROVE OwnerInv'
  <2>1. UNCHANGED <<taskCommands, outChannels, cur>>
    BY <1>6 DEF Answered, Answer, registryVars, broadcastVars, instanceVars
  <2>2. \A j \in Instances : Pending(j)' \subseteq Pending(j)
    BY <1>6, <1>b DEF Answered, Answer, registryVars, broadcastVars, instanceVars
  <2> QED
    BY <2>1, <2>2, OwnerQuiet
<1>7. ASSUME NEW r \in Commands, Start(r) PROVE OwnerInv'
  <2> DEFINE t == cmd[r].task
  <2>1. r \in Requests /\ r \in Instances /\ t \in Tasks /\ r \notin Tasks
    BY <1>7, <1>0, Starters
  <2>2. UNCHANGED <<outChannels, cur, queue, hand, cmd>>
    BY <1>7 DEF Start, Answer, broadcastVars
  <2>3. taskCommands' = [taskCommands EXCEPT ![t] = r]
    BY <1>7 DEF Start
  <2>4. \A i \in Instances : Owner(i)' = Owner(i)
    BY <2>2 DEF Owner
  <2>5. ASSUME NEW x \in Tasks, taskCommands'[x] # None
        PROVE  Owner(taskCommands[x])' = x
    <3>1. CASE x = t
      <4>1. taskCommands'[x] = r
        BY <1>0, <2>1, <2>3, <3>1 DEF TypeOK
      <4> QED
        BY <2>1, <2>2, <3>1, <4>1 DEF Owner
    <3>2. CASE x # t
      <4>1. taskCommands'[x] = taskCommands[x]
        BY <1>0, <2>1, <2>3, <3>2 DEF TypeOK
      <4>2. Owner(taskCommands[x]) = x
        BY <1>0, <2>5, <4>1 DEF OwnerInv
      <4> QED
        BY <2>2, <4>1, <4>2 DEF Owner
    <3> QED
      BY <3>1, <3>2
  <2>6. ASSUME NEW i \in Instances, NEW x \in Pending(i)', cmd'[x].task # NoTask
        PROVE  Owner(i)' = cmd'[x].task
    BY <1>0, <1>b, <2>2, <2>4, <2>6 DEF OwnerInv
  <2>7. ASSUME NEW i \in outChannels', cmd'[cur'].task # NoTask
        PROVE  Owner(i)' = cmd'[cur'].task
    BY <1>0, <2>2, <2>4, <2>7 DEF OwnerInv, TypeOK
  <2> QED
    BY <2>5, <2>6, <2>7 DEF OwnerInv
<1>8. ASSUME NEW r \in Commands, Relay(r) PROVE OwnerInv'
  <2>1. UNCHANGED <<taskCommands, queue, hand, cmd>> /\ cur' = r
    BY <1>8 DEF Relay, instanceVars, clientVars
  <2>2. \A i : Owner(i)' = Owner(i)
    BY <2>1 DEF Owner
  <2>3. ASSUME NEW i \in outChannels', cmd[r].task # NoTask PROVE Owner(i) = cmd[r].task
    <3>1. PICK t \in Tasks : i = taskCommands[t] /\ cmd[r].task \in {t, NoTask} /\ active[t]
      BY <1>8, <1>0, Recipient
    <3> QED
      BY <1>0, <2>3, <3>1 DEF OwnerInv, InstanceInv
  <2> QED
    BY <1>0, <2>1, <2>2, <2>3 DEF OwnerInv
<1>9. ASSUME SendOne PROVE OwnerInv'
  <2>1. UNCHANGED <<taskCommands, cmd, outChannels, cur>>
    BY <1>9 DEF SendOne, clientVars, registryVars
  <2>2. \A i : Owner(i)' = Owner(i)
    BY <2>1 DEF Owner
  <2>3. target \in outChannels
    BY <1>9, <1>0, SendOneEffect DEF TypeOK
  <2>4. ASSUME NEW i \in Instances, NEW x \in Pending(i)', cmd[x].task # NoTask
        PROVE  Owner(i) = cmd[x].task
    <3>1. x \in Pending(i) \/ (x = cur /\ i = target)
      BY <1>9, <1>0, <2>4, PendingSent
    <3> QED
      BY <1>0, <2>3, <2>4, <3>1 DEF OwnerInv
  <2> QED
    BY <1>0, <2>1, <2>2, <2>4 DEF OwnerInv
<1>10. ASSUME Timeout PROVE OwnerInv'
  <2>1. UNCHANGED taskCommands /\ outChannels' = {}
    BY <1>10 DEF Timeout, Finish, registryVars, broadcastVars, instanceVars
  <2>2. \A j \in Instances : Pending(j)' \subseteq Pending(j)
    BY <1>10, <1>b DEF Timeout, Finish, registryVars, broadcastVars, instanceVars
  <2> QED
    BY <2>1, <2>2, OwnerQuiet
<1>11. ASSUME NEW i \in Instances, Started(i) PROVE OwnerInv'
  <2>1. UNCHANGED <<taskCommands, outChannels, cur>>
    BY <1>11 DEF Started, registryVars, broadcastVars, instanceVars
  <2>2. \A j \in Instances : Pending(j)' \subseteq Pending(j)
    BY <1>11, <1>b DEF Started, registryVars, broadcastVars, instanceVars
  <2> QED
    BY <2>1, <2>2, OwnerQuiet
<1>12. ASSUME NEW i \in Instances, TakeCommand(i) PROVE OwnerInv'
  <2>1. UNCHANGED <<taskCommands, outChannels, cur>>
    BY <1>12 DEF TakeCommand, registryVars, broadcastVars, instanceVars
  <2>2. \A j \in Instances : Pending(j)' \subseteq Pending(j)
    BY <1>12, PendingTaken DEF TakeCommand, registryVars, broadcastVars, instanceVars
  <2> QED
    BY <2>1, <2>2, OwnerQuiet
<1>13. ASSUME NEW i \in Instances, WorkersStopped(i) PROVE OwnerInv'
  <2>1. UNCHANGED <<taskCommands, outChannels, cur>>
    BY <1>13 DEF WorkersStopped, registryVars, broadcastVars, instanceVars
  <2>2. \A j \in Instances : Pending(j)' \subseteq Pending(j)
    BY <1>13, <1>b DEF WorkersStopped, registryVars, broadcastVars, instanceVars
  <2> QED
    BY <2>1, <2>2, OwnerQuiet
<1>14. ASSUME NEW i \in Instances, ReplyMore(i) PROVE OwnerInv'
  <2>1. UNCHANGED <<taskCommands, outChannels, cur>>
    BY <1>14 DEF ReplyMore, registryVars, broadcastVars, instanceVars
  <2>2. \A j \in Instances : Pending(j)' \subseteq Pending(j)
    BY <1>14, PendingReplied DEF ReplyMore, registryVars, broadcastVars, instanceVars
  <2> QED
    BY <2>1, <2>2, OwnerQuiet
<1>15. ASSUME NEW i \in Instances, ReplyLast(i) PROVE OwnerInv'
  <2>1. UNCHANGED taskCommands /\ outChannels' = {}
    BY <1>15 DEF ReplyLast, Finish, registryVars, broadcastVars, instanceVars
  <2>2. \A j \in Instances : Pending(j)' \subseteq Pending(j)
    BY <1>15, PendingReplied DEF ReplyLast, Finish, registryVars, broadcastVars, instanceVars
  <2> QED
    BY <2>1, <2>2, OwnerQuiet
<1>16. ASSUME NEW i \in Instances, ReplyTooLate(i) PROVE OwnerInv'
  <2>1. UNCHANGED <<taskCommands, outChannels, cur>>
    BY <1>16 DEF ReplyTooLate, registryVars, broadcastVars, instanceVars
  <2>2. \A j \in Instances : Pending(j)' \subseteq Pending(j)
    BY <1>16, PendingReplied DEF ReplyTooLate, registryVars, broadcastVars, instanceVars
  <2> QED
    BY <2>1, <2>2, OwnerQuiet
<1>17. ASSUME NEW i \in Instances, Hang(i) PROVE OwnerInv'
  <2>1. UNCHANGED <<taskCommands, outChannels, cur>>
    BY <1>17 DEF Hang, registryVars, broadcastVars, instanceVars
  <2>2. \A j \in Instances : Pending(j)' \subseteq Pending(j)
    BY <1>17, <1>b DEF Hang, registryVars, broadcastVars, instanceVars
  <2> QED
    BY <2>1, <2>2, OwnerQuiet
<1> QED
  BY <1>1, <1>2, <1>3, <1>4, <1>5, <1>6, <1>7, <1>8, <1>9, <1>10, <1>11, <1>12, <1>13, <1>14, <1>15, <1>16, <1>17, NextCases

\* Answers of the Runner and of the router name no instance.
LEMMA AnswersQuiet ==
  ASSUME Inv, [Next]_vars,
         \A r \in Commands : \A a \in got'[r] : a \in got[r] \/ (a.of = r /\ a.text # "ok")
  PROVE  (FromInv /\ AnswersToTheirOwn)'
<1>0. TypeOK /\ ClientInv /\ BroadcastInv /\ InstanceInv /\ FromInv /\ AnswersToTheirOwn
  BY DEF Inv
<1>1. ASSUME NEW r \in Commands, NEW a \in got'[r], a.text = "ok"
      PROVE  /\ a.of = r /\ a.from \in Instances /\ phase'[a.from] # "none"
             /\ cmd'[r].task # NoTask => Owner(a.from)' = cmd'[r].task
  <2>1. a \in got[r] /\ client[r] # "new"
    BY <1>0, <1>1 DEF ClientInv
  <2>2. a.from \in Instances /\ phase[a.from] # "none"
    BY <1>0, <1>1, <2>1 DEF FromInv
  <2>3. cmd'[r] = cmd[r] /\ phase'[a.from] # "none" /\ Owner(a.from)' = Owner(a.from)
    BY <1>0, <2>1, <2>2, Stable
  <2> QED
    BY <1>0, <1>1, <2>1, <2>2, <2>3 DEF AnswersToTheirOwn
<1>2. ASSUME NEW r \in Commands, NEW a \in got'[r] PROVE a.of = r
  BY <1>0, <1>2 DEF AnswersToTheirOwn
<1> QED
  BY <1>1, <1>2 DEF FromInv, AnswersToTheirOwn

\* An answer of an instance to the command being broadcast.
LEMMA AnswerArrives ==
  ASSUME Inv, [Next]_vars, NEW i \in Instances, phase[i] = "replying", hand[i] = cur,
         got' = [got EXCEPT ![cur] = @ \cup {AnswerOf(i)}]
  PROVE  (FromInv /\ AnswersToTheirOwn)'
<1>0. /\ TypeOK /\ ClientInv /\ BroadcastInv /\ InstanceInv /\ FromInv
      /\ AnswersToTheirOwn /\ OwnerInv
  BY DEF Inv
<1>1. cur \in Commands /\ client[cur] # "new" /\ cur \in Pending(i)
  BY <1>0, Ids DEF InstanceInv, BroadcastInv, TypeOK, Pending
<1>2. /\ AnswerOf(i).of = cur /\ AnswerOf(i).from = i
      /\ cmd[cur].task # NoTask => Owner(i) = cmd[cur].task
  BY <1>0, <1>1 DEF AnswerOf, OwnerInv
<1>3. ASSUME NEW r \in Commands, NEW a \in got'[r], a.text = "ok"
      PROVE  /\ a.of = r /\ a.from \in Instances /\ phase'[a.from] # "none"
             /\ cmd'[r].task # NoTask => Owner(a.from)' = cmd'[r].task
  <2>1. /\ a.of = r /\ a.from \in Instances /\ phase[a.from] # "none" /\ client[r] # "new"
        /\ cmd[r].task # NoTask => Owner(a.from) = cmd[r].task
    <3>1. CASE a \in got[r]
      BY <1>0, <1>3, <3>1 DEF FromInv, AnswersToTheirOwn, ClientInv
    <3>2. CASE a \notin got[r]
      <4>1. r = cur /\ a = AnswerOf(i)
        BY <1>0, <1>3, <3>2 DEF TypeOK
      <4> QED
        BY <1>1, <1>2, <4>1
    <3> QED
      BY <3>1, <3>2
  <2>2. cmd'[r] = cmd[r] /\ phase'[a.from] # "none" /\ Owner(a.from)' = Owner(a.from)
    BY <1>0, <2>1, Stable
  <2> QED
    BY <2>1, <2>2
<1>4. ASSUME NEW r \in Commands, NEW a \in got'[r] PROVE a.of = r
  BY <1>0, <1>1, <1>2, <1>4 DEF AnswersToTheirOwn, TypeOK
<1> QED
  BY <1>3, <1>4 DEF FromInv, AnswersToTheirOwn

\* Every step gives a client an answer to its own command, from the task it names.
LEMMA AnswersStep == Inv /\ [Next]_vars => (FromInv /\ AnswersToTheirOwn)'
<1> SUFFICES ASSUME Inv, [Next]_vars PROVE (FromInv /\ AnswersToTheirOwn)'
  OBVIOUS
<1>0. TypeOK /\ BroadcastInv
  BY DEF Inv
<1> USE <1>0, Ids
<1>1. CASE UNCHANGED vars
  <2>1. UNCHANGED got
    BY <1>1 DEF vars, clientVars
  <2> QED
    BY <2>1, AnswersQuiet
<1>2. ASSUME NEW r \in Requests, Type(r) PROVE (FromInv /\ AnswersToTheirOwn)'
  <2>1. CASE \E c : Send(r, c)
    <3>1. UNCHANGED got
      BY <2>1 DEF Send
    <3> QED
      BY <3>1, AnswersQuiet
  <2>2. CASE NotFound(r)
    <3>1. got' = [got EXCEPT ![r] = {Says("not found", r)}]
      BY <2>2 DEF NotFound
    <3>2. Says("not found", r).of = r /\ Says("not found", r).text # "ok"
      BY DEF Says
    <3> QED
      BY <3>1, <3>2, AnswersQuiet DEF TypeOK
  <2> QED
    BY <1>2, <2>1, <2>2, TypeCases DEF TypeOK
<1>3. ASSUME FirstStop PROVE (FromInv /\ AnswersToTheirOwn)'
  <2>1. UNCHANGED got
    BY <1>3 DEF FirstStop, Send, clientVars
  <2> QED
    BY <2>1, AnswersQuiet
<1>4. ASSUME SecondStop PROVE (FromInv /\ AnswersToTheirOwn)'
  <2>1. UNCHANGED got
    BY <1>4 DEF SecondStop, Send, clientVars
  <2> QED
    BY <2>1, AnswersQuiet
<1>5. ASSUME SignalOnly PROVE (FromInv /\ AnswersToTheirOwn)'
  <2>1. UNCHANGED got
    BY <1>5 DEF SignalOnly, Interrupt, Exit, clientVars
  <2> QED
    BY <2>1, AnswersQuiet
<1>6. ASSUME NEW r \in Commands, Answered(r) PROVE (FromInv /\ AnswersToTheirOwn)'
  <2>1. PICK A \in SUBSET OwnAnswers(r) : got' = [got EXCEPT ![r] = got[r] \cup A]
    BY <1>6 DEF Answered, Answer, Close
  <2>2. \A a \in A : a.of = r /\ a.text # "ok"
    BY <2>1 DEF OwnAnswers
  <2>3. \A c \in Commands : \A a \in got'[c] : a \in got[c] \/ (a.of = c /\ a.text # "ok")
    BY <2>1, <2>2 DEF TypeOK
  <2> QED
    BY <2>3, AnswersQuiet
<1>7. ASSUME NEW r \in Commands, Start(r) PROVE (FromInv /\ AnswersToTheirOwn)'
  <2>1. got' = [got EXCEPT ![r] = got[r] \cup {Says("started", r)}]
    BY <1>7 DEF Start, Answer, Close
  <2>2. Says("started", r).of = r /\ Says("started", r).text # "ok"
    BY DEF Says
  <2>3. \A c \in Commands : \A a \in got'[c] : a \in got[c] \/ (a.of = c /\ a.text # "ok")
    BY <2>1, <2>2 DEF TypeOK
  <2> QED
    BY <2>3, AnswersQuiet
<1>8. ASSUME NEW r \in Commands, Relay(r) PROVE (FromInv /\ AnswersToTheirOwn)'
  <2>1. UNCHANGED got
    BY <1>8 DEF Relay, clientVars
  <2> QED
    BY <2>1, AnswersQuiet
<1>9. ASSUME SendOne PROVE (FromInv /\ AnswersToTheirOwn)'
  <2>1. UNCHANGED got
    BY <1>9 DEF SendOne, clientVars
  <2> QED
    BY <2>1, AnswersQuiet
<1>10. ASSUME Timeout PROVE (FromInv /\ AnswersToTheirOwn)'
  <2>1. got' = [got EXCEPT ![cur] = got[cur] \cup {Says("timeout", cur)}]
    BY <1>10 DEF Timeout, Finish, Close
  <2>2. Says("timeout", cur).of = cur /\ Says("timeout", cur).text # "ok"
    BY DEF Says
  <2>3. \A c \in Commands : \A a \in got'[c] : a \in got[c] \/ (a.of = c /\ a.text # "ok")
    BY <2>1, <2>2 DEF TypeOK
  <2> QED
    BY <2>3, AnswersQuiet
<1>11. ASSUME NEW i \in Instances, Started(i) PROVE (FromInv /\ AnswersToTheirOwn)'
  <2>1. UNCHANGED got
    BY <1>11 DEF Started, clientVars
  <2> QED
    BY <2>1, AnswersQuiet
<1>12. ASSUME NEW i \in Instances, TakeCommand(i) PROVE (FromInv /\ AnswersToTheirOwn)'
  <2>1. UNCHANGED got
    BY <1>12 DEF TakeCommand, clientVars
  <2> QED
    BY <2>1, AnswersQuiet
<1>13. ASSUME NEW i \in Instances, WorkersStopped(i) PROVE (FromInv /\ AnswersToTheirOwn)'
  <2>1. UNCHANGED got
    BY <1>13 DEF WorkersStopped, clientVars
  <2> QED
    BY <2>1, AnswersQuiet
<1>14. ASSUME NEW i \in Instances, ReplyMore(i) PROVE (FromInv /\ AnswersToTheirOwn)'
  BY <1>14, AnswerArrives DEF ReplyMore
<1>15. ASSUME NEW i \in Instances, ReplyLast(i) PROVE (FromInv /\ AnswersToTheirOwn)'
  BY <1>15, AnswerArrives DEF ReplyLast, Finish, Close
<1>16. ASSUME NEW i \in Instances, ReplyTooLate(i) PROVE (FromInv /\ AnswersToTheirOwn)'
  <2>1. UNCHANGED got
    BY <1>16 DEF ReplyTooLate, clientVars
  <2> QED
    BY <2>1, AnswersQuiet
<1>17. ASSUME NEW i \in Instances, Hang(i) PROVE (FromInv /\ AnswersToTheirOwn)'
  <2>1. UNCHANGED got
    BY <1>17 DEF Hang, clientVars
  <2> QED
    BY <2>1, AnswersQuiet
<1> QED
  BY <1>1, <1>2, <1>3, <1>4, <1>5, <1>6, <1>7, <1>8, <1>9, <1>10, <1>11, <1>12, <1>13, <1>14, <1>15, <1>16, <1>17, NextCases

=============================================================================
