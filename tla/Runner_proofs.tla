--------------------------- MODULE Runner_proofs ----------------------------
(***************************************************************************)
(* Every step of Runner keeps the processes in its reach, does what was    *)
(* typed and is one that module Supervisor allows; the theorems, with the  *)
(* inductive invariant of RunnerInvariant_proofs.                          *)
(***************************************************************************)
EXTENDS RunnerStops_proofs, SequenceTheorems

\* An instance the Runner has to account for.
Live(i) == alive[i] \/ phase[i] = "starting"

\* Steps that leave the registry alone and lose no instance that is being stopped.
LEMMA SupervisedQuiet ==
  ASSUME Inv, [Next]_vars, UNCHANGED <<active, taskCommands>>,
         \A i \in Instances : Live(i)' => Live(i),
         \A i \in Instances : gaveUp[i] => gaveUp'[i],
         \A i \in Instances : BeingStopped(i) /\ Live(i)' => BeingStopped(i)' \/ gaveUp'[i]
  PROVE  Supervised'
<1>0. TypeOK /\ ClientInv /\ BroadcastInv /\ InstanceInv /\ Supervised
  BY DEF Inv
<1>1. ASSUME NEW i \in Instances, Live(i)'
      PROVE  \/ active'[Owner(i)'] /\ taskCommands'[Owner(i)'] = i
             \/ BeingStopped(i)' \/ gaveUp'[i]
  <2>1. phase[i] # "none"
    BY <1>0, <1>1 DEF Live, InstanceInv
  <2>2. Owner(i)' = Owner(i)
    BY <1>0, <2>1, Stable
  <2>3. \/ active[Owner(i)] /\ taskCommands[Owner(i)] = i
        \/ BeingStopped(i) \/ gaveUp[i]
    BY <1>0, <1>1 DEF Supervised, InCharge, Live
  <2> QED
    BY <1>1, <2>2, <2>3
<1> QED
  BY <1>1 DEF Supervised, InCharge, Live

\* A step that is not about the broadcast leaves it stopping what it stops.
LEMMA StillBeingStopped ==
  ASSUME Inv, [Next]_vars, UNCHANGED <<outChannels, cur>>,
         rpc # "idle" => rpc' # "idle", cur # None => got'[cur] = got[cur]
  PROVE  \A i \in Instances : BeingStopped(i) => BeingStopped(i)'
<1>0. TypeOK /\ ClientInv /\ BroadcastInv /\ InstanceInv
  BY DEF Inv
<1>1. ASSUME NEW i \in Instances, BeingStopped(i) PROVE BeingStopped(i)'
  <2>1. cur \in Commands /\ cur # None /\ client[cur] # "new"
    BY <1>0, <1>1, Ids DEF BeingStopped, BroadcastInv, TypeOK
  <2>2. cmd'[cur] = cmd[cur]
    BY <1>0, <2>1, Stable
  <2>3. HasAnswered' = HasAnswered
    BY <2>1 DEF HasAnswered
  <2> QED
    BY <1>1, <2>1, <2>2, <2>3 DEF BeingStopped
<1> QED
  BY <1>1

\* No step lets an instance with processes out of the Runner's reach, except a
\* stop that times out, which is recorded.
LEMMA SupervisedStep == Inv /\ [Next]_vars => Supervised'
<1> SUFFICES ASSUME Inv, [Next]_vars PROVE Supervised'
  OBVIOUS
<1>0. TypeOK /\ ClientInv /\ BroadcastInv /\ InstanceInv /\ StartedInv /\ DeadInv /\ CountInv /\ Supervised
  BY DEF Inv
<1> USE <1>0, Ids
<1>1. CASE UNCHANGED vars
  <2>1. UNCHANGED <<active, taskCommands, gaveUp, outChannels, cur>> /\ (rpc # "idle" => rpc' # "idle")
    BY <1>1 DEF vars, registryVars, broadcastVars
  <2>2. cur # None => got'[cur] = got[cur]
    BY <1>1 DEF vars, clientVars, BroadcastInv
  <2>3. UNCHANGED <<phase, alive>>
    BY <1>1 DEF vars, instanceVars, Live, TypeOK
  <2>4. \A j \in Instances : Live(j)' => Live(j)
    BY <2>3 DEF Live
  <2> QED
    BY <2>1, <2>2, <2>4, StillBeingStopped, SupervisedQuiet
<1>2. ASSUME NEW r \in Requests, Type(r) PROVE Supervised'
  <2>1. UNCHANGED <<active, taskCommands, gaveUp, outChannels, cur, rpc, phase, alive>>
    BY <1>2, TypeCases DEF TypeOK, registryVars, broadcastVars, instanceVars
  <2>2. cur # None => got'[cur] = got[cur]
    <3>1. client[r] = "new"
      BY <1>2 DEF Type
    <3>2. cur # None => cur \in Commands \ {r}
      BY <3>1 DEF TypeOK, BroadcastInv
    <3> QED
      BY <1>2, <3>2, TypeOthers
  <2>3. \A j \in Instances : Live(j)' => Live(j)
    BY <2>1 DEF Live
  <2> QED
    BY <2>1, <2>2, <2>3, StillBeingStopped, SupervisedQuiet
<1>3. ASSUME FirstStop PROVE Supervised'
  <2>1. UNCHANGED <<active, taskCommands, gaveUp, outChannels, cur>> /\ (rpc # "idle" => rpc' # "idle")
    BY <1>3 DEF FirstStop, Send, registryVars, broadcastVars
  <2>2. cur # None => got'[cur] = got[cur]
    BY <1>3 DEF FirstStop, Send, clientVars, BroadcastInv
  <2>3. UNCHANGED <<phase, alive>>
    BY <1>3 DEF FirstStop, Send, instanceVars, Live, TypeOK
  <2>4. \A j \in Instances : Live(j)' => Live(j)
    BY <2>3 DEF Live
  <2> QED
    BY <2>1, <2>2, <2>4, StillBeingStopped, SupervisedQuiet
<1>4. ASSUME SecondStop PROVE Supervised'
  <2>1. UNCHANGED <<active, taskCommands, gaveUp, outChannels, cur>> /\ (rpc # "idle" => rpc' # "idle")
    BY <1>4 DEF SecondStop, Send, registryVars, broadcastVars
  <2>2. cur # None => got'[cur] = got[cur]
    BY <1>4 DEF SecondStop, Send, clientVars, BroadcastInv
  <2>3. UNCHANGED <<phase, alive>>
    BY <1>4 DEF SecondStop, Send, instanceVars, Live, TypeOK
  <2>4. \A j \in Instances : Live(j)' => Live(j)
    BY <2>3 DEF Live
  <2> QED
    BY <2>1, <2>2, <2>4, StillBeingStopped, SupervisedQuiet
<1>5. ASSUME SignalOnly PROVE Supervised'
  <2>1. UNCHANGED <<active, taskCommands, gaveUp, outChannels, cur>> /\ (rpc # "idle" => rpc' # "idle")
    BY <1>5 DEF SignalOnly, Interrupt, Exit, registryVars, broadcastVars
  <2>2. cur # None => got'[cur] = got[cur]
    BY <1>5 DEF SignalOnly, Interrupt, Exit, clientVars, BroadcastInv
  <2>3. UNCHANGED <<phase, alive>>
    BY <1>5 DEF SignalOnly, Interrupt, Exit, instanceVars, Live, TypeOK
  <2>4. \A j \in Instances : Live(j)' => Live(j)
    BY <2>3 DEF Live
  <2> QED
    BY <2>1, <2>2, <2>4, StillBeingStopped, SupervisedQuiet
<1>6. ASSUME NEW r \in Commands, Answered(r) PROVE Supervised'
  <2>1. UNCHANGED <<active, taskCommands, gaveUp, phase, alive>> /\ rpc = "idle"
    BY <1>6 DEF Answered, Answer, Receive, registryVars, instanceVars
  <2>2. \A j \in Instances : (Live(j)' => Live(j)) /\ ~BeingStopped(j)
    BY <2>1 DEF Live, BeingStopped
  <2> QED
    BY <2>1, <2>2, SupervisedQuiet
<1>7. ASSUME NEW r \in Commands, Start(r) PROVE Supervised'
  <2>1. r \in Instances /\ r \notin Tasks /\ cmd[r].task \in Tasks
    BY <1>7, Starters, Ids
  <2>2. /\ ~active[cmd[r].task] /\ rpc = "idle" /\ UNCHANGED <<cmd, alive, gaveUp>>
        /\ active' = [active EXCEPT ![cmd[r].task] = TRUE]
        /\ taskCommands' = [taskCommands EXCEPT ![cmd[r].task] = r]
        /\ phase' = [phase EXCEPT ![r] = "starting"]
    BY <1>7 DEF Start, Answer, Receive
  <2>3. Owner(r)' = cmd[r].task
    BY <2>1, <2>2 DEF Owner
  <2>4. active'[cmd[r].task] /\ taskCommands'[cmd[r].task] = r
    BY <2>1, <2>2 DEF TypeOK
  <2>5. ASSUME NEW j \in Instances \ {r}, Live(j)'
        PROVE  (active'[Owner(j)'] /\ taskCommands'[Owner(j)'] = j) \/ gaveUp'[j]
    <3>1. Live(j)
      BY <2>2, <2>5 DEF Live, TypeOK
    <3>2. phase[j] # "none"
      BY <3>1 DEF Live, InstanceInv
    <3>3. Owner(j)' = Owner(j) /\ Owner(j) \in Tasks
      BY <3>2, Stable DEF StartedInv
    <3>4. (active[Owner(j)] /\ taskCommands[Owner(j)] = j) \/ gaveUp[j]
      BY <2>2, <3>1 DEF Supervised, InCharge, Live, BeingStopped
    <3>5. CASE gaveUp[j]
      BY <2>2, <3>5
    <3>6. CASE active[Owner(j)] /\ taskCommands[Owner(j)] = j
      <4>1. Owner(j) # cmd[r].task
        BY <2>2, <3>6
      <4>2. active'[Owner(j)] = active[Owner(j)] /\ taskCommands'[Owner(j)] = taskCommands[Owner(j)]
        BY <2>1, <2>2, <3>3, <4>1 DEF TypeOK
      <4> QED
        BY <3>3, <3>6, <4>2
    <3> QED
      BY <3>4, <3>5, <3>6
  <2> QED
    BY <2>3, <2>4, <2>5 DEF Supervised, InCharge, Live
<1>8. ASSUME NEW r \in Commands, Relay(r) PROVE Supervised'
  <2>1. /\ rpc = "idle" /\ rpc' = "send" /\ cur' = r /\ got[r] = {}
        /\ UNCHANGED <<cmd, got, taskCommands, phase, alive, gaveUp>>
        /\ active' = [t \in Tasks |-> active[t] /\ ~(cmd[r].type = "stop" /\ cmd[r].task \in {t, NoTask})]
    BY <1>8, ReceiveEffect DEF Relay, Receive, MarkInactive, ClientInv, clientVars, instanceVars
  <2>2. HasAnswered' = {}
    BY <2>1 DEF HasAnswered
  <2>3. ASSUME NEW j \in Instances, Live(j)'
        PROVE  \/ active'[Owner(j)'] /\ taskCommands'[Owner(j)'] = j
               \/ BeingStopped(j)' \/ gaveUp'[j]
    <3>1. Live(j)
      BY <2>1, <2>3 DEF Live
    <3>2. phase[j] # "none"
      BY <3>1 DEF Live, InstanceInv
    <3>3. Owner(j)' = Owner(j) /\ Owner(j) \in Tasks
      BY <3>2, Stable DEF StartedInv
    <3>4. (active[Owner(j)] /\ taskCommands[Owner(j)] = j) \/ gaveUp[j]
      BY <2>1, <3>1 DEF Supervised, InCharge, Live, BeingStopped
    <3>5. CASE gaveUp[j]
      BY <2>1, <3>5
    <3>6. CASE /\ active[Owner(j)] /\ taskCommands[Owner(j)] = j
               /\ cmd[r].type = "stop" /\ cmd[r].task \in {Owner(j), NoTask}
      <4>1. j \in outChannels'
        BY <1>8, <3>3, <3>6, Recipient
      <4> QED
        BY <2>1, <2>2, <3>6, <4>1 DEF BeingStopped
    <3>7. CASE /\ active[Owner(j)] /\ taskCommands[Owner(j)] = j
               /\ ~(cmd[r].type = "stop" /\ cmd[r].task \in {Owner(j), NoTask})
      BY <2>1, <3>3, <3>7
    <3> QED
      BY <3>4, <3>5, <3>6, <3>7
  <2> QED
    BY <2>3 DEF Supervised, InCharge, Live
<1>9. ASSUME SendOne PROVE Supervised'
  <2>1. UNCHANGED <<active, taskCommands, gaveUp, outChannels, cur>> /\ (rpc # "idle" => rpc' # "idle")
    BY <1>9 DEF SendOne, registryVars, broadcastVars
  <2>2. cur # None => got'[cur] = got[cur]
    BY <1>9 DEF SendOne, clientVars, BroadcastInv
  <2>3. UNCHANGED <<phase, alive>>
    BY <1>9 DEF SendOne, instanceVars, Live, TypeOK
  <2>4. \A j \in Instances : Live(j)' => Live(j)
    BY <2>3 DEF Live
  <2> QED
    BY <2>1, <2>2, <2>4, StillBeingStopped, SupervisedQuiet
<1>10. ASSUME Timeout PROVE Supervised'
  <2>1. UNCHANGED <<active, taskCommands, phase, alive>>
    BY <1>10 DEF Timeout, Finish, registryVars, instanceVars
  <2>2. \A j \in Instances : Live(j)' => Live(j)
    BY <2>1 DEF Live
  <2>3. ASSUME NEW j \in Instances
        PROVE  /\ gaveUp[j] => gaveUp'[j]
               /\ cmd[cur].type = "stop" /\ j \in outChannels \ HasAnswered => gaveUp'[j]
    BY <1>10 DEF Timeout, HasAnswered, TypeOK
  <2>4. \A j \in Instances : BeingStopped(j) => gaveUp'[j]
    BY <2>3 DEF BeingStopped
  <2> QED
    BY <2>1, <2>2, <2>3, <2>4, SupervisedQuiet
<1>11. ASSUME NEW i \in Instances, Started(i) PROVE Supervised'
  <2>1. UNCHANGED <<active, taskCommands, gaveUp, outChannels, cur>> /\ (rpc # "idle" => rpc' # "idle")
    BY <1>11 DEF Started, registryVars, broadcastVars
  <2>2. cur # None => got'[cur] = got[cur]
    BY <1>11 DEF Started, clientVars, BroadcastInv
  <2>3. \A j \in Instances : Live(j)' => Live(j)
    BY <1>11 DEF Started, instanceVars, Live, TypeOK
  <2>4. \A j \in Instances : Live(j)' => Live(j)
    BY <2>3 DEF Live
  <2> QED
    BY <2>1, <2>2, <2>4, StillBeingStopped, SupervisedQuiet
<1>12. ASSUME NEW i \in Instances, TakeCommand(i) PROVE Supervised'
  <2>1. UNCHANGED <<active, taskCommands, gaveUp, outChannels, cur>> /\ (rpc # "idle" => rpc' # "idle")
    BY <1>12 DEF TakeCommand, registryVars, broadcastVars
  <2>2. cur # None => got'[cur] = got[cur]
    BY <1>12 DEF TakeCommand, clientVars, BroadcastInv
  <2>3. \A j \in Instances : Live(j)' => Live(j)
    BY <1>12 DEF TakeCommand, instanceVars, Live, TypeOK
  <2>4. \A j \in Instances : Live(j)' => Live(j)
    BY <2>3 DEF Live
  <2> QED
    BY <2>1, <2>2, <2>4, StillBeingStopped, SupervisedQuiet
<1>13. ASSUME NEW i \in Instances, WorkersStopped(i) PROVE Supervised'
  <2>1. UNCHANGED <<active, taskCommands, gaveUp, outChannels, cur>> /\ (rpc # "idle" => rpc' # "idle")
    BY <1>13 DEF WorkersStopped, registryVars, broadcastVars
  <2>2. cur # None => got'[cur] = got[cur]
    BY <1>13 DEF WorkersStopped, clientVars, BroadcastInv
  <2>3. \A j \in Instances : Live(j)' => Live(j)
    BY <1>13 DEF WorkersStopped, instanceVars, Live, TypeOK
  <2>4. \A j \in Instances : Live(j)' => Live(j)
    BY <2>3 DEF Live
  <2> QED
    BY <2>1, <2>2, <2>4, StillBeingStopped, SupervisedQuiet
<1>14. ASSUME NEW i \in Instances, ReplyMore(i) PROVE Supervised'
  <2>1. /\ phase[i] = "replying" /\ rpc = "collect" /\ hand[i] = cur
        /\ got' = [got EXCEPT ![cur] = got[cur] \cup {AnswerOf(i)}]
        /\ phase'[i] # "starting" /\ \A j \in Instances \ {i} : phase'[j] = phase[j]
        /\ UNCHANGED <<active, taskCommands, alive, gaveUp>>
    BY <1>14 DEF ReplyMore, Replied, Finish, Close, registryVars, TypeOK
  <2>2. /\ {a.from : a \in got'[cur]} = HasAnswered \cup {i} /\ i \in outChannels \ HasAnswered
        /\ IsFiniteSet(outChannels \ HasAnswered)
    BY <2>1, AnswerCounted
  <2>3. \A j \in Instances : Live(j)' => Live(j)
    BY <2>1 DEF Live
  <2>4. BeingStopped(i) => ~Live(i)'
    BY <2>1 DEF BeingStopped, DeadInv, IsStop, Live
  <2>5. ASSUME NEW j \in Instances \ {i}, BeingStopped(j) PROVE BeingStopped(j)'
    <3>1. UNCHANGED <<rpc, cur, cmd, outChannels>>
      BY <1>14 DEF ReplyMore
    <3>2. HasAnswered' = HasAnswered \cup {i}
      BY <2>2, <3>1 DEF HasAnswered
    <3> QED
      BY <2>5, <3>1, <3>2 DEF BeingStopped
  <2> QED
    BY <2>1, <2>3, <2>4, <2>5, SupervisedQuiet
<1>15. ASSUME NEW i \in Instances, ReplyLast(i) PROVE Supervised'
  <2>1. /\ phase[i] = "replying" /\ rpc = "collect" /\ hand[i] = cur
        /\ got' = [got EXCEPT ![cur] = got[cur] \cup {AnswerOf(i)}]
        /\ phase'[i] # "starting" /\ \A j \in Instances \ {i} : phase'[j] = phase[j]
        /\ UNCHANGED <<active, taskCommands, alive, gaveUp>>
    BY <1>15 DEF ReplyLast, Replied, Finish, Close, registryVars, TypeOK
  <2>2. /\ {a.from : a \in got'[cur]} = HasAnswered \cup {i} /\ i \in outChannels \ HasAnswered
        /\ IsFiniteSet(outChannels \ HasAnswered)
    BY <2>1, AnswerCounted
  <2>3. \A j \in Instances : Live(j)' => Live(j)
    BY <2>1 DEF Live
  <2>4. BeingStopped(i) => ~Live(i)'
    BY <2>1 DEF BeingStopped, DeadInv, IsStop, Live
  <2>5. ASSUME NEW j \in Instances \ {i}, BeingStopped(j) PROVE BeingStopped(j)'
    <3>1. cnt = 1
      BY <1>15 DEF ReplyLast, CountInv, TypeOK
    <3>2. outChannels \ HasAnswered = {i}
      BY <2>1, <2>2, <3>1, OneLess DEF CountInv
    <3> QED
      BY <2>5, <3>2 DEF BeingStopped
  <2> QED
    BY <2>1, <2>3, <2>4, <2>5, SupervisedQuiet
<1>16. ASSUME NEW i \in Instances, ReplyTooLate(i) PROVE Supervised'
  <2>1. UNCHANGED <<active, taskCommands, gaveUp, outChannels, cur>> /\ (rpc # "idle" => rpc' # "idle")
    BY <1>16 DEF ReplyTooLate, Replied, registryVars, broadcastVars
  <2>2. cur # None => got'[cur] = got[cur]
    BY <1>16 DEF ReplyTooLate, Replied, clientVars, BroadcastInv
  <2>3. \A j \in Instances : Live(j)' => Live(j)
    BY <1>16 DEF ReplyTooLate, Replied, instanceVars, Live, TypeOK
  <2>4. \A j \in Instances : Live(j)' => Live(j)
    BY <2>3 DEF Live
  <2> QED
    BY <2>1, <2>2, <2>4, StillBeingStopped, SupervisedQuiet
<1>17. ASSUME NEW i \in Instances, Hang(i) PROVE Supervised'
  <2>1. UNCHANGED <<active, taskCommands, gaveUp, outChannels, cur>> /\ (rpc # "idle" => rpc' # "idle")
    BY <1>17 DEF Hang, registryVars, broadcastVars
  <2>2. cur # None => got'[cur] = got[cur]
    BY <1>17 DEF Hang, clientVars, BroadcastInv
  <2>3. \A j \in Instances : Live(j)' => Live(j)
    BY <1>17 DEF Hang, instanceVars, Live, TypeOK
  <2>4. \A j \in Instances : Live(j)' => Live(j)
    BY <2>3 DEF Live
  <2> QED
    BY <2>1, <2>2, <2>4, StillBeingStopped, SupervisedQuiet
<1> QED
  BY <1>1, <1>2, <1>3, <1>4, <1>5, <1>6, <1>7, <1>8, <1>9, <1>10, <1>11, <1>12, <1>13, <1>14, <1>15, <1>16, <1>17, NextCases

-----------------------------------------------------------------------------
(* The theorems *)

LEMMA InvInit == Init => Inv
<1> SUFFICES ASSUME Init PROVE Inv
  OBVIOUS
<1> USE Ids
<1>1. TypeOK
  BY DEF Init, TypeOK, Phases
<1>2. \A i \in Instances : Pending(i) = {} /\ ~alive[i] /\ queue[i] = << >> /\ hand[i] = None
  BY EntriesOf DEF Init, Pending
<1>3. \A r \in Commands : got[r] = {} /\ client[r] = "new" /\ cmd[r] = NoCommand
  BY DEF Init
<1>4. /\ rpc = "idle" /\ cur = None /\ outChannels = {} /\ toSend = {} /\ cnt = 0
      /\ inbox = << >> /\ sig = "none"
  BY DEF Init
<1>5. /\ \A i \in Instances : phase[i] = IF i \in AutoStart THEN "starting" ELSE "none"
      /\ \A t \in Tasks : active[t] = (t \in AutoStart)
      /\ \A t \in Tasks : taskCommands[t] = IF t \in AutoStart THEN t ELSE None
  BY DEF Init
<1>6. ClientInv
  BY <1>3, <1>4, EntriesOf DEF ClientInv
<1>7. BroadcastInv
  BY <1>4 DEF BroadcastInv
<1>8. InstanceInv
  BY <1>2, <1>4, <1>5 DEF InstanceInv
<1>9. PendingInv
  BY <1>2 DEF PendingInv
<1>10. OwnerInv
  BY <1>2, <1>4, <1>5 DEF OwnerInv, Owner
<1>11. StopInv
  BY <1>2, <1>4, <1>5 DEF StopInv, Stopped
<1>12. NothingAfterStop
  BY <1>2 DEF NothingAfterStop
<1>13. OnceInv
  BY <1>2, <1>4, EntriesOf DEF OnceInv
<1>14. CountInv
  BY <1>4 DEF CountInv
<1>15. FromInv /\ AnswersToTheirOwn
  BY <1>3 DEF FromInv, AnswersToTheirOwn
<1>16. StartedInv
  BY <1>5 DEF StartedInv, Owner
<1>17. DeadInv
  BY <1>5 DEF DeadInv
<1>18. Supervised
  BY <1>2, <1>5 DEF Supervised, InCharge, Owner
<1> QED
  BY <1>1, <1>6, <1>7, <1>8, <1>9, <1>10, <1>11, <1>12, <1>13, <1>14, <1>15, <1>16,
     <1>17, <1>18 DEF Inv

LEMMA InvStep == Inv /\ [Next]_vars => Inv'
BY TypeStep, ClientStep, BroadcastStep, InstancesStep, PendingStep, OwnerStep, StopStep,
   NothingStep, OnceStep, CountStep, AnswersStep, StartedStep, DeadStep, SupervisedStep
   DEF Inv

LEMMA Invariance == Spec => []Inv
BY InvInit, InvStep, PTL DEF Spec

\* Every variable of the Runner, its clients and its instances keeps its type.
THEOREM RunnerTypeCorrect == Spec => []TypeOK
<1>1. Inv => TypeOK
  BY DEF Inv
<1> QED
  BY <1>1, Invariance, PTL

\* The Runner puts nothing in the channel of an instance behind a stop, whatever
\* is asked of it and whatever times out: run() leaves no command unread.
THEOREM NothingBehindStop == Spec => []NothingAfterStop
<1>1. Inv => NothingAfterStop
  BY DEF Inv
<1> QED
  BY <1>1, Invariance, PTL

\* A client is never given the answer to another command, nor that of another
\* task than the one it named, however late an instance answers.
THEOREM OwnAnswersOnly == Spec => []AnswersToTheirOwn
<1>1. Inv => AnswersToTheirOwn
  BY DEF Inv
<1> QED
  BY <1>1, Invariance, PTL

\* An instance with processes is the one the Runner has for its task, or is being
\* stopped, or its stop timed out.
THEOREM AllSupervised == Spec => []Supervised
<1>1. Inv => Supervised
  BY DEF Inv
<1> QED
  BY <1>1, Invariance, PTL

\* Broadcast() counts the answers and does not look at who gives them; still it
\* only ends without a timeout when every instance it went to has given one.
THEOREM CountingIsEnough == Spec => AnswersComplete
<1> DEFINE Complete ==
      rpc = "collect" /\ rpc' = "idle" =>
        \/ Says("timeout", cur) \in got'[cur]
        \/ {a.from : a \in got'[cur]} = outChannels
<1>1. ASSUME Inv, [Next]_vars PROVE Complete
  <2> SUFFICES ASSUME rpc = "collect", rpc' = "idle"
               PROVE  \/ Says("timeout", cur) \in got'[cur]
                      \/ {a.from : a \in got'[cur]} = outChannels
    OBVIOUS
  <2>0. TypeOK /\ BroadcastInv /\ CountInv
    BY <1>1 DEF Inv
  <2>1. cur \in Commands
    BY <2>0 DEF TypeOK, BroadcastInv
  <2>2. CASE Timeout
    <3>1. got' = [got EXCEPT ![cur] = @ \cup {Says("timeout", cur)}]
      BY <2>2 DEF Timeout, Finish, Close
    <3>2. got'[cur] = got[cur] \cup {Says("timeout", cur)}
      BY <2>0, <2>1, <3>1 DEF TypeOK
    <3> QED
      BY <3>2
  <2>3. ASSUME NEW i \in Instances, ReplyLast(i) PROVE {a.from : a \in got'[cur]} = outChannels
    <3>1. /\ hand[i] = cur /\ ~(cnt > 1)
          /\ got' = [got EXCEPT ![cur] = @ \cup {AnswerOf(i)}]
      BY <2>3 DEF ReplyLast, Finish, Close
    <3>2. /\ i \in outChannels \ HasAnswered /\ IsFiniteSet(outChannels \ HasAnswered)
          /\ {a.from : a \in got'[cur]} = HasAnswered \cup {i}
      BY <1>1, <3>1, AnswerCounted
    <3>3. cnt = 1
      BY <2>0, <3>1 DEF TypeOK, CountInv
    <3>4. outChannels \ HasAnswered = {i} /\ HasAnswered \subseteq outChannels
      BY <2>0, <3>2, <3>3, OneLess DEF CountInv
    <3> QED
      BY <3>2, <3>4
  <2>4. ASSUME NEW r \in Requests, Type(r) PROVE FALSE
    BY <2>4, TypeCases, <2>0 DEF TypeOK, broadcastVars
  <2>5. ~UNCHANGED vars /\ ~FirstStop /\ ~SecondStop /\ ~SignalOnly /\ ~SendOne
    BY DEF vars, broadcastVars, FirstStop, SecondStop, SignalOnly, Interrupt, Exit, SendOne
  <2>6. ASSUME NEW r \in Commands, Answered(r) \/ Start(r) \/ Relay(r) PROVE FALSE
    BY <2>6 DEF Answered, Start, Answer, Relay, Receive
  <2>7. ASSUME NEW i \in Instances,
               \/ Started(i) \/ TakeCommand(i) \/ WorkersStopped(i)
               \/ ReplyMore(i) \/ ReplyTooLate(i) \/ Hang(i)
        PROVE  FALSE
    BY <2>7 DEF Started, TakeCommand, WorkersStopped, ReplyMore, ReplyTooLate, Hang, broadcastVars
  <2> QED
    BY <1>1, <2>2, <2>3, <2>4, <2>5, <2>6, <2>7, NextCases
<1>2. Inv /\ [Next]_vars => [Complete]_vars
  BY <1>1
<1> QED
  BY <1>2, Invariance, PTL DEF Spec, AnswersComplete

-----------------------------------------------------------------------------
(* What is typed *)

\* A slash at the end costs a path its last segment.
LEMMA Segments ==
  ASSUME NEW S, NEW path \in Seq(S), path # << >>
  PROVE  IF path[Len(path)] = Empty
         THEN Len(WithoutSlash(path)) = Len(path) - 1
         ELSE WithoutSlash(path) = path
<1> DEFINE n == Len(path) - 1
<1>1. 1 \in Int /\ n \in Int /\ n - 1 + 1 = n /\ n >= 0 /\ \A k \in 1..n : path[k] \in S
  OBVIOUS
<1> HIDE DEF n
<1>2. Len(SubSeq(path, 1, n)) = IF 1 <= n THEN n - 1 + 1 ELSE 0
  BY <1>1, SubSeqProperties
<1>3. Len(SubSeq(path, 1, n)) = n
  BY <1>1, <1>2
<1> QED
  BY <1>3, Zenon DEF WithoutSlash, n

\* The routes of each request that changes what the Runner has running.
LEMMA RouteOfStop ==
  ASSUME NEW name, NEW route \in RoutesOf(StopUrl(name))
  PROVE  route.type = "stop" /\ Len(route.path) = IF name = Empty THEN 1 ELSE 2
<1> DEFINE path == <<"tasks", name>>
<1>1. StopUrl(name).method = "DELETE" /\ StopUrl(name).path = path
  BY DEF StopUrl, Http
<1>2. path \in Seq({"tasks", name}) /\ path # << >> /\ path[Len(path)] = name /\ Len(path) = 2
  OBVIOUS
<1> HIDE DEF path
<1>3. Len(WithoutSlash(path)) = IF name = Empty THEN 1 ELSE 2
  <2>1. IF path[Len(path)] = Empty
        THEN Len(WithoutSlash(path)) = Len(path) - 1 ELSE WithoutSlash(path) = path
    BY <1>2, Segments, Zenon
  <2> QED
    BY <1>2, <2>1
<1>4. route \in Routes /\ "DELETE" \in route.methods /\ Len(route.path) = Len(WithoutSlash(path))
  BY <1>1 DEF RoutesOf, Matches
<1>5. route.type = "stop"
  BY <1>4 DEF Routes
<1> QED
  BY <1>3, <1>4, <1>5

LEMMA RouteOfStart ==
  ASSUME NEW name, NEW route \in RoutesOf(StartUrl(name))
  PROVE  route.type = "start" /\ Len(route.path) = 3
<1> DEFINE path == <<"tasks", name, "start">>
<1>1. StartUrl(name).method = "POST" /\ StartUrl(name).path = path
  BY DEF StartUrl, Http
<1>2. path \in Seq({"tasks", name, "start"}) /\ path # << >> /\ path[Len(path)] = "start"
      /\ Len(path) = 3 /\ path[3] = "start"
  OBVIOUS
<1> HIDE DEF path
<1>3. WithoutSlash(path) = path
  BY <1>2, Segments DEF Empty
<1>4. /\ route \in Routes /\ "POST" \in route.methods /\ Len(route.path) = 3
      /\ \A k \in 1..3 : route.path[k] = path[k] \/ route.path[k] \in Wildcards
  BY <1>1, <1>2, <1>3 DEF RoutesOf, Matches
<1>5. route.path[3] \in {"start"} \cup Wildcards
  BY <1>2, <1>4
<1>6. route.type = "start"
  BY <1>4, <1>5 DEF Routes, Wildcards
<1> QED
  BY <1>4, <1>6

\* The others neither stop nor start anything.
LEMMA RouteOfOthers ==
  ASSUME NEW name, NEW param, NEW v,
         NEW request \in {ListUrl, ListWorkersUrl(name), StatusUrl(name), SetUrl(name, param, v)},
         NEW route \in RoutesOf(request)
  PROVE  route.type \notin {"stop", "start"}
<1>1. ASSUME request \in {ListUrl, StatusUrl(name), ListWorkersUrl(name)}, route.type \in {"start", "stop"} PROVE FALSE
  <2>1. request.method = "GET"
    BY <1>1 DEF ListUrl, StatusUrl, ListWorkersUrl, Http
  <2>2. /\ route \in Routes /\ "GET" \in route.methods
        /\ Matches(route.path, WithoutSlash(request.path))
    BY <2>1 DEF RoutesOf
  <2>3. route.type = "start" /\ route.path = <<"tasks", ":id", "start">>
    BY <1>1, <2>2 DEF Routes
  <2>4. Len(WithoutSlash(request.path)) = 3 /\ WithoutSlash(request.path)[3] = "start"
    <3>1. Len(route.path) = 3 /\ route.path[3] = "start"
      BY <2>3
    <3> QED
      BY <2>2, <3>1 DEF Matches, Wildcards
  <2>5. CASE request = ListUrl
    <3>1. request.path = <<"list">> /\ request.path \in Seq({"list"}) /\ request.path # << >>
      BY <2>5 DEF ListUrl, Http
    <3>2. Len(request.path) = 1
      BY <3>1
    <3>3. IF request.path[Len(request.path)] = Empty
          THEN Len(WithoutSlash(request.path)) = Len(request.path) - 1
          ELSE WithoutSlash(request.path) = request.path
      BY <3>1, Segments, Zenon
    <3> QED
      BY <2>4, <3>2, <3>3
  <2>6. CASE request = StatusUrl(name)
    <3>1. request.path = <<"tasks", name>> /\ request.path \in Seq({"tasks", name}) /\ request.path # << >>
      BY <2>6 DEF StatusUrl, Http
    <3>2. Len(request.path) = 2
      BY <3>1
    <3>3. IF request.path[Len(request.path)] = Empty
          THEN Len(WithoutSlash(request.path)) = Len(request.path) - 1
          ELSE WithoutSlash(request.path) = request.path
      BY <3>1, Segments, Zenon
    <3> QED
      BY <2>4, <3>2, <3>3
  <2>7. CASE request = ListWorkersUrl(name)
    <3>1. request.path = <<"tasks", name, "list">> /\ request.path \in Seq({"tasks", name, "list"}) /\ request.path # << >>
      BY <2>7 DEF ListWorkersUrl, Http
    <3>2. Len(request.path) = 3 /\ request.path[3] = "list"
      BY <3>1
    <3> QED
      BY <2>4, <3>1, <3>2, Segments DEF Empty
  <2> QED
    BY <1>1, <2>5, <2>6, <2>7
<1>2. ASSUME request = SetUrl(name, param, v), route.type \in {"start", "stop"} PROVE FALSE
  <2>1. request.path = <<"tasks", name, "set", param, v>> /\ request.path # << >>
        /\ request.path \in Seq({"tasks", name, "set", param, v})
    BY <1>2 DEF SetUrl, Http
  <2>2. Len(request.path) = 5
    BY <2>1
  <2>3. IF request.path[Len(request.path)] = Empty
        THEN Len(WithoutSlash(request.path)) = Len(request.path) - 1
        ELSE WithoutSlash(request.path) = request.path
    BY <2>1, Segments, Zenon
  <2>4. route \in Routes /\ Len(route.path) \in {4, 5}
    BY <2>2, <2>3 DEF RoutesOf, Matches
  <2>5. route.path \in {<<"tasks", ":id", "start">>, <<"tasks">>, <<"tasks", ":id">>, <<"tasks", ":id", "stop">>}
    BY <1>2, <2>4 DEF Routes
  <2>6. Len(route.path) \in 1..3
    BY <2>5
  <2> QED
    BY <2>4, <2>6
<1> QED
  BY <1>1, <1>2

\* The request of a line.
LEMMA RequestOfLine ==
  ASSUME NEW l \in Lines
  PROVE  \/ l[1] = "start" /\ HttpRequest(l) = StartUrl(Param(l, 1))
         \/ l[1] = "stop" /\ HttpRequest(l) = StopUrl(Param(l, 1))
         \/ HttpRequest(l) \in {ListUrl, ListWorkersUrl(Param(l, 1)), StatusUrl(Param(l, 1)),
                                SetUrl(Param(l, 1), Param(l, 2), Param(l, 3))}
<1>1. l[1] \in Words
  BY LinesAssumption DEF WellTyped
<1> QED
  BY <1>1 DEF Words, HttpRequest

\* A line that gives a stop, or a start, is the one typed for it.
LEMMA StopAndStartLines ==
  ASSUME NEW l \in Lines, RoutesOf(HttpRequest(l)) # {}
  PROVE  LET c == CommandOf(HttpRequest(l)) IN
         /\ c.type = "stop" => \/ c.task = NoTask /\ l = <<"stop">>
                               \/ c.task # NoTask /\ l = <<"stop", c.task>>
         /\ c.type = "start" => l = <<"start", c.task>>
<1> DEFINE request == HttpRequest(l)
           route == CHOOSE r \in RoutesOf(request) : TRUE
           c == CommandOf(request)
           name == Param(l, 1)
<1>0. SUFFICES /\ c.type = "stop" => \/ c.task = NoTask /\ l = <<"stop">>
                                     \/ c.task # NoTask /\ l = <<"stop", c.task>>
               /\ c.type = "start" => l = <<"start", c.task>>
  BY Zenon
<1>1. route \in RoutesOf(request)
  OBVIOUS
<1>2. c.type = route.type /\ c.task = IF Len(route.path) > 1 THEN request.path[2] ELSE NoTask
  BY DEF CommandOf
<1>3. request = HttpRequest(l) /\ name = Param(l, 1)
      /\ c = CommandOf(HttpRequest(l))
  OBVIOUS
<1> HIDE DEF request, route, c, name
<1>4. Len(l) \in Nat /\ Len(l) # 0 /\ l \in Seq(Tasks \cup STRING)
      /\ \A k \in 2..Len(l) : l[k] \notin {Empty, NoTask}
  BY LinesAssumption DEF WellTyped
<1>5. ASSUME l[1] \in {"start", "stop"}
      PROVE  \/ l = <<l[1]>> /\ name = Empty
             \/ l = <<l[1], name>> /\ name \notin {Empty, NoTask}
  <2>0. Len(l) <= 2
    BY <1>5, LinesAssumption DEF WellTyped
  <2>1. Len(l) = 1 \/ Len(l) = 2
    <3>1. Len(l) \in Nat /\ Len(l) # 0
      BY <1>4
    <3>2. \A n \in Nat : n # 0 /\ n <= 2 => n = 1 \/ n = 2
      OBVIOUS
    <3> QED
      BY <2>0, <3>1, <3>2, Zenon
  <2>2. CASE Len(l) = 1
    BY <1>3, <1>4, <2>2 DEF Param
  <2>3. CASE Len(l) = 2
    BY <1>3, <1>4, <2>3 DEF Param
  <2> QED
    BY <2>1, <2>2, <2>3
<1>6. CASE l[1] = "start" /\ request = StartUrl(name)
  <2>1. route.type = "start" /\ Len(route.path) = 3
    BY <1>1, <1>6, RouteOfStart
  <2>2. request.path = <<"tasks", name, "start">>
    BY <1>6 DEF StartUrl, Http
  <2>3. c.task = name
    BY <1>2, <2>1, <2>2
  <2>4. name # Empty
    <3>1. SUFFICES ASSUME name = Empty PROVE FALSE
      OBVIOUS
    <3>2. request.path \in Seq({"tasks", name, "start"}) /\ request.path # << >>
          /\ request.path[3] = "start" /\ Len(request.path) = 3 /\ request.path[2] = Empty
      BY <2>2, <3>1
    <3>3. WithoutSlash(request.path) = request.path
      BY <3>2, Segments DEF Empty
    <3>4. Matches(route.path, request.path) /\ route \in Routes
      BY <1>1, <3>3 DEF RoutesOf
    <3>5. route.path[2] = Empty
      BY <3>2, <3>4 DEF Matches
    <3>6. route.path = <<"tasks", ":id", "start">>
      BY <2>1, <3>4 DEF Routes
    <3> QED
      BY <3>5, <3>6 DEF Empty
  <2> QED
    BY <1>2, <1>5, <1>6, <2>1, <2>3, <2>4
<1>7. CASE l[1] = "stop" /\ request = StopUrl(name)
  <2>1. route.type = "stop" /\ Len(route.path) = IF name = Empty THEN 1 ELSE 2
    BY <1>1, <1>7, RouteOfStop
  <2>2. request.path = <<"tasks", name>>
    BY <1>7 DEF StopUrl, Http
  <2>3. c.task = IF name = Empty THEN NoTask ELSE name
    BY <1>2, <2>1, <2>2
  <2> QED
    BY <1>2, <1>5, <1>7, <2>1, <2>3
<1>8. CASE request \in {ListUrl, ListWorkersUrl(name), StatusUrl(name), SetUrl(name, Param(l, 2), Param(l, 3))}
  BY <1>1, <1>2, <1>8, RouteOfOthers
<1> QED
  BY <1>3, <1>6, <1>7, <1>8, RequestOfLine

\* The command of a request is the one its line gives.
LineInv ==
  \A r \in Requests : cmd[r] # NoCommand =>
    /\ client[r] # "new"
    /\ line[r] \in Lines /\ RoutesOf(HttpRequest(line[r])) # {}
    /\ cmd[r] = CommandOf(HttpRequest(line[r]))

\* Steps in which nobody types, and no client becomes new.
LEMMA LineQuiet ==
  ASSUME LineInv, UNCHANGED line,
         \A r \in Requests : cmd'[r] = cmd[r] /\ (client[r] # "new" => client'[r] # "new")
  PROVE  LineInv'
BY DEF LineInv

\* A client types once, before it has a command.
LEMMA LineStep == Inv /\ LineInv /\ [Next]_vars => LineInv'
<1> SUFFICES ASSUME Inv, LineInv, [Next]_vars PROVE LineInv'
  OBVIOUS
<1>0. TypeOK /\ ClientInv /\ BroadcastInv /\ InstanceInv
  BY DEF Inv
<1> USE <1>0, Ids
<1>1. ASSUME NEW r \in Requests, Type(r) PROVE LineInv'
  <2>1. PICK l \in Lines :
          /\ line' = [line EXCEPT ![r] = l]
          /\ \/ /\ RoutesOf(HttpRequest(l)) # {}
                /\ Send(r, CommandOf(HttpRequest(l)))
             \/ NotFound(r)
    BY <1>1, Zenon DEF Type, NotFound
  <2>2. /\ DOMAIN line = Requests /\ DOMAIN cmd = Commands
        /\ client \in [Commands -> {"new", "waiting", "done"}]
    BY DEF TypeOK
  <2>3. line'[r] = l /\ \A x \in Requests \ {r} : line'[x] = line[x]
    BY <2>1, <2>2
  <2>4. \A x \in Requests \ {r} : client'[x] = client[x] /\ cmd'[x] = cmd[x]
    BY <1>1, TypeOthers
  <2>5. cmd[r] = NoCommand
    BY <1>1 DEF Type, LineInv
  <2>6. \/ /\ RoutesOf(HttpRequest(l)) # {}
           /\ cmd'[r] = CommandOf(HttpRequest(l)) /\ client'[r] = "waiting"
        \/ cmd'[r] = NoCommand
    BY <2>1, <2>2, <2>5 DEF Send, NotFound
  <2> QED
    BY <2>3, <2>4, <2>6 DEF LineInv
<1>2. CASE UNCHANGED <<line, cmd, client>>
  BY <1>2, LineQuiet
<1>3. ASSUME NEW s \in Stops, NEW c, Send(s, c), UNCHANGED line PROVE LineInv'
  <2>1. \A r \in Requests : cmd'[r] = cmd[r] /\ client'[r] = client[r]
    BY <1>3 DEF Send, TypeOK
  <2> QED
    BY <1>3, <2>1, LineQuiet
<1>4. ASSUME NEW r \in Commands, NEW A, Close(r, A), UNCHANGED <<line, cmd>> PROVE LineInv'
  <2>1. \A x \in Requests : client[x] # "new" => client'[x] # "new"
    BY <1>4 DEF Close, TypeOK
  <2> QED
    BY <1>4, <2>1, LineQuiet
<1>5. ASSUME NEW r \in Commands, Answered(r) \/ Start(r) PROVE LineInv'
  <2>1. PICK A : Close(r, A) /\ UNCHANGED <<line, cmd>>
    BY <1>5, Zenon DEF Answered, Start, Answer
  <2> QED
    BY <1>4, <2>1
<1>6. ASSUME NEW A, Finish(A), rpc = "collect" PROVE LineInv'
  <2>1. cur \in Commands
    BY <1>6 DEF BroadcastInv, TypeOK
  <2> QED
    BY <1>4, <1>6, <2>1 DEF Finish
<1>7. CASE FirstStop
  BY <1>3, <1>7 DEF FirstStop
<1>8. CASE SecondStop
  BY <1>3, <1>8 DEF SecondStop
<1>9. CASE Timeout
  BY <1>6, <1>9 DEF Timeout
<1>10. ASSUME NEW i \in Instances, ReplyLast(i) PROVE LineInv'
  BY <1>6, <1>10 DEF ReplyLast
<1>11. CASE UNCHANGED vars
  BY <1>2, <1>11 DEF vars, clientVars
<1>12. CASE SignalOnly \/ SendOne
  BY <1>2, <1>12 DEF SignalOnly, Interrupt, Exit, SendOne, clientVars
<1>13. ASSUME NEW r \in Commands, Relay(r) PROVE LineInv'
  BY <1>2, <1>13 DEF Relay, clientVars
<1>14. ASSUME NEW i \in Instances,
              \/ Started(i) \/ TakeCommand(i) \/ WorkersStopped(i)
              \/ ReplyMore(i) \/ ReplyTooLate(i) \/ Hang(i)
       PROVE  LineInv'
  BY <1>2, <1>14 DEF Started, TakeCommand, WorkersStopped, ReplyMore, ReplyTooLate, Hang, clientVars
<1> QED
  BY <1>1, <1>5, <1>7, <1>8, <1>9, <1>10, <1>11, <1>12, <1>13, <1>14, NextCases

\* Only Start() makes a task active, and only Relay() makes one inactive.
LEMMA ActiveSteps ==
  ASSUME Inv, [Next]_vars
  PROVE  UNCHANGED active \/ \E r \in Commands : Start(r) \/ Relay(r)
<1>1. ASSUME NEW r \in Requests, Type(r) PROVE UNCHANGED active
  BY <1>1 DEF Type, registryVars
<1>2. ASSUME NEW r \in Commands, Answered(r) PROVE UNCHANGED active
  BY <1>2 DEF Answered, registryVars
<1>3. ASSUME NEW i \in Instances,
              \/ Started(i) \/ TakeCommand(i) \/ WorkersStopped(i)
              \/ ReplyMore(i) \/ ReplyLast(i) \/ ReplyTooLate(i) \/ Hang(i)
      PROVE   UNCHANGED active
  BY <1>3 DEF Started, TakeCommand, WorkersStopped, ReplyMore, ReplyLast, Finish,
              ReplyTooLate, Hang, registryVars
<1>4. \/ UNCHANGED vars \/ FirstStop \/ SecondStop \/ SignalOnly \/ SendOne \/ Timeout
      => UNCHANGED active
  BY DEF vars, FirstStop, SecondStop, SignalOnly, Interrupt, Exit, SendOne, Timeout, Finish, registryVars
<1> QED
  BY <1>1, <1>2, <1>3, <1>4, NextCases, Zenon

\* What was typed is what happens, for any lines: a task stops being active for a
\* line that stops it or all, or for a signal, and starts for its own start.
THEOREM WhatWasTyped == Spec => ActiveAsAsked
<1> DEFINE AsAsked ==
      \A t \in Tasks :
        /\ active[t] /\ ~active'[t] => cur' \in Stops \/ AsTyped(line[cur'], t)
        /\ ~active[t] /\ active'[t] => line[Head(inbox)] = <<"start", t>>
<1>1. Init => LineInv
  BY Ids DEF Init, LineInv
<1>2. ASSUME Inv, LineInv, [Next]_vars PROVE AsAsked
  <2>0. TypeOK /\ ClientInv /\ active \in [Tasks -> BOOLEAN]
    BY <1>2 DEF Inv, TypeOK
  <2>1. CASE UNCHANGED active
    BY <2>1
  <2>2. ASSUME NEW r \in Commands, Start(r) PROVE AsAsked
    <3>1. r \in Requests /\ cmd[r].task \in Tasks
      BY <2>0, <2>2, Starters
    <3>2. cmd[r].type = "start" /\ r = Head(inbox) /\ active' = [active EXCEPT ![cmd[r].task] = TRUE]
      BY <2>2 DEF Start, Answer, Receive
    <3>3. line[r] = <<"start", cmd[r].task>>
      BY <1>2, <3>1, <3>2, StopAndStartLines DEF LineInv, NoCommand
    <3>4. \A t \in Tasks : active'[t] = (active[t] \/ t = cmd[r].task)
      BY <2>0, <3>1, <3>2
    <3> QED
      BY <3>2, <3>3, <3>4
  <2>3. ASSUME NEW r \in Commands, Relay(r) PROVE AsAsked
    <3>1. /\ cur' = r
          /\ \A t \in Tasks : active'[t] =
               (active[t] /\ ~(cmd[r].type = "stop" /\ cmd[r].task \in {t, NoTask}))
      BY <2>3 DEF Relay, MarkInactive
    <3>2. ASSUME r \in Requests, cmd[r].type = "stop"
          PROVE  \/ cmd[r].task = NoTask /\ line[r] = <<"stop">>
                 \/ cmd[r].task # NoTask /\ line[r] = <<"stop", cmd[r].task>>
      BY <1>2, <3>2, StopAndStartLines DEF LineInv, NoCommand
    <3> QED
      BY <3>1, <3>2, Ids DEF AsTyped
  <2> QED
    BY <1>2, <2>1, <2>2, <2>3, ActiveSteps
<1>3. Inv /\ LineInv /\ [Next]_vars => [AsAsked]_vars
  BY <1>2
<1> QED
  BY <1>1, <1>3, LineStep, Invariance, PTL DEF Spec, ActiveAsAsked

-----------------------------------------------------------------------------
(* The abstract specification *)

\* The state of module Supervisor, see ImplementsSupervisor.
LifeMap == [i \in Instances |-> Life(i)]
TaskMap == [i \in Instances |-> IF phase[i] = "none" THEN None ELSE Owner(i)]
promiseVars == <<LifeMap, TaskMap, alive>>

\* What was given up on is not the Runner's any more.
AbandonedInv == \A i \in Instances : gaveUp[i] => Life(i) = "abandoned"

\* Only a stop makes an instance end its processes.
StoppingInv == \A i \in Instances : phase[i] = "stopping" => hand[i] # None /\ IsStop(hand[i])

\* A stop is under way for the instances that are being stopped, and no others.
LEMMA StoppingAre ==
  ASSUME Inv, NEW i \in Instances
  PROVE  /\ BeingStopped(i) => phase[i] # "none" /\ ~InCharge(i)
         /\ Life(i) = "stopping" <=> BeingStopped(i)
         /\ Life(i) = "running" <=> phase[i] # "none" /\ InCharge(i)
         /\ Life(i) = "none" <=> phase[i] = "none"
         /\ Life(i) = "abandoned" => gaveUp[i]
<1>0. TypeOK /\ BroadcastInv /\ InstanceInv /\ StopInv /\ StartedInv
  BY DEF Inv
<1>1. ASSUME BeingStopped(i) PROVE phase[i] # "none" /\ ~InCharge(i)
  <2>1. i \in outChannels /\ cur # None /\ IsStop(cur)
    BY <1>0, <1>1 DEF BeingStopped, BroadcastInv, IsStop
  <2>2. phase[i] # "none"
    BY <1>0, <2>1 DEF InstanceInv
  <2>3. Owner(i) \in Tasks
    BY <1>0, <2>2 DEF StartedInv
  <2> QED
    BY <1>0, <2>1, <2>2, <2>3 DEF StopInv, InCharge
<1> QED
  BY <1>1, Zenon DEF Life

\* What a step leaves as it is when it is not about the registry or a stop.
LEMMA LifeSame ==
  ASSUME Inv, [Next]_vars, NEW i \in Instances,
         (phase'[i] = "none") <=> (phase[i] = "none"),
         phase[i] # "none" => (InCharge(i)' <=> InCharge(i)),
         BeingStopped(i)' <=> BeingStopped(i),
         gaveUp'[i] <=> gaveUp[i]
  PROVE  Life(i)' = Life(i) /\ TaskMap'[i] = TaskMap[i]
<1>1. phase[i] # "none" => Owner(i)' = Owner(i)
  BY Stable DEF Inv
<1>2. Life(i)' = Life(i)
  BY Zenon DEF Life
<1>3. TaskMap'[i] = TaskMap[i]
  BY <1>1 DEF TaskMap
<1> QED
  BY <1>2, <1>3

LEMMA InChargeSame ==
  ASSUME Inv, [Next]_vars, UNCHANGED <<active, taskCommands>>
  PROVE  \A i \in Instances : phase[i] # "none" => (InCharge(i)' <=> InCharge(i))
<1>1. \A i \in Instances : phase[i] # "none" => Owner(i)' = Owner(i)
  BY Stable DEF Inv
<1> QED
  BY <1>1 DEF InCharge

\* Steps in which the abstract state does not change, or only the processes do.
LEMMA PromiseQuiet ==
  ASSUME Inv, [Next]_vars, UNCHANGED <<active, taskCommands, gaveUp>>,
         \A i \in Instances : (phase'[i] = "none") <=> (phase[i] = "none"),
         \A i \in Instances : BeingStopped(i)' <=> BeingStopped(i)
  PROVE  LifeMap' = LifeMap /\ TaskMap' = TaskMap /\ \A i \in Instances : Life(i)' = Life(i)
<1>1. \A i \in Instances : Life(i)' = Life(i) /\ TaskMap'[i] = TaskMap[i]
  BY InChargeSame, LifeSame
<1>2. LifeMap' = LifeMap
  BY <1>1 DEF LifeMap
<1>3. TaskMap' = TaskMap
  BY <1>1 DEF TaskMap
<1> QED
  BY <1>1, <1>2, <1>3

\* A step that is not about the broadcast stops neither more nor less.
LEMMA StopsSame ==
  ASSUME Inv, [Next]_vars, UNCHANGED <<outChannels, cur>>,
         rpc # "idle" <=> rpc' # "idle", cur # None => got'[cur] = got[cur]
  PROVE  \A i \in Instances : BeingStopped(i)' <=> BeingStopped(i)
<1>0. TypeOK /\ ClientInv /\ BroadcastInv /\ InstanceInv
  BY DEF Inv
<1>1. CASE rpc = "idle"
  BY <1>1 DEF BeingStopped
<1>2. CASE rpc # "idle"
  <2>1. cur \in Commands /\ cur # None /\ client[cur] # "new"
    BY <1>0, <1>2, Ids DEF BroadcastInv, TypeOK
  <2>2. cmd'[cur] = cmd[cur]
    BY <1>0, <2>1, Stable
  <2>3. HasAnswered' = HasAnswered
    BY <2>1 DEF HasAnswered
  <2> QED
    BY <1>2, <2>2, <2>3 DEF BeingStopped
<1> QED
  BY <1>1, <1>2

LEMMA StoppingStep == Inv /\ StoppingInv /\ [Next]_vars => StoppingInv'
<1> SUFFICES ASSUME Inv, StoppingInv, [Next]_vars,
                    NEW i \in Instances, phase'[i] = "stopping"
             PROVE  hand'[i] # None /\ IsStop(hand[i])'
  BY DEF StoppingInv
<1>0. TypeOK
  BY DEF Inv
<1>1. CASE phase[i] = "stopping" /\ hand'[i] = hand[i]
  <2>1. hand[i] # None /\ cmd'[hand[i]] = cmd[hand[i]]
    BY <1>1, PendingSteady DEF StoppingInv
  <2> QED
    BY <1>1, <2>1 DEF StoppingInv, IsStop
<1>2. CASE UNCHANGED <<phase, hand>>
  BY <1>1, <1>2
<1>3. ASSUME NEW j \in Instances, TakeCommand(j) PROVE hand'[i] # None /\ IsStop(hand[i])'
  <2>1. CASE i = j
    <3>1. hand'[i] = Head(queue[i]) /\ hand'[i] \in Commands
      BY <1>0, <1>3, <2>1, TakeEffect
    <3>2. cmd[Head(queue[i])].type = "stop" /\ cmd' = cmd
      BY <1>0, <1>3, <2>1 DEF TakeCommand, TypeOK, clientVars
    <3> QED
      BY <3>1, <3>2, Ids DEF IsStop
  <2>2. CASE i # j
    BY <1>0, <1>1, <1>3, <2>2 DEF TakeCommand, TypeOK
  <2> QED
    BY <2>1, <2>2
<1>4. ASSUME NEW j \in Instances, Replied(j) PROVE hand'[i] # None /\ IsStop(hand[i])'
  BY <1>0, <1>1, <1>4 DEF Replied, TypeOK
<1>5. ASSUME NEW j \in Instances, Started(j) \/ WorkersStopped(j) \/ Hang(j)
      PROVE  hand'[i] # None /\ IsStop(hand[i])'
  BY <1>0, <1>1, <1>5 DEF Started, WorkersStopped, Hang, TypeOK
<1>6. ASSUME NEW r \in Commands, Start(r) PROVE hand'[i] # None /\ IsStop(hand[i])'
  BY <1>0, <1>1, <1>6 DEF Start, TypeOK
<1>7. ASSUME NEW r \in Commands, Answered(r) \/ Relay(r) PROVE UNCHANGED <<phase, hand>>
  BY <1>7 DEF Answered, Relay, instanceVars
<1>8. ASSUME NEW r \in Requests, Type(r) PROVE UNCHANGED <<phase, hand>>
  BY <1>8 DEF Type, instanceVars
<1>9. \/ UNCHANGED vars \/ FirstStop \/ SecondStop \/ SignalOnly \/ SendOne \/ Timeout
      => UNCHANGED <<phase, hand>>
  BY DEF vars, FirstStop, SecondStop, SignalOnly, Interrupt, Exit, SendOne, Timeout, instanceVars
<1>10. \A j \in Instances : ReplyMore(j) \/ ReplyLast(j) \/ ReplyTooLate(j) => Replied(j)
  BY DEF ReplyMore, ReplyLast, ReplyTooLate
<1> QED
  BY <1>2, <1>3, <1>4, <1>5, <1>6, <1>7, <1>8, <1>9, <1>10, NextCases, Zenon

-----------------------------------------------------------------------------
(* The steps that the abstract specification sees *)

\* A task that is off, with nothing being stopped, gets a fresh instance.
LEMMA StartImplements ==
  ASSUME Inv, AbandonedInv, [Next]_vars, NEW r \in Commands, Start(r),
         NEW t \in Tasks, cmd[r].task = t
  PROVE  Promise!Start(r, t) /\ AbandonedInv'
<1>0. TypeOK /\ ClientInv /\ BroadcastInv /\ InstanceInv /\ StartedInv
  BY DEF Inv
<1>1. r \in Requests /\ r \in Instances /\ r \notin Tasks
  BY <1>0, Starters, Ids
<1>2. /\ rpc = "idle" /\ ~active[t] /\ UNCHANGED <<cmd, rpc, gaveUp, alive>>
      /\ active' = [active EXCEPT ![t] = TRUE]
      /\ taskCommands' = [taskCommands EXCEPT ![t] = r]
      /\ phase' = [phase EXCEPT ![r] = "starting"]
  BY DEF Start, Answer, Receive, broadcastVars
<1>3. phase[r] = "none"
  <2>1. r \in Entries(inbox)
    BY <1>0, ReceiveEffect DEF Start, Answer
  <2> QED
    BY <1>0, <1>1, <2>1 DEF ClientInv, InstanceInv
<1>4. \A i \in Instances : ~BeingStopped(i) /\ ~BeingStopped(i)'
  BY <1>2 DEF BeingStopped
<1>5. ASSUME NEW i \in Instances, phase[i] # "none", InCharge(i) PROVE Owner(i) # t
  BY <1>2, <1>5 DEF InCharge
<1>6. phase'[r] = "starting" /\ Owner(r)' = t /\ InCharge(r)'
  <2>1. phase'[r] = "starting" /\ Owner(r)' = t
    BY <1>0, <1>1, <1>2 DEF TypeOK, Owner
  <2>2. active'[t] /\ taskCommands'[t] = r
    BY <1>0, <1>1, <1>2 DEF TypeOK
  <2> QED
    BY <2>1, <2>2 DEF InCharge
<1>7. ASSUME NEW i \in Instances, i # r PROVE Life(i)' = Life(i) /\ TaskMap'[i] = TaskMap[i]
  <2>1. phase'[i] = phase[i]
    BY <1>0, <1>2, <1>7 DEF TypeOK
  <2>2. ASSUME phase[i] # "none" PROVE InCharge(i)' <=> InCharge(i)
    <3>1. Owner(i) \in Tasks /\ Owner(i)' = Owner(i)
      BY <1>0, <2>2, Stable DEF StartedInv
    <3>2. CASE Owner(i) = t
      <4>1. taskCommands'[t] = r
        BY <1>0, <1>1, <1>2 DEF TypeOK
      <4> QED
        BY <1>2, <1>7, <3>1, <3>2, <4>1 DEF InCharge
    <3>3. CASE Owner(i) # t
      <4>1. active'[Owner(i)] = active[Owner(i)] /\ taskCommands'[Owner(i)] = taskCommands[Owner(i)]
        BY <1>0, <1>2, <3>1, <3>3 DEF TypeOK
      <4> QED
        BY <3>1, <4>1 DEF InCharge
    <3> QED
      BY <3>2, <3>3
  <2> QED
    BY <1>2, <1>4, <2>1, <2>2, LifeSame
<1>8. Life(r) = "none" /\ Life(r)' = "running" /\ TaskMap'[r] = t
  BY <1>1, <1>3, <1>6 DEF Life, TaskMap
<1>9. Promise!Start(r, t)
  <2>1. Promise!Stopping = {}
    BY <1>4, StoppingAre DEF Promise!Stopping, LifeMap
  <2>2. Promise!RunningFor({t}) = {}
    BY <1>5, StoppingAre DEF Promise!RunningFor, TaskMap
  <2>3. LifeMap' = [LifeMap EXCEPT ![r] = "running"]
    BY <1>1, <1>7, <1>8 DEF LifeMap
  <2>4. TaskMap' = [TaskMap EXCEPT ![r] = t]
    BY <1>1, <1>7, <1>8 DEF TaskMap
  <2> QED
    BY <1>1, <1>2, <1>8, <2>1, <2>2, <2>3, <2>4 DEF Promise!Start, LifeMap, TaskMap
<1>10. AbandonedInv'
  <2>1. ~gaveUp[r]
    BY <1>1, <1>8 DEF AbandonedInv
  <2> QED
    BY <1>2, <1>7, <2>1 DEF AbandonedInv
<1> QED
  BY <1>9, <1>10

\* The instances a stop goes to are those that run for the tasks it names.
LEMMA StopImplements ==
  ASSUME Inv, AbandonedInv, [Next]_vars, NEW r \in Commands, Relay(r), IsStop(r)
  PROVE  /\ Promise!Stop(Tasks) \/ \E t \in Tasks : Promise!Stop({t})
         /\ AbandonedInv'
<1>0. TypeOK /\ ClientInv /\ BroadcastInv /\ InstanceInv /\ OwnerInv /\ StartedInv
  BY DEF Inv
<1> DEFINE ts == IF cmd[r].task = NoTask THEN Tasks ELSE {cmd[r].task}
           out == outChannels'
<1>1. /\ rpc = "idle" /\ rpc' = "send" /\ cur' = r /\ target' \in out
      /\ \A t \in Tasks : active'[t] = (active[t] /\ t \notin ts)
      /\ UNCHANGED <<cmd, got, taskCommands, phase, alive, gaveUp>>
  BY DEF Relay, Receive, MarkInactive, clientVars, instanceVars, IsStop
<1>2. got[r] = {}
  BY <1>0, ReceiveEffect DEF Relay, ClientInv
<1>3. /\ out \subseteq Instances
      /\ \A i \in out : \E t \in Tasks : active[t] /\ i = taskCommands[t] /\ t \in ts
      /\ \A t \in ts : t \in Tasks /\ (active[t] => taskCommands[t] \in out)
  BY <1>0, Recipient
<1> HIDE DEF ts, out
<1>4. \A i \in Instances : ~BeingStopped(i)
  BY <1>1 DEF BeingStopped
<1>5. \A i \in Instances : BeingStopped(i)' <=> i \in out
  BY <1>1, <1>2 DEF BeingStopped, HasAnswered, IsStop, out
<1>6. \A i \in Instances : phase[i] # "none" => Owner(i) \in Tasks /\ Owner(i)' = Owner(i)
  BY <1>0, Stable DEF StartedInv
<1>7. ASSUME NEW i \in out PROVE phase[i] # "none" /\ InCharge(i) /\ Owner(i) \in ts
  <2>1. PICK t \in Tasks : active[t] /\ i = taskCommands[t] /\ t \in ts
    BY <1>3
  <2>2. i \in Instances /\ i # None
    BY <1>3, Ids
  <2>3. Owner(i) = t
    BY <1>0, <2>1, <2>2 DEF OwnerInv
  <2>4. phase[i] # "none"
    BY <1>0, <2>1, <2>2 DEF InstanceInv
  <2> QED
    BY <2>1, <2>3, <2>4 DEF InCharge
<1>8. ASSUME NEW i \in Instances, phase[i] # "none", InCharge(i), Owner(i) \in ts PROVE i \in out
  BY <1>3, <1>8 DEF InCharge
<1>9. Promise!RunningFor(ts) = out
  <2>1. \A i \in Instances : i \in out <=> phase[i] # "none" /\ InCharge(i) /\ Owner(i) \in ts
    BY <1>7, <1>8
  <2>2. \A i \in Instances : LifeMap[i] = "running" <=> phase[i] # "none" /\ InCharge(i)
    BY StoppingAre DEF LifeMap
  <2>3. \A i \in Instances : phase[i] # "none" => TaskMap[i] = Owner(i)
    BY DEF TaskMap
  <2>4. \A i \in Instances : i \in Promise!RunningFor(ts) <=> LifeMap[i] = "running" /\ TaskMap[i] \in ts
    BY DEF Promise!RunningFor, LifeMap, TaskMap
  <2>5. Promise!RunningFor(ts) \subseteq Instances
    BY DEF Promise!RunningFor
  <2> QED
    BY <1>3, <2>1, <2>2, <2>3, <2>4, <2>5
<1>10. ASSUME NEW i \in Instances PROVE Life(i)' = IF i \in out THEN "stopping" ELSE Life(i)
  <2>1. CASE i \in out
    <3>1. phase'[i] # "none" /\ ~InCharge(i)' /\ BeingStopped(i)'
      BY <1>1, <1>5, <1>6, <1>7, <2>1 DEF InCharge
    <3> QED
      BY <2>1, <3>1 DEF Life
  <2>2. CASE i \notin out
    <3>1. phase[i] # "none" => (InCharge(i)' <=> InCharge(i))
      BY <1>1, <1>6, <1>8, <2>2 DEF InCharge
    <3> QED
      BY <1>1, <1>4, <1>5, <2>2, <3>1, LifeSame
  <2> QED
    BY <2>1, <2>2
<1>11. TaskMap' = TaskMap
  <2>1. \A i \in Instances : TaskMap'[i] = TaskMap[i]
    BY <1>1, <1>6 DEF TaskMap
  <2> QED
    BY <2>1 DEF TaskMap
<1>12. Promise!Stop(ts)
  <2>1. Promise!Stopping = {}
    BY <1>4, StoppingAre DEF Promise!Stopping
  <2>2. LifeMap' = [i \in Instances |-> IF i \in out THEN "stopping" ELSE LifeMap[i]]
    BY <1>10 DEF LifeMap
  <2>3. out # {}
    BY <1>1
  <2> QED
    BY <1>1, <1>9, <1>11, <2>1, <2>2, <2>3 DEF Promise!Stop, LifeMap, TaskMap
<1>13. AbandonedInv'
  <2>1. \A i \in out : ~gaveUp[i]
    BY <1>3, <1>7, StoppingAre DEF AbandonedInv
  <2> QED
    BY <1>1, <1>10, <2>1 DEF AbandonedInv
<1>14. ts = Tasks \/ \E t \in Tasks : ts = {t}
  BY <1>3 DEF ts
<1> QED
  BY <1>12, <1>13, <1>14

\* The instances a stop still waits for when it times out are given up on.
LEMMA TimeoutImplements ==
  ASSUME Inv, AbandonedInv, [Next]_vars, Timeout
  PROVE  (Promise!GiveUp \/ UNCHANGED promiseVars) /\ AbandonedInv'
<1>1. /\ rpc = "collect" /\ rpc' = "idle"
      /\ UNCHANGED <<cmd, active, taskCommands, phase, alive>>
      /\ \A i \in Instances : gaveUp'[i] <=> gaveUp[i] \/ BeingStopped(i)
  BY DEF Timeout, Finish, registryVars, instanceVars, BeingStopped, HasAnswered
<1>2. \A i \in Instances : ~BeingStopped(i)'
  BY <1>1 DEF BeingStopped
<1>3. ASSUME NEW i \in Instances PROVE Life(i)' = IF BeingStopped(i) THEN "abandoned" ELSE Life(i)
  <2>1. phase[i] # "none" => (InCharge(i)' <=> InCharge(i))
    BY <1>1, InChargeSame
  <2>2. CASE BeingStopped(i)
    <3>1. phase'[i] # "none" /\ ~InCharge(i)' /\ gaveUp'[i]
      BY <1>1, <2>1, <2>2, StoppingAre
    <3> QED
      BY <1>2, <2>2, <3>1 DEF Life
  <2>3. CASE ~BeingStopped(i)
    BY <1>1, <1>2, <2>1, <2>3, LifeSame
  <2> QED
    BY <2>2, <2>3
<1>4. TaskMap' = TaskMap
  <2>1. \A i \in Instances : phase[i] # "none" => Owner(i)' = Owner(i)
    BY Stable DEF Inv
  <2> QED
    BY <1>1, <2>1 DEF TaskMap
<1>5. \A i \in Instances : i \in Promise!Stopping <=> BeingStopped(i)
  BY StoppingAre DEF Promise!Stopping, LifeMap
<1>6. LifeMap' = [i \in Instances |-> IF i \in Promise!Stopping THEN "abandoned" ELSE LifeMap[i]]
  BY <1>3, <1>5 DEF LifeMap
<1>7. ASSUME Promise!Stopping # {} PROVE Promise!GiveUp
  <2>1. UNCHANGED <<TaskMap, alive>>
    BY <1>1, <1>4
  <2> QED
    BY <1>6, <1>7, <2>1 DEF Promise!GiveUp, LifeMap, TaskMap
<1>8. ASSUME Promise!Stopping = {} PROVE UNCHANGED promiseVars
  <2>1. LifeMap' = LifeMap
    BY <1>6, <1>8 DEF LifeMap
  <2> QED
    BY <1>1, <1>4, <2>1 DEF promiseVars
<1>9. AbandonedInv'
  BY <1>1, <1>3 DEF AbandonedInv
<1> QED
  BY <1>7, <1>8, <1>9

\* An instance boots while the Runner has it, or stops it, or has given up on it.
LEMMA StartedImplements ==
  ASSUME Inv, AbandonedInv, [Next]_vars, NEW i \in Instances, Started(i)
  PROVE  Promise!Boot(i) /\ AbandonedInv'
<1>0. TypeOK /\ Supervised
  BY DEF Inv
<1>1. /\ phase[i] = "starting" /\ alive' = [alive EXCEPT ![i] = TRUE]
      /\ UNCHANGED <<outChannels, cur, rpc, got, active, taskCommands, gaveUp>>
      /\ \A j \in Instances : phase'[j] = "none" <=> phase[j] = "none"
  BY <1>0 DEF Started, broadcastVars, registryVars, clientVars, TypeOK
<1>2. LifeMap' = LifeMap /\ TaskMap' = TaskMap /\ \A j \in Instances : Life(j)' = Life(j)
  BY <1>1, StopsSame, PromiseQuiet
<1>3. LifeMap[i] \in {"running", "stopping", "abandoned"}
  <2>1. InCharge(i) \/ BeingStopped(i) \/ gaveUp[i]
    BY <1>0, <1>1 DEF Supervised
  <2> QED
    BY <1>1, <2>1 DEF LifeMap, Life
<1>4. Promise!Boot(i)
  BY <1>1, <1>2, <1>3 DEF Promise!Boot, LifeMap, TaskMap
<1> QED
  BY <1>1, <1>2, <1>4 DEF AbandonedInv

\* Processes are ended in an instance that was told to stop.
LEMMA WorkersStoppedImplements ==
  ASSUME Inv, AbandonedInv, StoppingInv, [Next]_vars, NEW i \in Instances, WorkersStopped(i)
  PROVE  (Promise!Die(i) \/ UNCHANGED promiseVars) /\ AbandonedInv'
<1>0. TypeOK /\ Supervised /\ StopInv /\ StartedInv
  BY DEF Inv
<1>1. /\ phase[i] = "stopping" /\ alive' = [alive EXCEPT ![i] = FALSE]
      /\ UNCHANGED <<outChannels, cur, rpc, got, active, taskCommands, gaveUp>>
      /\ \A j \in Instances : phase'[j] = "none" <=> phase[j] = "none"
  BY <1>0 DEF WorkersStopped, broadcastVars, registryVars, clientVars, TypeOK
<1>2. LifeMap' = LifeMap /\ TaskMap' = TaskMap /\ \A j \in Instances : Life(j)' = Life(j)
  BY <1>1, StopsSame, PromiseQuiet
<1>3. AbandonedInv'
  BY <1>1, <1>2 DEF AbandonedInv
<1>4. ASSUME alive[i] PROVE Promise!Die(i)
  <2>1. ~InCharge(i)
    <3>1. Stopped(i)
      BY <1>1 DEF Stopped, Pending, StoppingInv
    <3>2. Owner(i) \in Tasks
      BY <1>0, <1>1 DEF StartedInv
    <3> QED
      BY <1>0, <3>1, <3>2 DEF StopInv, InCharge
  <2>2. BeingStopped(i) \/ gaveUp[i]
    BY <1>0, <1>4, <2>1 DEF Supervised
  <2>3. LifeMap[i] \in {"stopping", "abandoned"}
    BY <1>1, <2>1, <2>2 DEF LifeMap, Life
  <2> QED
    BY <1>1, <1>2, <2>3 DEF Promise!Die, LifeMap, TaskMap
<1>5. ASSUME ~alive[i] PROVE UNCHANGED promiseVars
  <2>1. alive' = alive
    BY <1>0, <1>1, <1>5 DEF TypeOK
  <2> QED
    BY <1>2, <2>1 DEF promiseVars
<1> QED
  BY <1>3, <1>4, <1>5

\* An answer to a stop confirms it.
LEMMA ReplyImplements ==
  ASSUME Inv, AbandonedInv, [Next]_vars, NEW i \in Instances, ReplyMore(i) \/ ReplyLast(i)
  PROVE  (Promise!Confirm(i) \/ UNCHANGED promiseVars) /\ AbandonedInv'
<1>0. TypeOK /\ DeadInv /\ CountInv /\ BroadcastInv
  BY DEF Inv
<1>1. /\ phase[i] = "replying" /\ rpc = "collect" /\ hand[i] = cur
      /\ got' = [got EXCEPT ![cur] = @ \cup {AnswerOf(i)}]
      /\ UNCHANGED <<cmd, active, taskCommands, gaveUp, alive>>
      /\ \A j \in Instances : phase'[j] = "none" <=> phase[j] = "none"
  BY <1>0 DEF ReplyMore, ReplyLast, Finish, Close, Replied, registryVars, TypeOK
<1>2. /\ i \in outChannels \ HasAnswered /\ IsFiniteSet(outChannels \ HasAnswered)
      /\ {a.from : a \in got'[cur]} = HasAnswered \cup {i}
  BY <1>1, AnswerCounted
<1>3. \A j \in Instances : BeingStopped(j)' <=> BeingStopped(j) /\ j # i
  <2>1. CASE ReplyMore(i)
    <3>1. UNCHANGED <<rpc, cur, outChannels>>
      BY <2>1 DEF ReplyMore
    <3>2. HasAnswered' = HasAnswered \cup {i}
      BY <1>2, <3>1 DEF HasAnswered
    <3> QED
      BY <1>1, <3>1, <3>2 DEF BeingStopped
  <2>2. CASE ReplyLast(i)
    <3>1. cnt = 1 /\ rpc' = "idle"
      BY <1>0, <2>2 DEF ReplyLast, Finish, CountInv, TypeOK
    <3>2. outChannels \ HasAnswered = {i}
      BY <1>0, <1>1, <1>2, <3>1, OneLess DEF CountInv
    <3> QED
      BY <3>1, <3>2 DEF BeingStopped
  <2> QED
    BY <2>1, <2>2
<1>4. ASSUME NEW j \in Instances, j # i \/ ~BeingStopped(i) PROVE Life(j)' = Life(j)
  BY <1>1, <1>3, <1>4, InChargeSame, LifeSame
<1>5. TaskMap' = TaskMap
  <2>1. \A j \in Instances : phase[j] # "none" => Owner(j)' = Owner(j)
    BY Stable DEF Inv
  <2> QED
    BY <1>1, <2>1 DEF TaskMap
<1>6. ASSUME BeingStopped(i)
      PROVE  Life(i) = "stopping" /\ ~alive[i] /\ ~gaveUp[i] /\ Life(i)' = "stopped"
  <2>1. Life(i) = "stopping" /\ ~InCharge(i) /\ phase[i] # "none"
    BY <1>6, StoppingAre
  <2>2. ~gaveUp[i]
    BY <2>1 DEF AbandonedInv
  <2>3. ~alive[i]
    BY <1>0, <1>1, <1>6 DEF BeingStopped, DeadInv, IsStop
  <2>4. ~InCharge(i)' /\ ~BeingStopped(i)' /\ phase'[i] # "none" /\ ~gaveUp'[i]
    BY <1>1, <1>3, <2>1, <2>2, InChargeSame
  <2> QED
    BY <2>1, <2>2, <2>3, <2>4 DEF Life
<1>7. ASSUME BeingStopped(i) PROVE Promise!Confirm(i)
  <2>1. LifeMap' = [LifeMap EXCEPT ![i] = "stopped"]
    BY <1>4, <1>6, <1>7 DEF LifeMap
  <2> QED
    BY <1>1, <1>5, <1>6, <1>7, <2>1 DEF Promise!Confirm, LifeMap, TaskMap
<1>8. ASSUME ~BeingStopped(i) PROVE UNCHANGED promiseVars
  <2>1. LifeMap' = LifeMap
    BY <1>4, <1>8 DEF LifeMap
  <2> QED
    BY <1>1, <1>5, <2>1 DEF promiseVars
<1>9. AbandonedInv'
  BY <1>1, <1>4, <1>6 DEF AbandonedInv
<1> QED
  BY <1>7, <1>8, <1>9

\* The steps the abstract specification does not see.
LEMMA OtherSteps ==
  ASSUME Inv, AbandonedInv, [Next]_vars,
         \/ UNCHANGED vars \/ \E r \in Requests : Type(r)
         \/ FirstStop \/ SecondStop \/ SignalOnly \/ SendOne
         \/ \E r \in Commands : Answered(r) \/ (Relay(r) /\ ~IsStop(r))
         \/ \E i \in Instances : TakeCommand(i) \/ ReplyTooLate(i) \/ Hang(i)
  PROVE  UNCHANGED promiseVars /\ AbandonedInv'
<1>0. TypeOK /\ ClientInv /\ BroadcastInv
  BY DEF Inv
<1>1. SUFFICES /\ UNCHANGED <<active, taskCommands, gaveUp, alive>>
               /\ \A i \in Instances : (phase'[i] = "none") <=> (phase[i] = "none")
               /\ \A i \in Instances : BeingStopped(i)' <=> BeingStopped(i)
  <2>1. LifeMap' = LifeMap /\ TaskMap' = TaskMap /\ \A i \in Instances : Life(i)' = Life(i)
    BY <1>1, PromiseQuiet
  <2> QED
    BY <1>1, <2>1 DEF promiseVars, AbandonedInv
<1>2. ASSUME UNCHANGED <<active, taskCommands, gaveUp, alive, outChannels, cur>>,
             \A i \in Instances : (phase'[i] = "none") <=> (phase[i] = "none"),
             rpc # "idle" <=> rpc' # "idle", cur # None => got'[cur] = got[cur]
      PROVE  /\ UNCHANGED <<active, taskCommands, gaveUp, alive>>
             /\ \A i \in Instances : (phase'[i] = "none") <=> (phase[i] = "none")
             /\ \A i \in Instances : BeingStopped(i)' <=> BeingStopped(i)
  BY <1>2, StopsSame
<1>3. CASE UNCHANGED vars
  <2>1. UNCHANGED <<active, taskCommands, gaveUp, alive, outChannels, cur, rpc, got, phase>>
    BY <1>3 DEF vars, registryVars, instanceVars, broadcastVars, clientVars
  <2> QED
    BY <1>2, <2>1
<1>4. ASSUME NEW r \in Requests, Type(r)
      PROVE  /\ UNCHANGED <<active, taskCommands, gaveUp, alive, outChannels, cur, rpc, phase>>
             /\ cur # None => got'[cur] = got[cur]
  <2>1. /\ UNCHANGED <<active, taskCommands, gaveUp, alive, outChannels, cur, rpc, phase>>
        /\ client[r] = "new"
    BY <1>4 DEF Type, registryVars, instanceVars, broadcastVars
  <2>2. cur # None => cur \in Commands \ {r}
    BY <1>0, <2>1 DEF TypeOK, BroadcastInv
  <2> QED
    BY <1>0, <1>4, <2>1, <2>2, TypeOthers
<1>5. CASE FirstStop \/ SecondStop \/ SignalOnly
  <2>1. UNCHANGED <<active, taskCommands, gaveUp, alive, outChannels, cur, rpc, got, phase>>
    BY <1>5 DEF FirstStop, SecondStop, SignalOnly, Interrupt, Exit, Send, registryVars, instanceVars, broadcastVars
  <2> QED
    BY <1>2, <2>1
<1>6. CASE SendOne
  <2>1. /\ UNCHANGED <<active, taskCommands, gaveUp, alive, outChannels, cur, got, phase>>
        /\ rpc = "send" /\ rpc' \in {"send", "collect"}
    BY <1>6 DEF SendOne, registryVars, clientVars
  <2> QED
    BY <1>2, <2>1
<1>7. ASSUME NEW r \in Commands, Answered(r)
      PROVE  UNCHANGED <<active, taskCommands, gaveUp, alive, outChannels, cur, rpc, phase>>
             /\ rpc = "idle"
  BY <1>7 DEF Answered, Answer, Receive, registryVars, instanceVars, broadcastVars
<1>8. ASSUME NEW r \in Commands, Relay(r), ~IsStop(r)
      PROVE  /\ UNCHANGED <<active, taskCommands, gaveUp, alive, phase>>
             /\ \A i \in Instances : BeingStopped(i)' <=> BeingStopped(i)
  <2>1. /\ UNCHANGED <<taskCommands, gaveUp, alive, phase, cmd>> /\ rpc = "idle" /\ cur' = r
        /\ active' = [t \in Tasks |-> active[t] /\ ~(cmd[r].type = "stop" /\ cmd[r].task \in {t, NoTask})]
    BY <1>8 DEF Relay, Receive, MarkInactive, instanceVars, clientVars
  <2>2. active' = active
    BY <1>0, <1>8, <2>1 DEF IsStop, TypeOK
  <2>3. \A i \in Instances : ~BeingStopped(i)' /\ ~BeingStopped(i)
    BY <1>8, <2>1 DEF BeingStopped, IsStop
  <2> QED
    BY <2>1, <2>2, <2>3
<1>9. ASSUME NEW i \in Instances, TakeCommand(i) \/ ReplyTooLate(i) \/ Hang(i)
      PROVE  /\ UNCHANGED <<active, taskCommands, gaveUp, alive, outChannels, cur, rpc, got>>
             /\ \A j \in Instances : (phase'[j] = "none") <=> (phase[j] = "none")
  BY <1>0, <1>9 DEF TakeCommand, ReplyTooLate, Replied, Hang, registryVars, broadcastVars,
                    clientVars, TypeOK
<1>10. ASSUME NEW r \in Commands, Answered(r)
       PROVE  \A i \in Instances : BeingStopped(i)' <=> BeingStopped(i)
  BY <1>7, <1>10 DEF BeingStopped
<1> QED
  BY <1>2, <1>3, <1>4, <1>5, <1>6, <1>7, <1>8, <1>9, <1>10

\* The Runner implements Supervisor, for any tasks, requests, lines, bounds and
\* hangs, whatever times out and whenever.
THEOREM SupervisorImplemented == Spec => ImplementsSupervisor
<1>1. Init => AbandonedInv /\ StoppingInv
  BY DEF Init, AbandonedInv, StoppingInv
<1>2. Inv /\ AbandonedInv /\ StoppingInv /\ [Next]_vars
      => [Promise!Next]_(Promise!supervisorVars) /\ AbandonedInv'
  <2> SUFFICES ASSUME Inv, AbandonedInv, StoppingInv, [Next]_vars
               PROVE  (Promise!Next \/ UNCHANGED promiseVars) /\ AbandonedInv'
    BY DEF promiseVars, LifeMap, TaskMap, Promise!supervisorVars
  <2>1. ASSUME NEW r \in Commands, Start(r) PROVE Promise!Next /\ AbandonedInv'
    <3>1. cmd[r].task \in Tasks /\ r \in Instances
      BY <2>1, Starters DEF Inv
    <3>2. PICK t \in Tasks : cmd[r].task = t
      BY <3>1
    <3>3. Promise!Start(r, t) /\ AbandonedInv'
      BY <2>1, <3>2, StartImplements
    <3> QED
      BY <3>1, <3>3, Zenon DEF Promise!Next
  <2>2. ASSUME NEW r \in Commands, Relay(r), IsStop(r) PROVE Promise!Next /\ AbandonedInv'
    BY <2>2, StopImplements DEF Promise!Next
  <2>3. CASE Timeout
    BY <2>3, TimeoutImplements DEF Promise!Next
  <2>4. ASSUME NEW i \in Instances, Started(i) PROVE Promise!Next /\ AbandonedInv'
    BY <2>4, StartedImplements DEF Promise!Next
  <2>5. ASSUME NEW i \in Instances, WorkersStopped(i)
        PROVE  (Promise!Next \/ UNCHANGED promiseVars) /\ AbandonedInv'
    BY <2>5, WorkersStoppedImplements DEF Promise!Next
  <2>6. ASSUME NEW i \in Instances, ReplyMore(i) \/ ReplyLast(i)
        PROVE  (Promise!Next \/ UNCHANGED promiseVars) /\ AbandonedInv'
    BY <2>6, ReplyImplements DEF Promise!Next
  <2> QED
    BY <2>1, <2>2, <2>3, <2>4, <2>5, <2>6, OtherSteps, NextCases
<1>3. Init => Promise!Init
  <2> SUFFICES ASSUME Init PROVE Promise!Init
    OBVIOUS
  <2>1. \A i \in Instances : i \in AutoStart => i \in Tasks /\ InCharge(i) /\ Owner(i) = i
    BY Ids DEF Init, InCharge, Owner
  <2>2. LifeMap = [i \in Instances |-> IF i \in AutoStart THEN "running" ELSE "none"]
    BY <2>1 DEF Init, LifeMap, Life
  <2>3. TaskMap = [i \in Instances |-> IF i \in AutoStart THEN i ELSE None]
    BY <2>1 DEF Init, TaskMap
  <2> QED
    BY <2>2, <2>3 DEF Init, LifeMap, TaskMap, Promise!Init
<1> QED
  BY <1>1, <1>2, <1>3, StoppingStep, Invariance, PTL DEF Spec, ImplementsSupervisor, Promise!Spec

=============================================================================
