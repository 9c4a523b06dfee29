------------------------- MODULE RunnerStops_proofs -------------------------
(***************************************************************************)
(* Every step of Runner keeps a stopped instance out of reach, and gives an*)
(* instance each command once, so that counting the answers is enough; an  *)
(* instance answers a stop after its processes have ended.                 *)
(***************************************************************************)
EXTENDS RunnerInvariant_proofs

\* Steps that send nothing keep the stopped instances out of reach.
LEMMA StopQuiet ==
  ASSUME Inv, [Next]_vars, UNCHANGED taskCommands,
         \A i \in Instances : Pending(i)' \subseteq Pending(i),
         \A i \in Instances : phase'[i] = "ended" => Stopped(i),
         \A t \in Tasks : active'[t] => active[t],
         toSend' \subseteq toSend,
         cur' = None \/ UNCHANGED <<outChannels, cur>>
  PROVE  StopInv'
<1>0. TypeOK /\ ClientInv /\ BroadcastInv /\ InstanceInv /\ PendingInv /\ StopInv
  BY DEF Inv
<1>1. ASSUME NEW i \in Instances, Stopped(i)' PROVE Stopped(i)
  <2>1. CASE phase'[i] = "ended"
    BY <2>1
  <2>2. CASE \E r \in Pending(i)' : IsStop(r)'
    <3>1. PICK r \in Pending(i)' : IsStop(r)'
      BY <2>2
    <3>2. r \in Pending(i) /\ r \in Commands
      BY <1>0, <3>1, PendingCommands
    <3>3. client[r] # "new"
      BY <1>0, <3>2, Ids DEF PendingInv, BroadcastInv
    <3>4. IsStop(r)
      BY <1>0, <3>1, <3>2, <3>3, Stable DEF IsStop
    <3> QED
      BY <3>2, <3>4 DEF Stopped
  <2> QED
    BY <1>1, <2>1, <2>2 DEF Stopped
<1>2. ASSUME cur' # None, IsStop(cur)',
             NEW i \in outChannels', NEW t \in Tasks, active'[t]
      PROVE  taskCommands'[t] # i
  <2>1. cur \in Commands /\ client[cur] # "new"
    BY <1>0, <1>2 DEF TypeOK, BroadcastInv
  <2>2. IsStop(cur)
    BY <1>0, <1>2, <2>1, Stable DEF IsStop
  <2> QED
    BY <1>0, <1>2, <2>2 DEF StopInv
<1> QED
  BY <1>0, <1>1, <1>2 DEF StopInv

\* An instance ends on a stop.
LEMMA RepliedStop ==
  ASSUME TypeOK, InstanceInv, NEW i \in Instances, phase[i] = "replying", Replied(i)
  PROVE  \A j \in Instances : phase'[j] = "ended" => Stopped(j)
<1>1. hand[i] \in Pending(i)
  BY DEF InstanceInv, Pending
<1> QED
  BY <1>1 DEF Replied, Stopped, IsStop, TypeOK

\* Every step keeps an instance that was sent a stop out of the Runner's reach.
LEMMA StopStep == Inv /\ [Next]_vars => StopInv'
<1> SUFFICES ASSUME Inv, [Next]_vars PROVE StopInv'
  OBVIOUS
<1>0. TypeOK /\ ClientInv /\ BroadcastInv /\ InstanceInv /\ PendingInv /\ OwnerInv /\ StopInv
  BY DEF Inv
<1> USE <1>0, Ids
<1>a. \A i \in Instances : Pending(i) \subseteq Commands
  BY PendingCommands
<1>b. UNCHANGED <<queue, hand>> => \A i \in Instances : Pending(i)' = Pending(i)
  BY DEF Pending
<1> USE <1>a, <1>b
<1>1. CASE UNCHANGED vars
  <2>1. UNCHANGED <<taskCommands, active, toSend>> /\ UNCHANGED <<outChannels, cur>>
    BY <1>1 DEF vars, registryVars, broadcastVars, instanceVars
  <2>2. \A j \in Instances : Pending(j)' \subseteq Pending(j)
    BY <1>1, <1>b DEF vars, registryVars, broadcastVars, instanceVars
  <2>3. \A j \in Instances : phase'[j] = "ended" => Stopped(j)
    BY <1>1 DEF vars, registryVars, broadcastVars, instanceVars, Stopped, TypeOK
  <2> QED
    BY <2>1, <2>2, <2>3, StopQuiet
<1>2. ASSUME NEW r \in Requests, Type(r) PROVE StopInv'
  <2>1. UNCHANGED <<taskCommands, active, toSend>> /\ UNCHANGED <<outChannels, cur>>
    BY <1>2 DEF Type, registryVars, broadcastVars, instanceVars
  <2>2. \A j \in Instances : Pending(j)' \subseteq Pending(j)
    BY <1>2, <1>b DEF Type, registryVars, broadcastVars, instanceVars
  <2>3. \A j \in Instances : phase'[j] = "ended" => Stopped(j)
    BY <1>2 DEF Type, registryVars, broadcastVars, instanceVars, Stopped, TypeOK
  <2> QED
    BY <2>1, <2>2, <2>3, StopQuiet
<1>3. ASSUME FirstStop PROVE StopInv'
  <2>1. UNCHANGED <<taskCommands, active, toSend>> /\ UNCHANGED <<outChannels, cur>>
    BY <1>3 DEF FirstStop, registryVars, broadcastVars, instanceVars
  <2>2. \A j \in Instances : Pending(j)' \subseteq Pending(j)
    BY <1>3, <1>b DEF FirstStop, registryVars, broadcastVars, instanceVars
  <2>3. \A j \in Instances : phase'[j] = "ended" => Stopped(j)
    BY <1>3 DEF FirstStop, registryVars, broadcastVars, instanceVars, Stopped, TypeOK
  <2> QED
    BY <2>1, <2>2, <2>3, StopQuiet
<1>4. ASSUME SecondStop PROVE StopInv'
  <2>1. UNCHANGED <<taskCommands, active, toSend>> /\ UNCHANGED <<outChannels, cur>>
    BY <1>4 DEF SecondStop, registryVars, broadcastVars, instanceVars
  <2>2. \A j \in Instances : Pending(j)' \subseteq Pending(j)
    BY <1>4, <1>b DEF SecondStop, registryVars, broadcastVars, instanceVars
  <2>3. \A j \in Instances : phase'[j] = "ended" => Stopped(j)
    BY <1>4 DEF SecondStop, registryVars, broadcastVars, instanceVars, Stopped, TypeOK
  <2> QED
    BY <2>1, <2>2, <2>3, StopQuiet
<1>5. ASSUME SignalOnly PROVE StopInv'
  <2>1. UNCHANGED <<taskCommands, active, toSend>> /\ UNCHANGED <<outChannels, cur>>
    BY <1>5 DEF SignalOnly, Interrupt, Exit, registryVars, broadcastVars, instanceVars
  <2>2. \A j \in Instances : Pending(j)' \subseteq Pending(j)
    BY <1>5, <1>b DEF SignalOnly, Interrupt, Exit, registryVars, broadcastVars, instanceVars
  <2>3. \A j \in Instances : phase'[j] = "ended" => Stopped(j)
    BY <1>5 DEF SignalOnly, Interrupt, Exit, registryVars, broadcastVars, instanceVars, Stopped, TypeOK
  <2> QED
    BY <2>1, <2>2, <2>3, StopQuiet
<1>6. ASSUME NEW r \in Commands, Answered(r) PROVE StopInv'
  <2>1. UNCHANGED <<taskCommands, active, toSend>> /\ UNCHANGED <<outChannels, cur>>
    BY <1>6 DEF Answered, Answer, registryVars, broadcastVars, instanceVars
  <2>2. \A j \in Instances : Pending(j)' \subseteq Pending(j)
    BY <1>6, <1>b DEF Answered, Answer, registryVars, broadcastVars, instanceVars
  <2>3. \A j \in Instances : phase'[j] = "ended" => Stopped(j)
    BY <1>6 DEF Answered, Answer, registryVars, broadcastVars, instanceVars, Stopped, TypeOK
  <2> QED
    BY <2>1, <2>2, <2>3, StopQuiet
<1>7. ASSUME NEW r \in Commands, Start(r) PROVE StopInv'
  <2> DEFINE t == cmd[r].task
  <2>1. r \in Requests /\ r \in Instances /\ t \in Tasks /\ rpc = "idle"
    BY <1>7, Starters DEF Start, Answer, Receive
  <2>2. UNCHANGED <<toSend, cur, queue, hand, cmd>> /\ cur = None
    BY <1>7, <2>1 DEF Start, Answer, broadcastVars, BroadcastInv
  <2>3. /\ taskCommands' = [taskCommands EXCEPT ![t] = r] /\ active' = [active EXCEPT ![t] = TRUE]
        /\ phase' = [phase EXCEPT ![r] = "starting"]
    BY <1>7 DEF Start
  <2>4. client[r] = "waiting"
    BY <1>7, ReceiveEffect DEF Start, Answer, ClientInv
  <2>5. phase[r] = "none" /\ Pending(r) = {}
    BY <2>1, <2>4, EntriesOf DEF InstanceInv, Pending
  <2>6. ASSUME NEW i \in Instances, Stopped(i)' PROVE i # r /\ Stopped(i)
    BY <1>b, <2>1, <2>2, <2>3, <2>5, <2>6 DEF Stopped, IsStop, TypeOK
  <2>7. ASSUME NEW i \in Instances, Stopped(i)', NEW x \in Tasks, active'[x]
        PROVE  taskCommands'[x] # i
    BY <2>1, <2>3, <2>6, <2>7 DEF StopInv, TypeOK
  <2> QED
    BY <2>2, <2>6, <2>7 DEF StopInv
<1>8. ASSUME NEW r \in Commands, Relay(r) PROVE StopInv'
  <2>1. UNCHANGED <<taskCommands, queue, hand, cmd, phase>> /\ cur' = r /\ toSend' = outChannels'
    BY <1>8 DEF Relay, instanceVars, clientVars
  <2>2. \A i \in Instances : Stopped(i)' <=> Stopped(i)
    BY <1>b, <2>1 DEF Stopped, IsStop
  <2>3. \A x \in Tasks : active'[x] <=> active[x] /\ ~(IsStop(r) /\ cmd[r].task \in {x, NoTask})
    BY <1>8 DEF Relay, MarkInactive, IsStop
  <2>4. ASSUME NEW i \in outChannels'
        PROVE  \E t \in Tasks : active[t] /\ i = taskCommands[t] /\ cmd[r].task \in {t, NoTask}
    BY <1>8, <2>4, Recipient
  <2>5. ASSUME NEW i \in Instances, Stopped(i) PROVE i \notin outChannels'
    BY <2>4, <2>5 DEF StopInv
  <2>6. ASSUME IsStop(r), NEW i \in outChannels', NEW x \in Tasks, active'[x]
        PROVE  taskCommands[x] # i
    <3>1. PICK t \in Tasks : active[t] /\ i = taskCommands[t] /\ cmd[r].task \in {t, NoTask}
      BY <2>4
    <3>2. active[x] /\ cmd[r].task \notin {x, NoTask}
      BY <2>3, <2>6
    <3>3. Owner(i) = t /\ Owner(taskCommands[x]) = x
      BY <3>1, <3>2 DEF OwnerInv, InstanceInv
    <3> QED
      BY <3>1, <3>2, <3>3
  <2>7. \A i \in Instances, t \in Tasks : Stopped(i) /\ active'[t] => taskCommands[t] # i
    BY <2>3 DEF StopInv
  <2> QED
    BY <2>1, <2>2, <2>5, <2>6, <2>7 DEF StopInv, IsStop
<1>9. ASSUME SendOne PROVE StopInv'
  <2>1. UNCHANGED <<taskCommands, active, phase, cmd, outChannels, cur>> /\ toSend' = toSend \ {target}
    BY <1>9 DEF SendOne, clientVars, registryVars
  <2>2. target \in outChannels /\ target \in toSend /\ cur # None
    BY <1>9, Ids, SendOneEffect DEF TypeOK
  <2>3. ASSUME NEW i \in Instances, Stopped(i)'
        PROVE  Stopped(i) \/ (i = target /\ IsStop(cur))
    BY <1>9, <2>1, <2>3, PendingSent DEF Stopped, IsStop
  <2>4. ASSUME NEW i \in Instances, Stopped(i)'
        PROVE  i \notin toSend' /\ \A t \in Tasks : active'[t] => taskCommands'[t] # i
    BY <2>1, <2>2, <2>3, <2>4 DEF StopInv
  <2> QED
    BY <2>1, <2>4 DEF StopInv, IsStop
<1>10. ASSUME Timeout PROVE StopInv'
  <2>1. UNCHANGED <<taskCommands, active, toSend>> /\ cur' = None
    BY <1>10 DEF Timeout, Finish, registryVars, broadcastVars, instanceVars
  <2>2. \A j \in Instances : Pending(j)' \subseteq Pending(j)
    BY <1>10, <1>b DEF Timeout, Finish, registryVars, broadcastVars, instanceVars
  <2>3. \A j \in Instances : phase'[j] = "ended" => Stopped(j)
    BY <1>10 DEF Timeout, Finish, registryVars, broadcastVars, instanceVars, Stopped, TypeOK
  <2> QED
    BY <2>1, <2>2, <2>3, StopQuiet
<1>11. ASSUME NEW i \in Instances, Started(i) PROVE StopInv'
  <2>1. UNCHANGED <<taskCommands, active, toSend>> /\ UNCHANGED <<outChannels, cur>>
    BY <1>11 DEF Started, registryVars, broadcastVars, instanceVars
  <2>2. \A j \in Instances : Pending(j)' \subseteq Pending(j)
    BY <1>11, <1>b DEF Started, registryVars, broadcastVars, instanceVars
  <2>3. \A j \in Instances : phase'[j] = "ended" => Stopped(j)
    BY <1>11 DEF Started, registryVars, broadcastVars, instanceVars, Stopped, TypeOK
  <2> QED
    BY <2>1, <2>2, <2>3, StopQuiet
<1>12. ASSUME NEW i \in Instances, TakeCommand(i) PROVE StopInv'
  <2>1. UNCHANGED <<taskCommands, active, toSend>> /\ UNCHANGED <<outChannels, cur>>
    BY <1>12 DEF TakeCommand, registryVars, broadcastVars, instanceVars
  <2>2. \A j \in Instances : Pending(j)' \subseteq Pending(j)
    BY <1>12, PendingTaken DEF TakeCommand, registryVars, broadcastVars, instanceVars
  <2>3. \A j \in Instances : phase'[j] = "ended" => Stopped(j)
    BY <1>12 DEF TakeCommand, registryVars, broadcastVars, instanceVars, Stopped, TypeOK
  <2> QED
    BY <2>1, <2>2, <2>3, StopQuiet
<1>13. ASSUME NEW i \in Instances, WorkersStopped(i) PROVE StopInv'
  <2>1. UNCHANGED <<taskCommands, active, toSend>> /\ UNCHANGED <<outChannels, cur>>
    BY <1>13 DEF WorkersStopped, registryVars, broadcastVars, instanceVars
  <2>2. \A j \in Instances : Pending(j)' \subseteq Pending(j)
    BY <1>13, <1>b DEF WorkersStopped, registryVars, broadcastVars, instanceVars
  <2>3. \A j \in Instances : phase'[j] = "ended" => Stopped(j)
    BY <1>13 DEF WorkersStopped, registryVars, broadcastVars, instanceVars, Stopped, TypeOK
  <2> QED
    BY <2>1, <2>2, <2>3, StopQuiet
<1>14. ASSUME NEW i \in Instances, ReplyMore(i) PROVE StopInv'
  <2>1. UNCHANGED <<taskCommands, active, toSend>> /\ UNCHANGED <<outChannels, cur>>
    BY <1>14 DEF ReplyMore, registryVars, broadcastVars, instanceVars
  <2>2. \A j \in Instances : Pending(j)' \subseteq Pending(j)
    BY <1>14, PendingReplied DEF ReplyMore, registryVars, broadcastVars, instanceVars
  <2>3. \A j \in Instances : phase'[j] = "ended" => Stopped(j)
    BY <1>14, RepliedStop DEF ReplyMore, registryVars, broadcastVars, instanceVars
  <2> QED
    BY <2>1, <2>2, <2>3, StopQuiet
<1>15. ASSUME NEW i \in Instances, ReplyLast(i) PROVE StopInv'
  <2>1. UNCHANGED <<taskCommands, active, toSend>> /\ cur' = None
    BY <1>15 DEF ReplyLast, Finish, registryVars, broadcastVars, instanceVars
  <2>2. \A j \in Instances : Pending(j)' \subseteq Pending(j)
    BY <1>15, PendingReplied DEF ReplyLast, Finish, registryVars, broadcastVars, instanceVars
  <2>3. \A j \in Instances : phase'[j] = "ended" => Stopped(j)
    BY <1>15, RepliedStop DEF ReplyLast, Finish, registryVars, broadcastVars, instanceVars
  <2> QED
    BY <2>1, <2>2, <2>3, StopQuiet
<1>16. ASSUME NEW i \in Instances, ReplyTooLate(i) PROVE StopInv'
  <2>1. UNCHANGED <<taskCommands, active, toSend>> /\ UNCHANGED <<outChannels, cur>>
    BY <1>16 DEF ReplyTooLate, registryVars, broadcastVars, instanceVars
  <2>2. \A j \in Instances : Pending(j)' \subseteq Pending(j)
    BY <1>16, PendingReplied DEF ReplyTooLate, registryVars, broadcastVars, instanceVars
  <2>3. \A j \in Instances : phase'[j] = "ended" => Stopped(j)
    BY <1>16, RepliedStop DEF ReplyTooLate, registryVars, broadcastVars, instanceVars
  <2> QED
    BY <2>1, <2>2, <2>3, StopQuiet
<1>17. ASSUME NEW i \in Instances, Hang(i) PROVE StopInv'
  <2>1. UNCHANGED <<taskCommands, active, toSend>> /\ UNCHANGED <<outChannels, cur>>
    BY <1>17 DEF Hang, registryVars, broadcastVars, instanceVars
  <2>2. \A j \in Instances : Pending(j)' \subseteq Pending(j)
    BY <1>17, <1>b DEF Hang, registryVars, broadcastVars, instanceVars
  <2>3. \A j \in Instances : phase'[j] = "ended" => Stopped(j)
    BY <1>17 DEF Hang, registryVars, broadcastVars, instanceVars, Stopped, TypeOK
  <2> QED
    BY <2>1, <2>2, <2>3, StopQuiet
<1> QED
  BY <1>1, <1>2, <1>3, <1>4, <1>5, <1>6, <1>7, <1>8, <1>9, <1>10, <1>11, <1>12, <1>13, <1>14, <1>15, <1>16, <1>17, NextCases

\* The commands an instance has were sent.
LEMMA PendingSteady ==
  ASSUME Inv, [Next]_vars, NEW i \in Instances
  PROVE  /\ \A k \in 1..Len(queue[i]) : cmd'[queue[i][k]] = cmd[queue[i][k]]
         /\ hand[i] # None => cmd'[hand[i]] = cmd[hand[i]]
<1>0. TypeOK /\ ClientInv /\ BroadcastInv /\ InstanceInv /\ PendingInv
  BY DEF Inv
<1>1. ASSUME NEW r \in Pending(i) PROVE cmd'[r] = cmd[r]
  <2>1. r \in Commands
    BY <1>0, PendingCommands
  <2>2. client[r] # "new"
    BY <1>0, <2>1, Ids DEF PendingInv, BroadcastInv
  <2> QED
    BY <1>0, <2>1, <2>2, Stable
<1>2. \A k \in 1..Len(queue[i]) : queue[i][k] \in Pending(i)
  <2>1. \A k \in 1..Len(queue[i]) : queue[i][k] \in Commands
    BY <1>0 DEF TypeOK
  <2> QED
    BY <2>1, Ids DEF Pending, Entries
<1>3. hand[i] # None => hand[i] \in Pending(i)
  BY DEF Pending
<1> QED
  BY <1>1, <1>2, <1>3

\* Steps that move no command.
LEMMA NothingQuiet ==
  ASSUME Inv, [Next]_vars, UNCHANGED queue,
         \A i \in Instances : hand'[i] \in {hand[i], None},
         \A i \in Instances : phase'[i] = "ended" => queue[i] = << >>
  PROVE  NothingAfterStop'
<1>0. NothingAfterStop
  BY DEF Inv
<1>1. ASSUME NEW i \in Instances
      PROVE  /\ \A k \in 1..Len(queue[i]) : cmd'[queue[i][k]].type = "stop" => k = Len(queue[i])
             /\ hand'[i] # None /\ cmd'[hand'[i]].type = "stop" => queue[i] = << >>
  <2>1. /\ \A k \in 1..Len(queue[i]) : cmd'[queue[i][k]] = cmd[queue[i][k]]
        /\ hand[i] # None => cmd'[hand[i]] = cmd[hand[i]]
    BY PendingSteady
  <2>2. hand'[i] = hand[i] \/ hand'[i] = None
    OBVIOUS
  <2> QED
    BY <1>0, <2>1, <2>2 DEF NothingAfterStop
<1> QED
  BY <1>1 DEF NothingAfterStop

\* No step puts a command behind a stop.
LEMMA NothingStep == Inv /\ [Next]_vars => NothingAfterStop'
<1> SUFFICES ASSUME Inv, [Next]_vars PROVE NothingAfterStop'
  OBVIOUS
<1>0. TypeOK /\ BroadcastInv /\ InstanceInv /\ StopInv /\ NothingAfterStop
  BY DEF Inv
<1> USE <1>0, Ids
<1>1. CASE UNCHANGED vars
  <2>1. UNCHANGED queue /\ \A j \in Instances : hand'[j] \in {hand[j], None}
    BY <1>1 DEF vars, instanceVars, TypeOK
  <2>2. \A j \in Instances : phase'[j] = "ended" => queue[j] = << >>
    BY <1>1 DEF vars, instanceVars, NothingAfterStop, TypeOK
  <2> QED
    BY <2>1, <2>2, NothingQuiet
<1>2. ASSUME NEW r \in Requests, Type(r) PROVE NothingAfterStop'
  <2>1. UNCHANGED queue /\ \A j \in Instances : hand'[j] \in {hand[j], None}
    BY <1>2 DEF Type, instanceVars, TypeOK
  <2>2. \A j \in Instances : phase'[j] = "ended" => queue[j] = << >>
    BY <1>2 DEF Type, instanceVars, NothingAfterStop, TypeOK
  <2> QED
    BY <2>1, <2>2, NothingQuiet
<1>3. ASSUME FirstStop PROVE NothingAfterStop'
  <2>1. UNCHANGED queue /\ \A j \in Instances : hand'[j] \in {hand[j], None}
    BY <1>3 DEF FirstStop, instanceVars, TypeOK
  <2>2. \A j \in Instances : phase'[j] = "ended" => queue[j] = << >>
    BY <1>3 DEF FirstStop, instanceVars, NothingAfterStop, TypeOK
  <2> QED
    BY <2>1, <2>2, NothingQuiet
<1>4. ASSUME SecondStop PROVE NothingAfterStop'
  <2>1. UNCHANGED queue /\ \A j \in Instances : hand'[j] \in {hand[j], None}
    BY <1>4 DEF SecondStop, instanceVars, TypeOK
  <2>2. \A j \in Instances : phase'[j] = "ended" => queue[j] = << >>
    BY <1>4 DEF SecondStop, instanceVars, NothingAfterStop, TypeOK
  <2> QED
    BY <2>1, <2>2, NothingQuiet
<1>5. ASSUME SignalOnly PROVE NothingAfterStop'
  <2>1. UNCHANGED queue /\ \A j \in Instances : hand'[j] \in {hand[j], None}
    BY <1>5 DEF SignalOnly, Interrupt, Exit, instanceVars, TypeOK
  <2>2. \A j \in Instances : phase'[j] = "ended" => queue[j] = << >>
    BY <1>5 DEF SignalOnly, Interrupt, Exit, instanceVars, NothingAfterStop, TypeOK
  <2> QED
    BY <2>1, <2>2, NothingQuiet
<1>6. ASSUME NEW r \in Commands, Answered(r) PROVE NothingAfterStop'
  <2>1. UNCHANGED queue /\ \A j \in Instances : hand'[j] \in {hand[j], None}
    BY <1>6 DEF Answered, Answer, instanceVars, TypeOK
  <2>2. \A j \in Instances : phase'[j] = "ended" => queue[j] = << >>
    BY <1>6 DEF Answered, Answer, instanceVars, NothingAfterStop, TypeOK
  <2> QED
    BY <2>1, <2>2, NothingQuiet
<1>7. ASSUME NEW r \in Commands, Start(r) PROVE NothingAfterStop'
  <2>1. UNCHANGED queue /\ \A j \in Instances : hand'[j] \in {hand[j], None}
    BY <1>7 DEF Start, TypeOK
  <2>2. \A j \in Instances : phase'[j] = "ended" => queue[j] = << >>
    BY <1>7 DEF Start, NothingAfterStop, TypeOK
  <2> QED
    BY <2>1, <2>2, NothingQuiet
<1>8. ASSUME NEW r \in Commands, Relay(r) PROVE NothingAfterStop'
  <2>1. UNCHANGED queue /\ \A j \in Instances : hand'[j] \in {hand[j], None}
    BY <1>8 DEF Relay, instanceVars, TypeOK
  <2>2. \A j \in Instances : phase'[j] = "ended" => queue[j] = << >>
    BY <1>8 DEF Relay, instanceVars, NothingAfterStop, TypeOK
  <2> QED
    BY <2>1, <2>2, NothingQuiet
<1>9. ASSUME SendOne PROVE NothingAfterStop'
  <2>1. UNCHANGED <<cmd, hand, phase>>
    BY <1>9 DEF SendOne, clientVars
  <2>2. /\ target \in Instances /\ queue[target] \in Seq(Commands) /\ cur \in Commands
        /\ queue'[target] = Append(queue[target], cur) /\ target \in toSend
        /\ \A i \in Instances \ {target} : queue'[i] = queue[i]
    BY <1>9, SendOneEffect DEF SendOne, TypeOK
  <2>3. /\ \A k \in 1..Len(queue[target]) : ~IsStop(queue[target][k])
        /\ ~(hand[target] # None /\ IsStop(hand[target])) /\ phase[target] # "ended"
    <3>1. ~Stopped(target)
      BY <2>2 DEF StopInv
    <3>2. \A k \in 1..Len(queue[target]) : queue[target][k] \in Pending(target)
      <4>1. \A k \in 1..Len(queue[target]) : queue[target][k] \in Commands
        BY <2>2
      <4> QED
        BY <4>1 DEF Pending, Entries
    <3>3. hand[target] # None => hand[target] \in Pending(target)
      BY DEF Pending
    <3> QED
      BY <3>1, <3>2, <3>3 DEF Stopped
  <2>4. \A k \in 1..Len(queue'[target]) : cmd[queue'[target][k]].type = "stop" => k = Len(queue'[target])
    <3>1. \A k \in 1..Len(queue[target]) : queue'[target][k] = queue[target][k]
      BY <2>2
    <3>2. Len(queue'[target]) = Len(queue[target]) + 1 /\ Len(queue[target]) \in Nat
      BY <2>2
    <3> QED
      BY <2>3, <3>1, <3>2 DEF IsStop
  <2> QED
    BY <2>1, <2>2, <2>3, <2>4 DEF NothingAfterStop, IsStop
<1>10. ASSUME Timeout PROVE NothingAfterStop'
  <2>1. UNCHANGED queue /\ \A j \in Instances : hand'[j] \in {hand[j], None}
    BY <1>10 DEF Timeout, instanceVars, TypeOK
  <2>2. \A j \in Instances : phase'[j] = "ended" => queue[j] = << >>
    BY <1>10 DEF Timeout, instanceVars, NothingAfterStop, TypeOK
  <2> QED
    BY <2>1, <2>2, NothingQuiet
<1>11. ASSUME NEW i \in Instances, Started(i) PROVE NothingAfterStop'
  <2>1. UNCHANGED queue /\ \A j \in Instances : hand'[j] \in {hand[j], None}
    BY <1>11 DEF Started, instanceVars, TypeOK
  <2>2. \A j \in Instances : phase'[j] = "ended" => queue[j] = << >>
    BY <1>11 DEF Started, instanceVars, NothingAfterStop, TypeOK
  <2> QED
    BY <2>1, <2>2, NothingQuiet
<1>12. ASSUME NEW i \in Instances, TakeCommand(i) PROVE NothingAfterStop'
  <2>1. /\ queue[i] \in Seq(Commands) /\ queue[i] # << >>
        /\ queue'[i] = Tail(queue[i]) /\ hand'[i] = queue[i][1]
        /\ \A j \in Instances \ {i} : queue'[j] = queue[j] /\ hand'[j] = hand[j]
        /\ \A j \in Instances : phase'[j] = "ended" => phase[j] = "ended" /\ j # i
    BY <1>12 DEF TakeCommand, TypeOK
  <2>2. UNCHANGED cmd
    BY <1>12 DEF TakeCommand, clientVars
  <2>3. /\ Len(queue[i]) \in Nat \ {0} /\ Len(queue'[i]) = Len(queue[i]) - 1
        /\ \A k \in 1..Len(queue'[i]) : queue'[i][k] = queue[i][k + 1]
    BY <2>1
  <2>4. \A k \in 1..Len(queue'[i]) : cmd[queue'[i][k]].type = "stop" => k = Len(queue'[i])
    BY <2>3 DEF NothingAfterStop
  <2>5. cmd[hand'[i]].type = "stop" => queue'[i] = << >>
    <3>1. \A k \in 1..Len(queue[i]) : cmd[queue[i][k]].type = "stop" => k = Len(queue[i])
      BY DEF NothingAfterStop
    <3>2. 1 \in 1..Len(queue[i])
      BY <2>3
    <3>3. cmd[hand'[i]].type = "stop" => Len(queue[i]) = 1
      BY <2>1, <3>1, <3>2
    <3>4. queue'[i] \in Seq(Commands)
      BY <2>1
    <3>5. Len(queue'[i]) = 0 => queue'[i] = << >>
      BY <3>4
    <3> QED
      BY <2>3, <3>3, <3>5
  <2>6. ASSUME NEW j \in Instances \ {i}
        PROVE  /\ \A k \in 1..Len(queue'[j]) :
                    cmd[queue'[j][k]].type = "stop" => k = Len(queue'[j])
               /\ hand'[j] # None /\ cmd[hand'[j]].type = "stop" => queue'[j] = << >>
               /\ phase'[j] = "ended" => queue'[j] = << >>
    BY <2>1 DEF NothingAfterStop
  <2>7. phase'[i] # "ended"
    BY <2>1
  <2> QED
    BY <2>2, <2>4, <2>5, <2>6, <2>7 DEF NothingAfterStop
<1>13. ASSUME NEW i \in Instances, WorkersStopped(i) PROVE NothingAfterStop'
  <2>1. UNCHANGED queue /\ \A j \in Instances : hand'[j] \in {hand[j], None}
    BY <1>13 DEF WorkersStopped, TypeOK
  <2>2. \A j \in Instances : phase'[j] = "ended" => queue[j] = << >>
    BY <1>13 DEF WorkersStopped, NothingAfterStop, TypeOK
  <2> QED
    BY <2>1, <2>2, NothingQuiet
<1>14. ASSUME NEW i \in Instances, ReplyMore(i) PROVE NothingAfterStop'
  <2>1. UNCHANGED queue /\ \A j \in Instances : hand'[j] \in {hand[j], None}
    BY <1>14 DEF ReplyMore, Replied, TypeOK
  <2>2. \A j \in Instances : phase'[j] = "ended" => queue[j] = << >>
    BY <1>14 DEF ReplyMore, Replied, InstanceInv, NothingAfterStop, TypeOK
  <2> QED
    BY <2>1, <2>2, NothingQuiet
<1>15. ASSUME NEW i \in Instances, ReplyLast(i) PROVE NothingAfterStop'
  <2>1. UNCHANGED queue /\ \A j \in Instances : hand'[j] \in {hand[j], None}
    BY <1>15 DEF ReplyLast, Replied, TypeOK
  <2>2. \A j \in Instances : phase'[j] = "ended" => queue[j] = << >>
    BY <1>15 DEF ReplyLast, Replied, InstanceInv, NothingAfterStop, TypeOK
  <2> QED
    BY <2>1, <2>2, NothingQuiet
<1>16. ASSUME NEW i \in Instances, ReplyTooLate(i) PROVE NothingAfterStop'
  <2>1. UNCHANGED queue /\ \A j \in Instances : hand'[j] \in {hand[j], None}
    BY <1>16 DEF ReplyTooLate, Replied, TypeOK
  <2>2. \A j \in Instances : phase'[j] = "ended" => queue[j] = << >>
    BY <1>16 DEF ReplyTooLate, Replied, InstanceInv, NothingAfterStop, TypeOK
  <2> QED
    BY <2>1, <2>2, NothingQuiet
<1>17. ASSUME NEW i \in Instances, Hang(i) PROVE NothingAfterStop'
  <2>1. UNCHANGED queue /\ \A j \in Instances : hand'[j] \in {hand[j], None}
    BY <1>17 DEF Hang, TypeOK
  <2>2. \A j \in Instances : phase'[j] = "ended" => queue[j] = << >>
    BY <1>17 DEF Hang, NothingAfterStop, TypeOK
  <2> QED
    BY <2>1, <2>2, NothingQuiet
<1> QED
  BY <1>1, <1>2, <1>3, <1>4, <1>5, <1>6, <1>7, <1>8, <1>9, <1>10, <1>11, <1>12, <1>13, <1>14, <1>15, <1>16, <1>17, NextCases

\* While the Runner is busy nobody else touches its broadcast.
LEMMA OnceQuiet ==
  ASSUME Inv, [Next]_vars, UNCHANGED queue,
         \A i \in Instances : hand'[i] \in {hand[i], None},
         cur' = None \/ (UNCHANGED <<cur, outChannels, toSend>> /\ got'[cur] = got[cur])
  PROVE  OnceInv'
<1>0. TypeOK /\ OnceInv
  BY DEF Inv
<1>1. ASSUME NEW i \in Instances
      PROVE  /\ Distinct(queue'[i]) /\ hand'[i] \notin Entries(queue'[i])
             /\ cur' \in Pending(i)' => cur' # None /\ cur' \in Pending(i)
  <2>1. Entries(queue[i]) \subseteq Commands
    BY <1>0, PendingCommands
  <2>2. Distinct(queue'[i]) /\ hand'[i] \notin Entries(queue'[i])
    BY <1>0, <2>1, Ids DEF OnceInv
  <2>3. Pending(i)' \subseteq Pending(i) /\ None \notin Pending(i)'
    BY DEF Pending
  <2> QED
    BY <2>2, <2>3
<1>2. CASE cur' = None
  BY <1>1, <1>2 DEF OnceInv
<1>3. CASE UNCHANGED <<cur, outChannels, toSend>> /\ got'[cur] = got[cur]
  BY <1>0, <1>1, <1>3 DEF OnceInv, HasAnswered
<1> QED
  BY <1>2, <1>3

\* The instance that answers is out.
LEMMA OnceAnswered ==
  ASSUME Inv, NEW i \in Instances, hand[i] = cur, Replied(i), cur # None,
         UNCHANGED <<cur, outChannels, toSend>>,
         got' = [got EXCEPT ![cur] = @ \cup {AnswerOf(i)}]
  PROVE  OnceInv'
<1>0. TypeOK /\ OnceInv
  BY DEF Inv
<1>1. /\ UNCHANGED queue /\ hand'[i] = None
      /\ \A j \in Instances \ {i} : hand'[j] = hand[j]
  BY <1>0 DEF Replied, TypeOK
<1>2. got'[cur] = got[cur] \cup {AnswerOf(i)}
  BY <1>0, Ids DEF TypeOK
<1>3. HasAnswered' = HasAnswered \cup {i}
  <2>1. AnswerOf(i).from = i
    BY DEF AnswerOf
  <2> QED
    BY <1>2, <2>1 DEF HasAnswered
<1>4. ASSUME NEW j \in Instances PROVE Distinct(queue'[j]) /\ hand'[j] \notin Entries(queue'[j])
  <2>1. Entries(queue[j]) \subseteq Commands
    BY <1>0, PendingCommands
  <2> QED
    BY <1>0, <1>1, <2>1, Ids DEF OnceInv
<1>5. ASSUME NEW j \in Instances, cur \in Pending(j)'
      PROVE  j \in outChannels' \ (toSend' \cup HasAnswered')
  <2>1. j # i /\ cur \in Pending(j)
    BY <1>0, <1>5, PendingReplied DEF OnceInv
  <2> QED
    BY <1>0, <1>3, <2>1 DEF OnceInv
<1> QED
  BY <1>4, <1>5 DEF OnceInv

\* Every step gives an instance a command once, and takes the one being broadcast
\* from it when it answers.
LEMMA OnceStep == Inv /\ [Next]_vars => OnceInv'
<1> SUFFICES ASSUME Inv, [Next]_vars PROVE OnceInv'
  OBVIOUS
<1>0. TypeOK /\ ClientInv /\ BroadcastInv /\ InstanceInv /\ PendingInv /\ OnceInv
  BY DEF Inv
<1> USE <1>0, Ids
<1>a. \A i \in Instances : Pending(i) \subseteq Commands
  BY PendingCommands
<1>b. UNCHANGED <<queue, hand>> => \A i \in Instances : Pending(i)' = Pending(i)
  BY DEF Pending
<1> USE <1>a, <1>b
<1>1. CASE UNCHANGED vars
  <2>1. UNCHANGED queue /\ \A j \in Instances : hand'[j] \in {hand[j], None}
    BY <1>1 DEF vars, instanceVars, TypeOK
  <2>2. UNCHANGED <<cur, outChannels, toSend>> /\ got'[cur] = got[cur]
    BY <1>1 DEF vars, clientVars, broadcastVars, BroadcastInv
  <2> QED
    BY <2>1, <2>2, OnceQuiet
<1>2. ASSUME NEW r \in Requests, Type(r) PROVE OnceInv'
  <2>1. UNCHANGED <<queue, hand, cur, outChannels, toSend>>
    BY <1>2, TypeCases DEF TypeOK, instanceVars, broadcastVars
  <2>2. cur # None => got'[cur] = got[cur]
    <3>1. client[r] = "new"
      BY <1>2 DEF Type
    <3>2. cur # None => cur \in Commands \ {r}
      BY <3>1 DEF TypeOK, BroadcastInv
    <3> QED
      BY <1>2, <3>2, TypeOthers
  <2> QED
    BY <2>1, <2>2, OnceQuiet
<1>3. ASSUME FirstStop PROVE OnceInv'
  <2>1. UNCHANGED queue /\ \A j \in Instances : hand'[j] \in {hand[j], None}
    BY <1>3 DEF FirstStop, Send, instanceVars, TypeOK
  <2>2. UNCHANGED <<cur, outChannels, toSend>> /\ got'[cur] = got[cur]
    BY <1>3 DEF FirstStop, Send, clientVars, broadcastVars, BroadcastInv
  <2> QED
    BY <2>1, <2>2, OnceQuiet
<1>4. ASSUME SecondStop PROVE OnceInv'
  <2>1. UNCHANGED queue /\ \A j \in Instances : hand'[j] \in {hand[j], None}
    BY <1>4 DEF SecondStop, Send, instanceVars, TypeOK
  <2>2. UNCHANGED <<cur, outChannels, toSend>> /\ got'[cur] = got[cur]
    BY <1>4 DEF SecondStop, Send, clientVars, broadcastVars, BroadcastInv
  <2> QED
    BY <2>1, <2>2, OnceQuiet
<1>5. ASSUME SignalOnly PROVE OnceInv'
  <2>1. UNCHANGED queue /\ \A j \in Instances : hand'[j] \in {hand[j], None}
    BY <1>5 DEF SignalOnly, Interrupt, Exit, instanceVars, TypeOK
  <2>2. UNCHANGED <<cur, outChannels, toSend>> /\ got'[cur] = got[cur]
    BY <1>5 DEF SignalOnly, Interrupt, Exit, clientVars, broadcastVars, BroadcastInv
  <2> QED
    BY <2>1, <2>2, OnceQuiet
<1>6. ASSUME NEW r \in Commands, Answered(r) PROVE OnceInv'
  <2>1. UNCHANGED queue /\ \A j \in Instances : hand'[j] \in {hand[j], None}
    BY <1>6 DEF Answered, Answer, Receive, instanceVars, TypeOK
  <2>2. cur' = None
    BY <1>6 DEF Answered, Answer, Receive, clientVars, broadcastVars, BroadcastInv
  <2> QED
    BY <2>1, <2>2, OnceQuiet
<1>7. ASSUME NEW r \in Commands, Start(r) PROVE OnceInv'
  <2>1. UNCHANGED queue /\ \A j \in Instances : hand'[j] \in {hand[j], None}
    BY <1>7 DEF Start, Answer, Receive, instanceVars, TypeOK
  <2>2. cur' = None
    BY <1>7 DEF Start, Answer, Receive, clientVars, broadcastVars, BroadcastInv
  <2> QED
    BY <2>1, <2>2, OnceQuiet
<1>8. ASSUME NEW r \in Commands, Relay(r) PROVE OnceInv'
  <2>1. UNCHANGED <<queue, hand, client>> /\ cur' = r /\ cur = None
    BY <1>8 DEF Relay, Receive, BroadcastInv, instanceVars, clientVars
  <2>2. client[r] = "waiting"
    BY <1>8, ReceiveEffect DEF Relay, ClientInv
  <2>3. \A i \in Instances : r \notin Pending(i)
    BY <2>1, <2>2, Ids DEF PendingInv
  <2> QED
    BY <1>b, <2>1, <2>3 DEF OnceInv
<1>9. ASSUME SendOne PROVE OnceInv'
  <2>1. UNCHANGED <<hand, got, outChannels, cur>> /\ toSend' = toSend \ {target}
    BY <1>9 DEF SendOne, clientVars
  <2>2. got[cur] = {}
    BY <1>9 DEF SendOne, BroadcastInv
  <2>3. HasAnswered' = {}
    BY <2>1, <2>2 DEF HasAnswered
  <2>4. target \in toSend /\ target \in outChannels /\ cur \notin Pending(target)
    BY <1>9, SendOneEffect DEF TypeOK, OnceInv
  <2>5. ASSUME NEW i \in Instances
        PROVE  Distinct(queue'[i]) /\ hand'[i] \notin Entries(queue'[i])
    <3>1. CASE i = target
      <4>1. cur \notin Entries(queue[target]) /\ cur # hand[target]
        BY <1>9, <2>4, SendOneEffect, Ids DEF Pending
      <4> QED
        BY <1>9, <2>1, <3>1, <4>1, SendOneEffect DEF OnceInv
    <3>2. CASE i # target
      BY <1>9, <2>1, <3>2, SendOneEffect DEF OnceInv
    <3> QED
      BY <3>1, <3>2
  <2>6. ASSUME NEW i \in Instances, cur \in Pending(i)'
        PROVE  i \in outChannels \ (toSend' \cup HasAnswered')
    <3>1. CASE i = target
      BY <2>1, <2>3, <2>4, <3>1
    <3>2. CASE i # target
      BY <1>9, <2>1, <2>3, <2>6, <3>2, PendingSent DEF OnceInv
    <3> QED
      BY <3>1, <3>2
  <2> QED
    BY <2>1, <2>5, <2>6 DEF OnceInv
<1>10. ASSUME Timeout PROVE OnceInv'
  <2>1. UNCHANGED queue /\ \A j \in Instances : hand'[j] \in {hand[j], None}
    BY <1>10 DEF Timeout, Finish, instanceVars, TypeOK
  <2>2. cur' = None
    BY <1>10 DEF Timeout, Finish, clientVars, broadcastVars, BroadcastInv
  <2> QED
    BY <2>1, <2>2, OnceQuiet
<1>11. ASSUME NEW i \in Instances, Started(i) PROVE OnceInv'
  <2>1. UNCHANGED queue /\ \A j \in Instances : hand'[j] \in {hand[j], None}
    BY <1>11 DEF Started, instanceVars, TypeOK
  <2>2. UNCHANGED <<cur, outChannels, toSend>> /\ got'[cur] = got[cur]
    BY <1>11 DEF Started, clientVars, broadcastVars, BroadcastInv
  <2> QED
    BY <2>1, <2>2, OnceQuiet
<1>12. ASSUME NEW i \in Instances, TakeCommand(i) PROVE OnceInv'
  <2>1. UNCHANGED <<got, outChannels, cur, toSend>>
    BY <1>12 DEF TakeCommand, clientVars, broadcastVars
  <2>2. HasAnswered' = HasAnswered
    BY <2>1 DEF HasAnswered
  <2>3. ASSUME NEW j \in Instances
        PROVE  Distinct(queue'[j]) /\ hand'[j] \notin Entries(queue'[j])
    <3>1. CASE j = i
      BY <1>12, <3>1, TakeEffect DEF OnceInv
    <3>2. CASE j # i
      BY <1>12, <3>2, TakeEffect DEF OnceInv
    <3> QED
      BY <3>1, <3>2
  <2>4. ASSUME NEW j \in Instances, cur \in Pending(j)'
        PROVE  j \in outChannels \ (toSend \cup HasAnswered)
    BY <1>12, <2>4, PendingTaken DEF OnceInv
  <2> QED
    BY <2>1, <2>2, <2>3, <2>4 DEF OnceInv
<1>13. ASSUME NEW i \in Instances, WorkersStopped(i) PROVE OnceInv'
  <2>1. UNCHANGED queue /\ \A j \in Instances : hand'[j] \in {hand[j], None}
    BY <1>13 DEF WorkersStopped, instanceVars, TypeOK
  <2>2. UNCHANGED <<cur, outChannels, toSend>> /\ got'[cur] = got[cur]
    BY <1>13 DEF WorkersStopped, clientVars, broadcastVars, BroadcastInv
  <2> QED
    BY <2>1, <2>2, OnceQuiet
<1>14. ASSUME NEW i \in Instances, ReplyMore(i) PROVE OnceInv'
  <2>1. cur # None
    BY <1>14 DEF ReplyMore, BroadcastInv
  <2> QED
    BY <1>14, <2>1, OnceAnswered DEF ReplyMore
<1>15. ASSUME NEW i \in Instances, ReplyLast(i) PROVE OnceInv'
  <2>1. UNCHANGED queue /\ \A j \in Instances : hand'[j] \in {hand[j], None}
    BY <1>15 DEF ReplyLast, Finish, Replied, instanceVars, TypeOK
  <2>2. cur' = None
    BY <1>15 DEF ReplyLast, Finish, Replied, clientVars, broadcastVars, BroadcastInv
  <2> QED
    BY <2>1, <2>2, OnceQuiet
<1>16. ASSUME NEW i \in Instances, ReplyTooLate(i) PROVE OnceInv'
  <2>1. UNCHANGED queue /\ \A j \in Instances : hand'[j] \in {hand[j], None}
    BY <1>16 DEF ReplyTooLate, Replied, instanceVars, TypeOK
  <2>2. UNCHANGED <<cur, outChannels, toSend>> /\ got'[cur] = got[cur]
    BY <1>16 DEF ReplyTooLate, Replied, clientVars, broadcastVars, BroadcastInv
  <2> QED
    BY <2>1, <2>2, OnceQuiet
<1>17. ASSUME NEW i \in Instances, Hang(i) PROVE OnceInv'
  <2>1. UNCHANGED queue /\ \A j \in Instances : hand'[j] \in {hand[j], None}
    BY <1>17 DEF Hang, instanceVars, TypeOK
  <2>2. UNCHANGED <<cur, outChannels, toSend>> /\ got'[cur] = got[cur]
    BY <1>17 DEF Hang, clientVars, broadcastVars, BroadcastInv
  <2> QED
    BY <2>1, <2>2, OnceQuiet
<1> QED
  BY <1>1, <1>2, <1>3, <1>4, <1>5, <1>6, <1>7, <1>8, <1>9, <1>10, <1>11, <1>12, <1>13, <1>14, <1>15, <1>16, <1>17, NextCases

\* What is left when one of the answers that are missing comes.
LEMMA OneLess ==
  ASSUME NEW S, IsFiniteSet(S), NEW x \in S
  PROVE  /\ Cardinality(S) \in Nat \ {0} /\ Cardinality(S \ {x}) = Cardinality(S) - 1
         /\ Cardinality(S) = 1 => S = {x}
<1>1. /\ Cardinality(S) \in Nat /\ IsFiniteSet(S \ {x})
      /\ Cardinality(S \ {x}) = Cardinality(S) - 1
  BY FS_CardinalityType, FS_RemoveElement
<1>2. Cardinality(S \ {x}) \in Nat
  BY <1>1, FS_CardinalityType
<1>3. Cardinality(S) = 1 => S \ {x} = {}
  BY <1>1, FS_EmptySet
<1> QED
  BY <1>1, <1>2, <1>3

\* What an answer of an instance does to the set of those who have answered.
LEMMA AnswerCounted ==
  ASSUME Inv, NEW i \in Instances, rpc = "collect", hand[i] = cur,
         got' = [got EXCEPT ![cur] = @ \cup {AnswerOf(i)}]
  PROVE  /\ i \in outChannels \ HasAnswered
         /\ {a.from : a \in got'[cur]} = HasAnswered \cup {i}
         /\ IsFiniteSet(outChannels \ HasAnswered)
<1>0. TypeOK /\ OnceInv /\ BroadcastInv /\ CountInv
  BY DEF Inv
<1>1. cur \in Commands
  BY <1>0 DEF TypeOK, BroadcastInv
<1>2. i \in outChannels \ HasAnswered
  BY <1>0, <1>1, Ids DEF OnceInv, Pending
<1>3. got'[cur] = got[cur] \cup {AnswerOf(i)} /\ AnswerOf(i).from = i
  BY <1>0, <1>1 DEF TypeOK, AnswerOf
<1>4. {a.from : a \in got'[cur]} = HasAnswered \cup {i}
  BY <1>3 DEF HasAnswered
<1>5. outChannels \ HasAnswered \subseteq Instances
  BY <1>0 DEF TypeOK
<1> QED
  BY <1>2, <1>4, <1>5, FinitelyMany, FS_Subset

\* Every step keeps cnt equal to the number of answers that are missing.
LEMMA CountStep == Inv /\ [Next]_vars => CountInv'
<1> SUFFICES ASSUME Inv, [Next]_vars PROVE CountInv'
  OBVIOUS
<1>0. TypeOK /\ ClientInv /\ BroadcastInv /\ CountInv
  BY DEF Inv
<1> USE <1>0, Ids
<1>1. CASE UNCHANGED vars
  <2>1. UNCHANGED <<rpc, cur, cnt, outChannels, got>>
    BY <1>1 DEF vars, clientVars, broadcastVars
  <2> QED
    BY <2>1 DEF CountInv, HasAnswered
<1>2. ASSUME NEW r \in Requests, Type(r) PROVE CountInv'
  <2>1. UNCHANGED <<rpc, cur, cnt, outChannels>> /\ client[r] = "new"
    BY <1>2, TypeCases DEF TypeOK, broadcastVars
  <2>2. rpc = "collect" => cur \in Commands \ {r}
    BY <2>1 DEF TypeOK, BroadcastInv
  <2>3. rpc = "collect" => got'[cur] = got[cur]
    BY <1>2, <2>2, TypeOthers
  <2> QED
    BY <2>1, <2>3 DEF CountInv, HasAnswered
<1>3. ASSUME FirstStop PROVE CountInv'
  <2>1. UNCHANGED <<rpc, cur, cnt, outChannels, got>>
    BY <1>3 DEF FirstStop, Send, clientVars, broadcastVars
  <2> QED
    BY <2>1 DEF CountInv, HasAnswered
<1>4. ASSUME SecondStop PROVE CountInv'
  <2>1. UNCHANGED <<rpc, cur, cnt, outChannels, got>>
    BY <1>4 DEF SecondStop, Send, clientVars, broadcastVars
  <2> QED
    BY <2>1 DEF CountInv, HasAnswered
<1>5. ASSUME SignalOnly PROVE CountInv'
  <2>1. UNCHANGED <<rpc, cur, cnt, outChannels, got>>
    BY <1>5 DEF SignalOnly, Interrupt, Exit, clientVars, broadcastVars
  <2> QED
    BY <2>1 DEF CountInv, HasAnswered
<1>6. ASSUME NEW r \in Commands, Answered(r) PROVE CountInv'
  <2>1. rpc' # "collect"
    BY <1>6 DEF Answered, Answer, Receive, broadcastVars
  <2> QED
    BY <2>1 DEF CountInv
<1>7. ASSUME NEW r \in Commands, Start(r) PROVE CountInv'
  <2>1. rpc' # "collect"
    BY <1>7 DEF Start, Answer, Receive, broadcastVars
  <2> QED
    BY <2>1 DEF CountInv
<1>8. ASSUME NEW r \in Commands, Relay(r) PROVE CountInv'
  <2>1. rpc' # "collect"
    BY <1>8 DEF Relay, Receive, broadcastVars
  <2> QED
    BY <2>1 DEF CountInv
<1>9. ASSUME SendOne PROVE CountInv'
  <2>1. CASE rpc' # "collect"
    BY <2>1 DEF CountInv
  <2>2. CASE rpc' = "collect"
    <3>1. UNCHANGED <<outChannels, cur, got>> /\ got[cur] = {} /\ cnt' = Cardinality(outChannels)
      BY <1>9, <2>2 DEF SendOne, clientVars, BroadcastInv
    <3>2. HasAnswered' = {}
      BY <3>1 DEF HasAnswered
    <3>3. target \in outChannels /\ IsFiniteSet(outChannels)
      BY <1>9, SendOneEffect, FinitelyMany, FS_Subset DEF TypeOK
    <3>4. Cardinality(outChannels) \in Nat \ {0}
      BY <3>3, OneLess
    <3>5. outChannels' \ HasAnswered' = outChannels
      BY <3>1, <3>2
    <3>6. cnt' = Cardinality(outChannels' \ HasAnswered')
      BY <3>1, <3>5
    <3>7. cnt' > 0 /\ HasAnswered' \subseteq outChannels'
      BY <3>1, <3>2, <3>4
    <3> QED
      BY <3>6, <3>7 DEF CountInv
  <2> QED
    BY <2>1, <2>2
<1>10. ASSUME Timeout PROVE CountInv'
  <2>1. rpc' # "collect"
    BY <1>10 DEF Timeout, Finish, Receive, broadcastVars
  <2> QED
    BY <2>1 DEF CountInv
<1>11. ASSUME NEW i \in Instances, Started(i) PROVE CountInv'
  <2>1. UNCHANGED <<rpc, cur, cnt, outChannels, got>>
    BY <1>11 DEF Started, clientVars, broadcastVars
  <2> QED
    BY <2>1 DEF CountInv, HasAnswered
<1>12. ASSUME NEW i \in Instances, TakeCommand(i) PROVE CountInv'
  <2>1. UNCHANGED <<rpc, cur, cnt, outChannels, got>>
    BY <1>12 DEF TakeCommand, clientVars, broadcastVars
  <2> QED
    BY <2>1 DEF CountInv, HasAnswered
<1>13. ASSUME NEW i \in Instances, WorkersStopped(i) PROVE CountInv'
  <2>1. UNCHANGED <<rpc, cur, cnt, outChannels, got>>
    BY <1>13 DEF WorkersStopped, clientVars, broadcastVars
  <2> QED
    BY <2>1 DEF CountInv, HasAnswered
<1>14. ASSUME NEW i \in Instances, ReplyMore(i) PROVE CountInv'
  <2>1. /\ i \in outChannels \ HasAnswered /\ IsFiniteSet(outChannels \ HasAnswered)
        /\ {a.from : a \in got'[cur]} = HasAnswered \cup {i}
    BY <1>14, AnswerCounted DEF ReplyMore
  <2>2. UNCHANGED <<rpc, cur, outChannels>> /\ rpc = "collect" /\ cnt > 1 /\ cnt' = cnt - 1
    BY <1>14 DEF ReplyMore
  <2>3. HasAnswered' = HasAnswered \cup {i}
    BY <2>1, <2>2 DEF HasAnswered
  <2>4. (outChannels \ HasAnswered)' = (outChannels \ HasAnswered) \ {i}
    BY <2>2, <2>3
  <2>5. Cardinality((outChannels \ HasAnswered) \ {i}) = Cardinality(outChannels \ HasAnswered) - 1
    BY <2>1, OneLess
  <2>6. cnt \in Nat
    BY DEF TypeOK
  <2>7. cnt' = Cardinality((outChannels \ HasAnswered)')
    BY <2>2, <2>4, <2>5 DEF CountInv
  <2> QED
    BY <2>1, <2>2, <2>3, <2>6, <2>7 DEF CountInv
<1>15. ASSUME NEW i \in Instances, ReplyLast(i) PROVE CountInv'
  <2>1. rpc' # "collect"
    BY <1>15 DEF ReplyLast, Finish, Receive, broadcastVars
  <2> QED
    BY <2>1 DEF CountInv
<1>16. ASSUME NEW i \in Instances, ReplyTooLate(i) PROVE CountInv'
  <2>1. UNCHANGED <<rpc, cur, cnt, outChannels, got>>
    BY <1>16 DEF ReplyTooLate, clientVars, broadcastVars
  <2> QED
    BY <2>1 DEF CountInv, HasAnswered
<1>17. ASSUME NEW i \in Instances, Hang(i) PROVE CountInv'
  <2>1. UNCHANGED <<rpc, cur, cnt, outChannels, got>>
    BY <1>17 DEF Hang, clientVars, broadcastVars
  <2> QED
    BY <2>1 DEF CountInv, HasAnswered
<1> QED
  BY <1>1, <1>2, <1>3, <1>4, <1>5, <1>6, <1>7, <1>8, <1>9, <1>10, <1>11, <1>12, <1>13, <1>14, <1>15, <1>16, <1>17, NextCases

\* What is started belongs to a task, and goes on belonging to it.
LEMMA StartedStep == Inv /\ [Next]_vars => StartedInv'
<1> SUFFICES ASSUME Inv, [Next]_vars PROVE StartedInv'
  OBVIOUS
<1>0. TypeOK /\ ClientInv /\ BroadcastInv /\ InstanceInv /\ StartedInv
  BY DEF Inv
<1> USE <1>0, Ids
<1>1. CASE UNCHANGED vars
  <2>1. UNCHANGED phase
    BY <1>1 DEF vars, instanceVars, TypeOK
  <2> QED
    BY <2>1, Stable DEF StartedInv
<1>2. ASSUME NEW r \in Requests, Type(r) PROVE StartedInv'
  <2>1. UNCHANGED phase
    BY <1>2 DEF Type, instanceVars, TypeOK
  <2> QED
    BY <2>1, Stable DEF StartedInv
<1>3. ASSUME FirstStop PROVE StartedInv'
  <2>1. UNCHANGED phase
    BY <1>3 DEF FirstStop, instanceVars, TypeOK
  <2> QED
    BY <2>1, Stable DEF StartedInv
<1>4. ASSUME SecondStop PROVE StartedInv'
  <2>1. UNCHANGED phase
    BY <1>4 DEF SecondStop, instanceVars, TypeOK
  <2> QED
    BY <2>1, Stable DEF StartedInv
<1>5. ASSUME SignalOnly PROVE StartedInv'
  <2>1. UNCHANGED phase
    BY <1>5 DEF SignalOnly, Interrupt, Exit, instanceVars, TypeOK
  <2> QED
    BY <2>1, Stable DEF StartedInv
<1>6. ASSUME NEW r \in Commands, Answered(r) PROVE StartedInv'
  <2>1. UNCHANGED phase
    BY <1>6 DEF Answered, instanceVars, TypeOK
  <2> QED
    BY <2>1, Stable DEF StartedInv
<1>7. ASSUME NEW r \in Commands, Start(r) PROVE StartedInv'
  <2>1. r \in Requests /\ r \in Instances /\ cmd[r].task \in Tasks /\ r \notin Tasks
    BY <1>7, Starters
  <2>2. UNCHANGED cmd /\ phase' = [phase EXCEPT ![r] = "starting"]
    BY <1>7 DEF Start, Answer
  <2>3. Owner(r)' = cmd[r].task
    BY <2>1, <2>2 DEF Owner
  <2>4. \A j \in Instances \ {r} : phase'[j] = phase[j]
    BY <2>2 DEF TypeOK
  <2> QED
    BY <2>1, <2>3, <2>4, Stable DEF StartedInv
<1>8. ASSUME NEW r \in Commands, Relay(r) PROVE StartedInv'
  <2>1. UNCHANGED phase
    BY <1>8 DEF Relay, instanceVars, TypeOK
  <2> QED
    BY <2>1, Stable DEF StartedInv
<1>9. ASSUME SendOne PROVE StartedInv'
  <2>1. UNCHANGED phase
    BY <1>9 DEF SendOne, instanceVars, TypeOK
  <2> QED
    BY <2>1, Stable DEF StartedInv
<1>10. ASSUME Timeout PROVE StartedInv'
  <2>1. UNCHANGED phase
    BY <1>10 DEF Timeout, instanceVars, TypeOK
  <2> QED
    BY <2>1, Stable DEF StartedInv
<1>11. ASSUME NEW i \in Instances, Started(i) PROVE StartedInv'
  <2>1. \A j \in Instances : phase'[j] # "none" => phase[j] # "none"
    BY <1>11 DEF Started, instanceVars, TypeOK
  <2> QED
    BY <2>1, Stable DEF StartedInv
<1>12. ASSUME NEW i \in Instances, TakeCommand(i) PROVE StartedInv'
  <2>1. \A j \in Instances : phase'[j] # "none" => phase[j] # "none"
    BY <1>12 DEF TakeCommand, instanceVars, TypeOK
  <2> QED
    BY <2>1, Stable DEF StartedInv
<1>13. ASSUME NEW i \in Instances, WorkersStopped(i) PROVE StartedInv'
  <2>1. \A j \in Instances : phase'[j] # "none" => phase[j] # "none"
    BY <1>13 DEF WorkersStopped, instanceVars, TypeOK
  <2> QED
    BY <2>1, Stable DEF StartedInv
<1>14. ASSUME NEW i \in Instances, ReplyMore(i) PROVE StartedInv'
  <2>1. \A j \in Instances : phase'[j] # "none" => phase[j] # "none"
    BY <1>14 DEF ReplyMore, Replied, instanceVars, TypeOK
  <2> QED
    BY <2>1, Stable DEF StartedInv
<1>15. ASSUME NEW i \in Instances, ReplyLast(i) PROVE StartedInv'
  <2>1. \A j \in Instances : phase'[j] # "none" => phase[j] # "none"
    BY <1>15 DEF ReplyLast, Replied, instanceVars, TypeOK
  <2> QED
    BY <2>1, Stable DEF StartedInv
<1>16. ASSUME NEW i \in Instances, ReplyTooLate(i) PROVE StartedInv'
  <2>1. \A j \in Instances : phase'[j] # "none" => phase[j] # "none"
    BY <1>16 DEF ReplyTooLate, Replied, instanceVars, TypeOK
  <2> QED
    BY <2>1, Stable DEF StartedInv
<1>17. ASSUME NEW i \in Instances, Hang(i) PROVE StartedInv'
  <2>1. \A j \in Instances : phase'[j] # "none" => phase[j] # "none"
    BY <1>17 DEF Hang, instanceVars, TypeOK
  <2> QED
    BY <2>1, Stable DEF StartedInv
<1> QED
  BY <1>1, <1>2, <1>3, <1>4, <1>5, <1>6, <1>7, <1>8, <1>9, <1>10, <1>11, <1>12, <1>13, <1>14, <1>15, <1>16, <1>17, NextCases

\* Steps that bring no instance nearer to its answer.
LEMMA DeadQuiet ==
  ASSUME Inv, [Next]_vars,
         \A i \in Instances : phase'[i] = "replying" /\ IsStop(hand[i]) =>
           phase[i] = "replying" /\ (alive'[i] => alive[i]),
         \A i \in Instances : phase'[i] = "replying" => hand'[i] = hand[i]
  PROVE  DeadInv'
<1>0. TypeOK /\ InstanceInv /\ DeadInv /\ PendingInv /\ ClientInv
  BY DEF Inv
<1>1. ASSUME NEW i \in Instances, phase'[i] = "replying", IsStop(hand[i])', alive'[i] PROVE FALSE
  <2>1. hand'[i] = hand[i]
    BY <1>1
  <2>2. hand[i] # None => cmd'[hand[i]] = cmd[hand[i]]
    BY PendingSteady
  <2>3. CASE hand[i] # None
    BY <1>0, <1>1, <2>1, <2>2, <2>3 DEF DeadInv, IsStop
  <2>4. CASE hand[i] = None
    <3>1. InstanceInv'
      BY InstancesStep
    <3> QED
      BY <1>1, <2>1, <2>4, <3>1 DEF InstanceInv
  <2> QED
    BY <2>3, <2>4
<1> QED
  BY <1>1 DEF DeadInv

\* An instance answers a stop after its processes have ended.
LEMMA DeadStep == Inv /\ [Next]_vars => DeadInv'
<1> SUFFICES ASSUME Inv, [Next]_vars PROVE DeadInv'
  OBVIOUS
<1>0. TypeOK /\ InstanceInv /\ DeadInv
  BY DEF Inv
<1> USE <1>0, Ids
<1>1. CASE UNCHANGED vars
  <2>1. UNCHANGED <<phase, hand, alive>>
    BY <1>1 DEF vars, instanceVars, TypeOK
  <2> QED
    BY <2>1, DeadQuiet
<1>2. ASSUME NEW r \in Requests, Type(r) PROVE DeadInv'
  <2>1. UNCHANGED <<phase, hand, alive>>
    BY <1>2 DEF Type, instanceVars, TypeOK
  <2> QED
    BY <2>1, DeadQuiet
<1>3. ASSUME FirstStop PROVE DeadInv'
  <2>1. UNCHANGED <<phase, hand, alive>>
    BY <1>3 DEF FirstStop, instanceVars, TypeOK
  <2> QED
    BY <2>1, DeadQuiet
<1>4. ASSUME SecondStop PROVE DeadInv'
  <2>1. UNCHANGED <<phase, hand, alive>>
    BY <1>4 DEF SecondStop, instanceVars, TypeOK
  <2> QED
    BY <2>1, DeadQuiet
<1>5. ASSUME SignalOnly PROVE DeadInv'
  <2>1. UNCHANGED <<phase, hand, alive>>
    BY <1>5 DEF SignalOnly, Interrupt, Exit, instanceVars, TypeOK
  <2> QED
    BY <2>1, DeadQuiet
<1>6. ASSUME NEW r \in Commands, Answered(r) PROVE DeadInv'
  <2>1. UNCHANGED <<phase, hand, alive>>
    BY <1>6 DEF Answered, instanceVars, TypeOK
  <2> QED
    BY <2>1, DeadQuiet
<1>7. ASSUME NEW r \in Commands, Start(r) PROVE DeadInv'
  <2>1. \A j \in Instances : phase'[j] = "replying" => phase[j] = "replying" /\ hand'[j] = hand[j] /\ alive'[j] = alive[j]
    BY <1>7 DEF Start, instanceVars, TypeOK
  <2> QED
    BY <2>1, DeadQuiet
<1>8. ASSUME NEW r \in Commands, Relay(r) PROVE DeadInv'
  <2>1. UNCHANGED <<phase, hand, alive>>
    BY <1>8 DEF Relay, instanceVars, TypeOK
  <2> QED
    BY <2>1, DeadQuiet
<1>9. ASSUME SendOne PROVE DeadInv'
  <2>1. UNCHANGED <<phase, hand, alive>>
    BY <1>9 DEF SendOne, instanceVars, TypeOK
  <2> QED
    BY <2>1, DeadQuiet
<1>10. ASSUME Timeout PROVE DeadInv'
  <2>1. UNCHANGED <<phase, hand, alive>>
    BY <1>10 DEF Timeout, instanceVars, TypeOK
  <2> QED
    BY <2>1, DeadQuiet
<1>11. ASSUME NEW i \in Instances, Started(i) PROVE DeadInv'
  BY <1>11 DEF Started, DeadInv, IsStop, TypeOK, clientVars
<1>12. ASSUME NEW i \in Instances, TakeCommand(i) PROVE DeadInv'
  <2>1. UNCHANGED <<cmd, alive>>
    BY <1>12 DEF TakeCommand, clientVars
  <2>2. phase'[i] = "replying" => ~(cmd[hand'[i]].type = "stop")
    BY <1>12 DEF TakeCommand, TypeOK
  <2>3. \A j \in Instances \ {i} : phase'[j] = phase[j] /\ hand'[j] = hand[j]
    BY <1>12 DEF TakeCommand, TypeOK
  <2> QED
    BY <2>1, <2>2, <2>3 DEF DeadInv, IsStop
<1>13. ASSUME NEW i \in Instances, WorkersStopped(i) PROVE DeadInv'
  BY <1>13 DEF WorkersStopped, DeadInv, IsStop, TypeOK, clientVars
<1>14. ASSUME NEW i \in Instances, ReplyMore(i) PROVE DeadInv'
  <2>1. \A j \in Instances : phase'[j] = "replying" => phase[j] = "replying" /\ hand'[j] = hand[j] /\ alive'[j] = alive[j]
    BY <1>14 DEF ReplyMore, Replied, instanceVars, TypeOK
  <2> QED
    BY <2>1, DeadQuiet
<1>15. ASSUME NEW i \in Instances, ReplyLast(i) PROVE DeadInv'
  <2>1. \A j \in Instances : phase'[j] = "replying" => phase[j] = "replying" /\ hand'[j] = hand[j] /\ alive'[j] = alive[j]
    BY <1>15 DEF ReplyLast, Replied, instanceVars, TypeOK
  <2> QED
    BY <2>1, DeadQuiet
<1>16. ASSUME NEW i \in Instances, ReplyTooLate(i) PROVE DeadInv'
  <2>1. \A j \in Instances : phase'[j] = "replying" => phase[j] = "replying" /\ hand'[j] = hand[j] /\ alive'[j] = alive[j]
    BY <1>16 DEF ReplyTooLate, Replied, instanceVars, TypeOK
  <2> QED
    BY <2>1, DeadQuiet
<1>17. ASSUME NEW i \in Instances, Hang(i) PROVE DeadInv'
  <2>1. \A j \in Instances : phase'[j] = "replying" => phase[j] = "replying" /\ hand'[j] = hand[j] /\ alive'[j] = alive[j]
    BY <1>17 DEF Hang, instanceVars, TypeOK
  <2> QED
    BY <2>1, DeadQuiet
<1> QED
  BY <1>1, <1>2, <1>3, <1>4, <1>5, <1>6, <1>7, <1>8, <1>9, <1>10, <1>11, <1>12, <1>13, <1>14, <1>15, <1>16, <1>17, NextCases

=============================================================================
