--------------------------- MODULE KeepAlive_proofs ---------------------------
(***************************************************************************)
(* Theorems about KeepAlive, for any instances, task names, pids and       *)
(* bounds.                                                                 *)
(***************************************************************************)
EXTENDS KeepAlive, TLAPS

\* What is about to be sent to a task was decoded.
Decoded == \A h \in Instances : handler[h] = "send" => message[h] \in KeepAlives

Inv == TypeOK /\ Decoded /\ ClosedOnceByTask

LEMMA InvInit == Init => Inv
BY NamesAssumption
   DEF Init, Inv, TypeOK, Decoded, ClosedOnceByTask, HandlerStates,
       TaskStates, Bodies

\* A process publishes the name of its own task; a decoded message is no garbage.
LEMMA Published ==
  /\ TypeOK => \A p \in Pids : process[p] # None => KeepAliveOf(p) \in KeepAlives
  /\ Garbage \notin KeepAlives
BY InstancesAssumption DEF TypeOK, KeepAliveOf, KeepAlives, Names, Garbage

\* The processes and the publisher touch no channel.
LEMMA ProcessKeeps ==
  ASSUME Inv, ProcessStep
  PROVE  Inv'
<1> USE DEF Inv, TypeOK
<1>1. ASSUME NEW h \in Instances, NEW p \in Pids, StartProcess(h, p) PROVE Inv'
  BY <1>1 DEF StartProcess, handlerVars, channelVars, Decoded, ClosedOnceByTask
<1>2. ASSUME NEW p \in Pids, EndProcess(p) PROVE Inv'
  BY <1>2 DEF EndProcess, handlerVars, channelVars, taskVars, Decoded, ClosedOnceByTask
<1>3. ASSUME NEW name \in Names, NEW body \in Bodies, Publish(name, body) PROVE Inv'
  <2>1. [topic |-> name, body |-> body] \in [topic : Names, body : Bodies]
    OBVIOUS
  <2>2. wire' \in Seq([topic : Names, body : Bodies])
    BY <1>3, <2>1 DEF Publish
  <2> QED
    BY <1>3, <2>2 DEF Publish, handlerVars, channelVars, taskVars, Decoded,
                      ClosedOnceByTask
<1>4. ASSUME NEW p \in Pids, SetAlive(p) PROVE Inv'
  <2>1. KeepAliveOf(p) \in Bodies /\ NameOf[process[p]] \in Names
    BY <1>4, Published DEF SetAlive, Bodies, Names
  <2> QED
    BY <1>3, <1>4, <2>1 DEF SetAlive
<1>5. CASE PublishGarbage
  BY <1>3, <1>5 DEF PublishGarbage, Bodies
<1> QED
  BY <1>1, <1>2, <1>4, <1>5 DEF ProcessStep

\* The head of a sequence is one of its elements.
LEMMA HeadOf == \A S : \A s \in Seq(S) : s # << >> => Head(s) \in S
OBVIOUS

\* The proxy gives a handler only what was published.
LEMMA ForwardKeeps ==
  ASSUME Inv, Forward
  PROVE  Inv'
<1> USE DEF Inv, TypeOK
<1>1. wire' \in Seq([topic : Names, body : Bodies]) /\ Head(wire).body \in Bodies
  <2>1. wire # << >> /\ wire' = Tail(wire)
    BY Zenon DEF Forward
  <2>2. Head(wire) \in [topic : Names, body : Bodies]
    BY <2>1, HeadOf, Zenon
  <2> QED
    BY <2>1, <2>2
<1>2. PICK S \in SUBSET {h \in Subscribed(Head(wire).topic) : Len(socket[h]) < SocketCap} :
        socket' = [h \in Instances |->
                     IF h \in S THEN Append(socket[h], Head(wire).body) ELSE socket[h]]
  BY Zenon DEF Forward
<1>3. socket' \in [Instances -> Seq(Bodies)]
  BY <1>1, <1>2
<1> QED
  BY <1>1, <1>3 DEF Forward, channelVars, taskVars, Decoded, ClosedOnceByTask

\* A handler sends what it decoded, and ends on a closed channel only.
LEMMA HandlerKeeps ==
  ASSUME Inv, NEW h \in Instances, HandlerStep(h)
  PROVE  Inv'
<1> USE DEF Inv, TypeOK, HandlerStates
<1>1. CASE Poll(h)
  <2>1. message'[h] \in Bodies /\ socket' \in [Instances -> Seq(Bodies)]
    BY <1>1 DEF Poll
  <2>2. message'[h] # Garbage => message'[h] \in KeepAlives
    BY <2>1 DEF Bodies
  <2>3. \A g \in Instances \ {h} : message'[g] = message[g] /\ handler'[g] = handler[g]
    BY <1>1 DEF Poll
  <2>4. handler'[h] \in {"poll", "send"} /\ (handler'[h] = "send" => message'[h] # Garbage)
    BY <1>1 DEF Poll
  <2>5. Decoded'
    BY <2>2, <2>3, <2>4 DEF Decoded
  <2>6. message' \in [Instances -> Bodies]
    BY <1>1, <2>1 DEF Poll
  <2>7. handler' \in [Instances -> HandlerStates]
    BY <1>1 DEF Poll
  <2> QED
    BY <1>1, <2>1, <2>3, <2>4, <2>5, <2>6, <2>7
       DEF Poll, processVars, channelVars, taskVars, ClosedOnceByTask
<1>2. CASE SendToTask(h)
  <2>1. message[h] \in KeepAlives
    BY <1>2 DEF SendToTask, Decoded
  <2>2. channel' \in [Instances -> Seq(KeepAlives)]
    BY <1>2, <2>1 DEF SendToTask
  <2>3. message' \in [Instances -> Bodies]
    BY <1>2 DEF SendToTask, Bodies
  <2>4. Decoded'
    BY <1>2 DEF SendToTask, Decoded
  <2> QED
    BY <1>2, <2>2, <2>3, <2>4
       DEF SendToTask, processVars, taskVars, ClosedOnceByTask
<1>3. CASE SendOnClosed(h)
  BY <1>3 DEF SendOnClosed, processVars, channelVars, taskVars, Decoded, ClosedOnceByTask
<1> QED
  BY <1>1, <1>2, <1>3 DEF HandlerStep

\* A task closes its own channel, once, when it has ended.
LEMMA TaskKeeps ==
  ASSUME Inv, NEW h \in Instances,
         StartTask(h) \/ TakeKeepAlive(h) \/ StopTask(h) \/ CloseChannel(h)
  PROVE  Inv'
<1> USE DEF Inv, TypeOK, HandlerStates, TaskStates
<1>1. CASE StartTask(h)
  BY <1>1 DEF StartTask, processVars, channelVars, Decoded, ClosedOnceByTask
<1>2. CASE TakeKeepAlive(h)
  <2>1. Head(channel[h]) \in KeepAlives /\ channel' \in [Instances -> Seq(KeepAlives)]
    BY <1>2 DEF TakeKeepAlive
  <2>2. UNCHANGED <<process, wire, socket, handler, message, closed, entries>>
    BY <1>2 DEF TakeKeepAlive, processVars, handlerVars
  <2>3. \/ UNCHANGED task
        \/ task[h] = "running" /\ task' = [task EXCEPT ![h] = "hung"]
    BY <1>2 DEF TakeKeepAlive
  <2> QED
    BY <2>1, <2>2, <2>3 DEF Decoded, ClosedOnceByTask
<1>3. CASE StopTask(h)
  BY <1>3 DEF StopTask, handlerVars, channelVars, Decoded, ClosedOnceByTask
<1>4. CASE CloseChannel(h)
  BY <1>4 DEF CloseChannel, processVars, handlerVars, Decoded, ClosedOnceByTask
<1> QED
  BY <1>1, <1>2, <1>3, <1>4

LEMMA InvStep == Inv /\ [Next]_vars => Inv'
<1> SUFFICES ASSUME Inv, [Next]_vars PROVE Inv'
  OBVIOUS
<1>1. CASE UNCHANGED vars
  BY <1>1 DEF vars, processVars, handlerVars, channelVars, taskVars, Inv, TypeOK, Decoded,
              ClosedOnceByTask
<1> QED
  BY <1>1, ProcessKeeps, ForwardKeeps, HandlerKeeps, TaskKeeps DEF Next

LEMMA Invariance == Spec => []Inv
BY InvInit, InvStep, PTL DEF Spec

\* Every variable keeps its type; in particular only what was decoded is sent to a
\* task.
THEOREM KeepAliveTypeCorrect == Spec => []TypeOK
<1>1. Inv => TypeOK
  BY DEF Inv
<1> QED
  BY <1>1, Invariance, PTL

\* The handler and the task both close the channel, and the close of the task,
\* whose panic nothing recovers, always comes first.
THEOREM TheTaskClosesFirst == Spec => []ClosedOnceByTask
<1>1. Inv => ClosedOnceByTask
  BY DEF Inv
<1> QED
  BY <1>1, Invariance, PTL

=============================================================================
