--------------------------- MODULE DispatchProofs ---------------------------
(***************************************************************************)
(* Safety of Dispatch for any tickets, submissions, number of concurrent   *)
(* activations, worker limit and failures.                                 *)
(***************************************************************************)
EXTENDS DispatchOnce, QueueOpsProofs

USE SubmissionsAssumption, NoTaskAssumption

-----------------------------------------------------------------------------
(* The operations on the queue that the handlers share.                         *)
LEMMA QueueSteps ==
  ASSUME TypeOK
  PROVE  /\ \A task \in Task : Enqueue(queue, task) \in Seq(Task)
         /\ \A task \in Task : PutBack(task) \in Seq(Task)
         /\ \A t : Without(queue, t) \in Seq(Task)
         /\ queue # << >> => Dequeued \in Seq(Task) /\ Head(queue) \in Task
<1>1. queue \in Seq(Task)
  BY DEF TypeOK
<1> QED BY <1>1, EnqueueProperties, WithoutProperties, TailProperties DEF PutBack, Dequeued

LEMMA RegistrySteps ==
  ASSUME TypeOK, NEW t, NEW status \in EntryStatus
  PROVE  /\ SetStatus(t, status) \in [Tickets -> EntryStatus]
         /\ DropEntry(t) \in [Tickets -> EntryStatus]
BY DEF TypeOK, SetStatus, DropEntry, EntryStatus

(* What a catch block leaves behind.                                            *)
LEMMA CatchType ==
  ASSUME TypeOK, NEW s \in Slots, call[s].pc \in ProvisionPCs, Catch(s),
         box' \in [Tickets -> BoxState]
  PROVE  TypeOK'
<1>1. call[s].task \in Task
  BY DEF TypeOK
<1>2. queue' \in Seq(Task)
  <2>1. queue \in Seq(Task)
    BY DEF TypeOK
  <2> QED BY <1>1, <2>1, QueueSteps DEF Catch
<1>3. registry' \in [Tickets -> EntryStatus]
  BY RegistrySteps DEF Catch, EntryStatus
<1>4. running' \in Task \cup {NoTask} /\ acked' \in SUBSET Tickets
  BY DEF Catch, TypeOK
<1>5. /\ call' \in [Slots -> Call]
      /\ \A r \in Slots : r # s => call'[r] = call[r]
      /\ call'[s] = Idle
  BY DEF Catch, TypeOK, Call, Idle, Activation, PC, Flow
<1> QED BY <1>2, <1>3, <1>4, <1>5 DEF TypeOK, Idle, Activation, ProvisionPCs

(* An activation record with the parts its await needs keeps the type.          *)
LEMMA CallType ==
  ASSUME TypeOK, NEW s \in Slots, NEW c \in Call,
         c.pc \in ProvisionPCs => c.task \in Task,
         c.pc = "notify" /\ c.flow = "completed" => c.task \in Task,
         c.pc \in {"posted", "kill"} => c.peer \in Tickets,
         call' = [call EXCEPT ![s] = c],
         queue' \in Seq(Task),
         running' \in Task \cup {NoTask},
         registry' \in [Tickets -> EntryStatus],
         box' \in [Tickets -> BoxState],
         acked' \in SUBSET Tickets
  PROVE  TypeOK'
<1>1. /\ call' \in [Slots -> Call]
      /\ \A r \in Slots : call'[r] = IF r = s THEN c ELSE call[r]
  BY DEF TypeOK
<1> QED BY <1>1 DEF TypeOK

LEMMA ActivationType ==
  ASSUME NEW pc \in PC, NEW flow \in Flow,
         NEW task \in Task \cup {NoTask}, NEW peer \in Tickets \cup {NoTask}
  PROVE  /\ Activation(pc, flow, task, peer) \in Call
         /\ Activation(pc, flow, task, peer).pc = pc
         /\ Activation(pc, flow, task, peer).flow = flow
         /\ Activation(pc, flow, task, peer).task = task
         /\ Activation(pc, flow, task, peer).peer = peer
BY DEF Activation, Call

LEMMA IdleType == Idle \in Call /\ Idle.pc = "idle"
BY DEF Idle, Activation, Call, PC, Flow

-----------------------------------------------------------------------------
(* Type correctness, one step per action.                                       *)
LEMMA TypeStep == TypeOK /\ [Next]_vars => TypeOK'
<1> SUFFICES ASSUME TypeOK, [Next]_vars PROVE TypeOK'
  OBVIOUS
<1>0. /\ queue \in Seq(Task)
      /\ running \in Task \cup {NoTask}
      /\ registry \in [Tickets -> EntryStatus]
      /\ box \in [Tickets -> BoxState]
      /\ call \in [Slots -> Call]
      /\ acked \in SUBSET Tickets
  BY DEF TypeOK
<1>A. ASSUME NEW t, NEW status \in EntryStatus
      PROVE  /\ SetStatus(t, status) \in [Tickets -> EntryStatus]
             /\ DropEntry(t) \in [Tickets -> EntryStatus]
             /\ [registry EXCEPT ![t] = status] \in [Tickets -> EntryStatus]
  BY RegistrySteps, <1>0
<1>B. ASSUME NEW t, NEW state \in BoxState
      PROVE  [box EXCEPT ![t] = state] \in [Tickets -> BoxState]
  BY <1>0
<1>C. ASSUME NEW task \in Task PROVE task.ticket \in Tickets
  BY DEF Task
<1>1. ASSUME NEW s \in Slots, NEW task \in Task, PlaneInterrupt(s, task) PROVE TypeOK'
  <2>1. running \in Task
    BY <1>0, <1>1 DEF PlaneInterrupt, ShouldInterrupt
  <2>2. Activation("kill", "p0", task, running.ticket) \in Call
    BY <2>1, <1>C, ActivationType DEF PC, Flow
  <2>3. queue' \in Seq(Task) /\ registry' \in [Tickets -> EntryStatus]
    BY <1>1, <1>A, QueueSteps DEF PlaneInterrupt, EntryStatus
  <2> QED BY <1>0, <1>1, <1>C, <2>1, <2>2, <2>3, CallType DEF PlaneInterrupt, Activation
<1>2. ASSUME NEW s \in Slots, NEW task \in Task, PlaneImmediate(s, task) PROVE TypeOK'
  <2>1. Activation("list", "plane", task, NoTask) \in Call
    BY ActivationType DEF PC, Flow
  <2>2. registry' \in [Tickets -> EntryStatus]
    BY <1>2, <1>A DEF PlaneImmediate, EntryStatus
  <2> QED BY <1>0, <1>2, <2>1, <2>2, CallType DEF PlaneImmediate, Activation
<1>3. ASSUME NEW task \in Task, PlaneQueued(task) PROVE TypeOK'
  <2>1. queue' \in Seq(Task) /\ registry' \in [Tickets -> EntryStatus]
    BY <1>3, <1>A, QueueSteps DEF PlaneQueued, EntryStatus
  <2>2. acked' \in SUBSET Tickets
    BY <1>0, <1>3, <1>C DEF PlaneQueued
  <2> QED BY <1>0, <1>3, <2>1, <2>2 DEF PlaneQueued, TypeOK
<1>4. ASSUME NEW s \in Slots, Kill(s) PROVE TypeOK'
  <2>1. call[s].peer \in Tickets /\ call[s].task \in Task
    BY <1>4 DEF Kill, TypeOK, ProvisionPCs
  <2>2. registry' \in [Tickets -> EntryStatus] /\ box' \in [Tickets -> BoxState]
    BY <1>4, <1>A, <1>B DEF Kill, RemoveBox, EntryStatus, BoxState
  <2>3. \A r \in Slots : /\ LoseStart(call[s].peer)[r] \in Call
                         /\ LoseStart(call[s].peer)[r].task = call[r].task
                         /\ LoseStart(call[s].peer)[r].peer = call[r].peer
                         /\ LoseStart(call[s].peer)[r].flow = call[r].flow
                         /\ \/ LoseStart(call[s].peer)[r].pc = call[r].pc
                            \/ /\ LoseStart(call[s].peer)[r].pc = "lost"
                               /\ call[r].pc = "start"
    BY <1>0 DEF LoseStart, Call, PC
  <2>4. call' = [r \in Slots |-> IF r = s THEN [LoseStart(call[s].peer)[r] EXCEPT !.pc = "list", !.peer = NoTask]
                                          ELSE LoseStart(call[s].peer)[r]]
    BY <1>4 DEF Kill, LoseStart
  <2>5. /\ \A r \in Slots : call'[r] \in Call
        /\ call'[s].pc = "list" /\ call'[s].task = call[s].task
        /\ \A r \in Slots : r # s => call'[r] = LoseStart(call[s].peer)[r]
    BY <2>3, <2>4 DEF Call, PC
  <2>6. call' \in [Slots -> Call]
    BY <2>4, <2>5
  <2>7. \A r \in Slots :
          /\ call'[r].pc \in ProvisionPCs => call'[r].task \in Task
          /\ call'[r].pc = "notify" /\ call'[r].flow = "completed" => call'[r].task \in Task
          /\ call'[r].pc \in {"posted", "kill"} => call'[r].peer \in Tickets
    BY <2>1, <2>3, <2>5 DEF TypeOK, ProvisionPCs
  <2> QED BY <1>0, <1>4, <2>2, <2>6, <2>7 DEF Kill, TypeOK
<1>5. ASSUME NEW s \in Slots, List(s) PROVE TypeOK'
  <2>1. call[s].task \in Task
    BY <1>5 DEF List, TypeOK, ProvisionPCs
  <2>2. [call[s] EXCEPT !.pc = "create"] \in Call
    BY <1>0 DEF Call, PC
  <2>3. call' = [call EXCEPT ![s] = [call[s] EXCEPT !.pc = "create"]]
    BY <1>0, <1>5 DEF List
  <2> QED BY <1>0, <1>5, <2>1, <2>2, <2>3, CallType DEF List, Call
<1>6. ASSUME NEW s \in Slots, Create(s) PROVE TypeOK'
  <2>1. call[s].task \in Task
    BY <1>6 DEF Create, TypeOK, ProvisionPCs
  <2>2. [call[s] EXCEPT !.pc = "start"] \in Call
    BY <1>0 DEF Call, PC
  <2>3. call' = [call EXCEPT ![s] = [call[s] EXCEPT !.pc = "start"]]
    BY <1>0, <1>6 DEF Create
  <2>4. box' \in [Tickets -> BoxState]
    BY <1>6, <1>B DEF Create, BoxState
  <2> QED BY <1>0, <1>6, <2>1, <2>2, <2>3, <2>4, CallType DEF Create, Call
<1>7. ASSUME NEW s \in Slots, Start(s) PROVE TypeOK'
  <2>1. call[s].task \in Task
    BY <1>7 DEF Start, TypeOK, ProvisionPCs
  <2>2. registry' \in [Tickets -> EntryStatus] /\ box' \in [Tickets -> BoxState]
    BY <1>7, <1>A, <1>B DEF Start, EntryStatus, BoxState
  <2>3. queue' \in Seq(Task)
    BY <1>0, <1>7, <2>1, QueueSteps DEF Start
  <2>4. acked' \in SUBSET Tickets /\ running' \in Task \cup {NoTask}
    BY <1>0, <1>7, <1>C, <2>1 DEF Start
  <2>5. call' = [call EXCEPT ![s] = Idle]
    BY <1>7 DEF Start
  <2> QED BY <2>2, <2>3, <2>4, <2>5, IdleType, CallType DEF ProvisionPCs
<1>8. ASSUME NEW s \in Slots, SpawnFails(s) PROVE TypeOK'
  <2>1. call[s].pc \in ProvisionPCs
    BY <1>8 DEF SpawnFails, Throws, ProvisionPCs
  <2> QED BY <1>0, <1>8, <2>1, CatchType DEF SpawnFails
<1>9. ASSUME NEW s \in Slots, KillFailsLate(s) PROVE TypeOK'
  <2>1. call[s].pc \in ProvisionPCs
    BY <1>9 DEF KillFailsLate, ProvisionPCs
  <2>2. box' \in [Tickets -> BoxState]
    BY <1>9, <1>B DEF KillFailsLate, RemoveBox, BoxState
  <2> QED BY <1>9, <2>1, <2>2, CatchType DEF KillFailsLate
<1>E. ASSUME NEW s \in Slots, SpawnFailsLate(s) PROVE TypeOK'
  <2>1. call[s].pc \in ProvisionPCs
    BY <1>E DEF SpawnFailsLate, ProvisionPCs
  <2>2. box' \in [Tickets -> BoxState]
    BY <1>E, <1>B DEF SpawnFailsLate, BoxState
  <2> QED BY <1>E, <2>1, <2>2, CatchType DEF SpawnFailsLate
<1>10. ASSUME NEW s \in Slots, Completed(s) PROVE TypeOK'
  <2>1. registry' \in [Tickets -> EntryStatus]
    BY <1>10, <1>A DEF Completed, EntryStatus
  <2>2. running' \in Task \cup {NoTask} /\ acked' \in SUBSET Tickets /\ box' \in [Tickets -> BoxState]
    BY <1>0, <1>10 DEF Completed, ClearRunning
  <2>3. CASE queue = << >>
    <3>1. call' = [call EXCEPT ![s] = Idle] /\ queue' = queue
      BY <1>10, <2>3 DEF Completed
    <3> QED BY <1>0, <2>1, <2>2, <3>1, IdleType, CallType DEF ProvisionPCs
  <2>4. CASE queue # << >>
    <3>1. queue' \in Seq(Task) /\ Head(queue) \in Task
      BY <1>10, <2>4, QueueSteps DEF Completed
    <3>2. Activation("notify", "completed", Head(queue), NoTask) \in Call
      BY <3>1, ActivationType DEF PC, Flow
    <3>3. call' = [call EXCEPT ![s] = Activation("notify", "completed", Head(queue), NoTask)]
      BY <1>10, <2>4 DEF Completed
    <3> QED BY <2>1, <2>2, <3>1, <3>2, <3>3, CallType DEF Activation, ProvisionPCs
  <2> QED BY <2>3, <2>4
<1>11. ASSUME NEW s \in Slots, Blocked(s) PROVE TypeOK'
  <2>1. registry' \in [Tickets -> EntryStatus]
    BY <1>11, <1>A DEF Blocked, EntryStatus
  <2>2. running' \in Task \cup {NoTask} /\ acked' \in SUBSET Tickets /\ box' \in [Tickets -> BoxState]
    BY <1>0, <1>11 DEF Blocked, ClearRunning
  <2>3. queue' \in Seq(Task)
    BY <1>11, QueueSteps DEF Blocked
  <2>4. Activation("notify", "blocked", NoTask, NoTask) \in Call
    BY ActivationType DEF PC, Flow
  <2>5. call' = [call EXCEPT ![s] = Activation("notify", "blocked", NoTask, NoTask)]
    BY <1>11 DEF Blocked
  <2> QED BY <2>1, <2>2, <2>3, <2>4, <2>5, CallType DEF Activation, ProvisionPCs
<1>D. ASSUME NEW s \in Slots, NEW task \in Task, SpawnTask(s, task), queue' \in Seq(Task),
             UNCHANGED <<running, box, acked>>
      PROVE  TypeOK'
  <2>1. Activation("list", "spawn", task, NoTask) \in Call
    BY ActivationType DEF PC, Flow
  <2>2. registry' \in [Tickets -> EntryStatus]
    BY <1>D, <1>A DEF SpawnTask, EntryStatus
  <2>3. call' = [call EXCEPT ![s] = Activation("list", "spawn", task, NoTask)]
    BY <1>D DEF SpawnTask
  <2> QED BY <1>0, <1>D, <2>1, <2>2, <2>3, CallType DEF Activation
<1>12. ASSUME NEW s \in Slots, CompletedNotified(s) PROVE TypeOK'
  <2>1. call[s].task \in Task
    BY <1>12 DEF CompletedNotified, TypeOK
  <2> QED BY <1>0, <1>12, <1>D, <2>1 DEF CompletedNotified
<1>13. ASSUME NEW s \in Slots, BlockedNotified(s) PROVE TypeOK'
  <2>1. CASE queue # << >> /\ queue' = Dequeued /\ SpawnTask(s, Head(queue))
    BY <1>13, <1>D, <2>1, QueueSteps DEF BlockedNotified
  <2>2. CASE call' = [call EXCEPT ![s] = Idle] /\ UNCHANGED <<queue, registry>>
    BY <1>0, <1>13, <2>2, IdleType, CallType DEF BlockedNotified, ProvisionPCs
  <2> QED BY <1>13, <2>1, <2>2 DEF BlockedNotified
<1>14. ASSUME NEW t \in Tickets, NEW s \in Slots, WorkerReports(t, s) PROVE TypeOK'
  <2>1. PICK flow \in {"completed", "blocked"} :
           call' = [call EXCEPT ![s] = Activation("posted", flow, NoTask, t)]
    BY <1>14 DEF WorkerReports
  <2>2. Activation("posted", flow, NoTask, t) \in Call
    BY ActivationType DEF PC, Flow
  <2>3. box' \in [Tickets -> BoxState]
    BY <1>14, <1>B DEF WorkerReports, BoxState
  <2> QED BY <1>0, <1>14, <2>1, <2>2, <2>3, CallType DEF WorkerReports, Activation, ProvisionPCs
<1>15. ASSUME NEW s \in Slots, ReportLost(s) PROVE TypeOK'
  BY <1>0, <1>15, IdleType, CallType DEF ReportLost, ProvisionPCs
<1>16. ASSUME NEW t \in Tickets, WorkerExits(t) PROVE TypeOK'
  <2>1. box' \in [Tickets -> BoxState]
    BY <1>16, <1>B DEF WorkerExits, RemoveBox, BoxState
  <2> QED BY <1>16, <2>1 DEF WorkerExits, TypeOK
<1>17. CASE UNCHANGED vars
  BY <1>17 DEF vars, TypeOK
<1> QED
  BY <1>1, <1>2, <1>3, <1>4, <1>5, <1>6, <1>7, <1>8, <1>9, <1>10, <1>11, <1>12, <1>13,
     <1>14, <1>15, <1>16, <1>17, <1>E
  DEF Next, Plane, Workers, Resume

LEMMA TypeInit == Init => TypeOK
BY IdleType DEF Init, TypeOK, EntryStatus, BoxState, ProvisionPCs, Idle, Activation

(* Every variable keeps its type, and every activation has the task and the     *)
(* ticket it goes on with.                                                      *)
THEOREM TypeCorrect == Spec => []TypeOK
BY TypeInit, TypeStep, PTL DEF Spec

-----------------------------------------------------------------------------
(* Priority order.  A handler inserts with enqueue(), filters, or shifts.       *)
LEMMA SortedStep == TypeOK /\ QueueSorted /\ [Next]_vars => QueueSorted'
<1> SUFFICES ASSUME TypeOK, QueueSorted, [Next]_vars PROVE QueueSorted'
  OBVIOUS
<1>1. queue \in Seq(Task)
  BY DEF TypeOK
<1>2. /\ \A task \in Task : Sorted(Enqueue(queue, task))
      /\ \A t : Sorted(Without(queue, t))
      /\ queue # << >> => Sorted(Tail(queue))
  BY <1>1, EnqueueProperties, WithoutProperties, TailProperties DEF QueueSorted
<1>3. \A s \in Slots : call[s].pc \in ProvisionPCs => call[s].task \in Task
  BY DEF TypeOK
<1>4. \/ UNCHANGED queue
      \/ \E task \in Task : queue' = Enqueue(queue, task)
      \/ \E t : queue' = Without(queue, t)
      \/ queue # << >> /\ queue' = Tail(queue)
  <2>1. ASSUME NEW s \in Slots, Catch(s), call[s].pc \in ProvisionPCs
        PROVE  \/ UNCHANGED queue
               \/ \E task \in Task : queue' = Enqueue(queue, task)
               \/ \E t : queue' = Without(queue, t)
    BY <1>3, <2>1 DEF Catch, PutBack
  <2>2. ASSUME NEW s \in Slots, SpawnFails(s) \/ KillFailsLate(s) \/ SpawnFailsLate(s)
        PROVE  Catch(s) /\ call[s].pc \in ProvisionPCs
    BY <2>2 DEF SpawnFails, KillFailsLate, SpawnFailsLate, Throws, ProvisionPCs
  <2>3. ASSUME NEW s \in Slots, Start(s)
        PROVE  UNCHANGED queue \/ \E task \in Task : queue' = Enqueue(queue, task)
    BY <1>3, <2>3 DEF Start, ProvisionPCs
  <2>4. ASSUME NEW s \in Slots, Completed(s) \/ BlockedNotified(s)
        PROVE  UNCHANGED queue \/ (queue # << >> /\ queue' = Tail(queue))
    BY <2>4 DEF Completed, BlockedNotified, Dequeued
  <2>5. ASSUME NEW s \in Slots, Kill(s) \/ List(s) \/ Create(s) \/ CompletedNotified(s) \/ ReportLost(s)
        PROVE  UNCHANGED queue
    BY <2>5 DEF Kill, List, Create, CompletedNotified, ReportLost
  <2>6. ASSUME NEW s \in Slots, Blocked(s) PROVE \E t : queue' = Without(queue, t)
    BY <2>6 DEF Blocked
  <2>7. ASSUME NEW t \in Tickets, WorkerExits(t) \/ \E s \in Slots : WorkerReports(t, s)
        PROVE  UNCHANGED queue
    BY <2>7 DEF WorkerExits, WorkerReports
  <2>8. ASSUME NEW task \in Task, Plane(task)
        PROVE  UNCHANGED queue \/ queue' = Enqueue(queue, task)
    BY <2>8 DEF Plane, PlaneQueued, PlaneImmediate, PlaneInterrupt
  <2> QED
    BY <2>1, <2>2, <2>3, <2>4, <2>5, <2>6, <2>7, <2>8 DEF Next, Workers, Resume, vars
<1> QED BY <1>2, <1>4 DEF QueueSorted

LEMMA SortedInit == Init => QueueSorted
BY DEF Init, QueueSorted, Sorted

(* Whatever the handlers do to the queue in whatever order, it stays in         *)
(* priority order.                                                              *)
THEOREM QueueStaysSorted == Spec => []QueueSorted
<1>1. Init => TypeOK /\ QueueSorted
  BY TypeInit, SortedInit
<1>2. TypeOK /\ QueueSorted /\ [Next]_vars => (TypeOK /\ QueueSorted)'
  BY TypeStep, SortedStep
<1> QED BY <1>1, <1>2, PTL DEF Spec

-----------------------------------------------------------------------------
(* BOOTING entries.  An activation that stops provisioning t without recording  *)
(* it as RUNNING removes the entry; one that is stopped by another's kill goes  *)
(* on to fail.                                                                  *)
LEMMA BootingStep == TypeOK /\ BootingOwned /\ [Next]_vars => BootingOwned'
<1> SUFFICES ASSUME TypeOK, BootingOwned, [Next]_vars,
                    NEW t \in Tickets, registry'[t] = "BOOTING"
             PROVE  \E s \in Slots : Provisioning(s, t)'
  BY DEF BootingOwned
<1>0. /\ call \in [Slots -> Call]
      /\ registry \in [Tickets -> EntryStatus]
      /\ \A s \in Slots : call[s].pc \in ProvisionPCs => call[s].task \in Task /\ call[s].task.ticket \in Tickets
  BY DEF TypeOK, Task
<1>1. registry[t] = "BOOTING" => \E s \in Slots : Provisioning(s, t)
  BY DEF BootingOwned
<1>2. CASE UNCHANGED <<registry, call>>
  BY <1>1, <1>2 DEF Provisioning
<1>3. ASSUME NEW s \in Slots, NEW task \in Task,
             registry' = [registry EXCEPT ![task.ticket] = "BOOTING"],
             NEW pc \in ProvisionPCs, NEW flow, NEW peer,
             call[s].pc \notin ProvisionPCs,
             call' = [call EXCEPT ![s] = Activation(pc, flow, task, peer)]
      PROVE  \E r \in Slots : Provisioning(r, t)'
  <2>1. CASE task.ticket = t
    BY <1>0, <1>3, <2>1 DEF Provisioning, Activation
  <2>2. CASE task.ticket # t
    <3>1. PICK r \in Slots : Provisioning(r, t)
      BY <1>0, <1>1, <1>3, <2>2
    <3> QED BY <1>0, <1>3, <3>1 DEF Provisioning
  <2> QED BY <2>1, <2>2
<1>4. ASSUME NEW s \in Slots, call[s].pc \notin ProvisionPCs,
             NEW c, call' = [call EXCEPT ![s] = c],
             registry'[t] = "BOOTING" => registry[t] = "BOOTING"
      PROVE  \E r \in Slots : Provisioning(r, t)'
  <2>1. PICK r \in Slots : Provisioning(r, t)
    BY <1>1, <1>4
  <2> QED BY <1>0, <1>4, <2>1 DEF Provisioning
<1>5. ASSUME NEW task \in Task, Plane(task) PROVE \E r \in Slots : Provisioning(r, t)'
  <2>1. ASSUME NEW s \in Slots, PlaneInterrupt(s, task) PROVE \E r \in Slots : Provisioning(r, t)'
    BY <2>1, <1>3 DEF PlaneInterrupt, ProvisionPCs
  <2>2. ASSUME NEW s \in Slots, PlaneImmediate(s, task) PROVE \E r \in Slots : Provisioning(r, t)'
    BY <2>2, <1>3 DEF PlaneImmediate, ProvisionPCs
  <2>3. CASE PlaneQueued(task)
    <3>1. registry[t] = "BOOTING" /\ UNCHANGED call
      BY <1>0, <2>3 DEF PlaneQueued
    <3> QED BY <1>1, <3>1 DEF Provisioning
  <2> QED BY <1>5, <2>1, <2>2, <2>3 DEF Plane
<1>6. ASSUME NEW s \in Slots, Kill(s) PROVE \E r \in Slots : Provisioning(r, t)'
  <2>1. registry[t] = "BOOTING"
    BY <1>0, <1>6 DEF Kill, SetStatus
  <2>2. PICK r \in Slots : Provisioning(r, t)
    BY <1>1, <2>1
  <2>3. LoseStart(call[s].peer)[r].pc \in ProvisionPCs /\ LoseStart(call[s].peer)[r].task = call[r].task
    BY <1>0, <2>2 DEF LoseStart, Provisioning, ProvisionPCs, Call
  <2>4. call'[r].pc \in ProvisionPCs /\ call'[r].task = call[r].task
    <3>1. LoseStart(call[s].peer)[s] \in Call
      BY <1>0 DEF LoseStart, Call, PC
    <3> QED BY <1>6, <2>3, <3>1 DEF Kill, ProvisionPCs, Call, LoseStart
  <2> QED BY <2>2, <2>4 DEF Provisioning
<1>7. ASSUME NEW s \in Slots, List(s) \/ Create(s) PROVE \E r \in Slots : Provisioning(r, t)'
  <2>1. registry' = registry
    BY <1>7 DEF List, Create
  <2>2. PICK r \in Slots : Provisioning(r, t)
    BY <1>1, <2>1
  <2>3. call'[r].pc \in ProvisionPCs /\ call'[r].task = call[r].task
    BY <1>0, <1>7, <2>2 DEF List, Create, Provisioning, ProvisionPCs, Call
  <2> QED BY <2>2, <2>3 DEF Provisioning
<1>8. ASSUME NEW s \in Slots, Start(s) PROVE \E r \in Slots : Provisioning(r, t)'
  <2>1. registry[t] = "BOOTING" /\ call[s].task.ticket # t
    BY <1>0, <1>8 DEF Start, SetStatus, ProvisionPCs
  <2>2. PICK r \in Slots : Provisioning(r, t)
    BY <1>1, <2>1
  <2> QED BY <1>0, <1>8, <2>1, <2>2 DEF Start, Provisioning
<1>9. ASSUME NEW s \in Slots, SpawnFails(s) \/ KillFailsLate(s) \/ SpawnFailsLate(s)
      PROVE  \E r \in Slots : Provisioning(r, t)'
  <2>1. Catch(s) /\ call[s].pc \in ProvisionPCs
    BY <1>9 DEF SpawnFails, KillFailsLate, SpawnFailsLate, Throws, ProvisionPCs
  <2>2. registry[t] = "BOOTING" /\ call[s].task.ticket # t
    BY <1>0, <2>1 DEF Catch, DropEntry
  <2>3. PICK r \in Slots : Provisioning(r, t)
    BY <1>1, <2>2
  <2> QED BY <1>0, <2>1, <2>2, <2>3 DEF Catch, Provisioning
<1>10. ASSUME NEW s \in Slots, Completed(s) PROVE \E r \in Slots : Provisioning(r, t)'
  <2>1. registry'[t] = "BOOTING" => registry[t] = "BOOTING"
    BY <1>0, <1>10 DEF Completed, DropEntry
  <2>2. \E c : call' = [call EXCEPT ![s] = c]
    BY <1>10 DEF Completed
  <2> QED BY <1>4, <1>10, <2>1, <2>2 DEF Completed, ProvisionPCs
<1>11. ASSUME NEW s \in Slots, Blocked(s) PROVE \E r \in Slots : Provisioning(r, t)'
  <2>1. registry'[t] = "BOOTING" => registry[t] = "BOOTING"
    BY <1>0, <1>11 DEF Blocked, SetStatus
  <2> QED BY <1>4, <1>11, <2>1 DEF Blocked, ProvisionPCs
<1>12. ASSUME NEW s \in Slots, CompletedNotified(s) PROVE \E r \in Slots : Provisioning(r, t)'
  <2>1. call[s].task \in Task
    BY <1>12 DEF CompletedNotified, TypeOK
  <2> QED BY <1>3, <1>12, <2>1 DEF CompletedNotified, SpawnTask, ProvisionPCs
<1>13. ASSUME NEW s \in Slots, BlockedNotified(s) PROVE \E r \in Slots : Provisioning(r, t)'
  <2>1. CASE queue # << >> /\ SpawnTask(s, Head(queue))
    <3>1. Head(queue) \in Task
      BY <2>1, QueueSteps
    <3> QED BY <1>3, <1>13, <2>1, <3>1 DEF BlockedNotified, SpawnTask, ProvisionPCs
  <2>2. CASE call' = [call EXCEPT ![s] = Idle] /\ registry' = registry
    BY <1>4, <1>13, <2>2 DEF BlockedNotified, ProvisionPCs
  <2> QED BY <1>13, <2>1, <2>2 DEF BlockedNotified
<1>14. ASSUME NEW u \in Tickets, NEW s \in Slots, WorkerReports(u, s) PROVE \E r \in Slots : Provisioning(r, t)'
  BY <1>4, <1>14 DEF WorkerReports, ProvisionPCs
<1>15. ASSUME NEW s \in Slots, ReportLost(s) PROVE \E r \in Slots : Provisioning(r, t)'
  BY <1>4, <1>15 DEF ReportLost, ProvisionPCs
<1>16. ASSUME NEW u \in Tickets, WorkerExits(u) PROVE UNCHANGED <<registry, call>>
  BY <1>16 DEF WorkerExits
<1> QED
  BY <1>2, <1>5, <1>6, <1>7, <1>8, <1>9, <1>10, <1>11, <1>12, <1>13, <1>14, <1>15, <1>16
  DEF Next, Workers, Resume, vars

LEMMA BootingInit == Init => BootingOwned
BY DEF Init, BootingOwned

(* No failure path leaves a BOOTING entry nobody is working on.                 *)
THEOREM BootingAlwaysOwned == Spec => []BootingOwned
<1>1. Init => TypeOK /\ BootingOwned
  BY TypeInit, BootingInit
<1>2. TypeOK /\ BootingOwned /\ [Next]_vars => (TypeOK /\ BootingOwned)'
  BY TypeStep, BootingStep
<1> QED BY <1>1, <1>2, PTL DEF Spec
-----------------------------------------------------------------------------
(* The worker limit.  Between the check and the start an activation is          *)
(* "admitted"; it is admitted only when there is room, and turns into a worker. *)
LEMMA LimitCounts ==
  /\ IsFiniteSet(Live) /\ Cardinality(Live) \in Nat
  /\ IsFiniteSet(Admitted) /\ Cardinality(Admitted) \in Nat
  /\ Cardinality(Admitted) <= Cardinality(Slots) /\ Cardinality(Slots) \in Nat
<1>1. Live \in SUBSET Tickets /\ Admitted \in SUBSET Slots
  BY DEF Live, Admitted
<1>2. IsFiniteSet(Tickets) /\ IsFiniteSet(Slots)
  BY TicketsAssumption, SlotsAssumption
<1> QED BY <1>1, <1>2, FS_Subset, FS_CardinalityType

LEMMA OverrunStep == TypeOK /\ OverrunBounded /\ [Next]_vars => OverrunBounded'
<1> SUFFICES ASSUME TypeOK, OverrunBounded, [Next]_vars PROVE OverrunBounded'
  OBVIOUS
<1>0. /\ box \in [Tickets -> BoxState]
      /\ call \in [Slots -> Call]
      /\ \A s \in Slots : call[s].pc \in ProvisionPCs => call[s].task.ticket \in Tickets
  BY DEF TypeOK, Task
<1> DEFINE L == Cardinality(Live)  A == Cardinality(Admitted)  N == Cardinality(Slots)
<1>1. /\ L \in Nat /\ A \in Nat /\ N \in Nat /\ MaxWorkers \in Nat
      /\ IsFiniteSet(Live) /\ IsFiniteSet(Admitted)
      /\ L + A <= MaxWorkers - 1 + N
  BY LimitCounts, MaxWorkersAssumption DEF OverrunBounded
<1>2. /\ Live' \in SUBSET Tickets /\ Admitted' \in SUBSET Slots
      /\ L' \in Nat /\ A' \in Nat /\ A' <= N
  <2>1. Live' \in SUBSET Tickets /\ Admitted' \in SUBSET Slots
    BY DEF Live, Admitted
  <2>2. IsFiniteSet(Tickets) /\ IsFiniteSet(Slots)
    BY TicketsAssumption, SlotsAssumption
  <2> QED BY <2>1, <2>2, FS_Subset, FS_CardinalityType
<1>3. ASSUME Live' \in SUBSET Live, Admitted' \in SUBSET Admitted PROVE OverrunBounded'
  <2>1. L' <= L /\ A' <= A
    BY <1>1, <1>3, FS_Subset
  <2> QED BY <1>1, <1>2, <2>1 DEF OverrunBounded
<1>4. ASSUME UNCHANGED box PROVE Live' = Live
  BY <1>4 DEF Live
<1>5. ASSUME NEW t, NEW state \in {"none", "created"}, box' = [box EXCEPT ![t] = state]
      PROVE  Live' \in SUBSET Live
  BY <1>0, <1>5 DEF Live
<1>6. ASSUME NEW s \in Slots, NEW c, c.pc \notin {"create", "start"}, call' = [call EXCEPT ![s] = c]
      PROVE  Admitted' \in SUBSET Admitted
  BY <1>0, <1>6 DEF Admitted
<1>7. ASSUME NEW s \in Slots, List(s) PROVE OverrunBounded'
  <2>1. L < MaxWorkers /\ Live' = Live
    BY <1>4, <1>7 DEF List, HasRoom
  <2> QED BY <1>1, <1>2, <2>1 DEF OverrunBounded
<1>8. ASSUME NEW s \in Slots, Create(s) PROVE OverrunBounded'
  <2>1. Live' \in SUBSET Live
    BY <1>5, <1>8 DEF Create
  <2>2. Admitted' \in SUBSET Admitted
    BY <1>0, <1>8 DEF Create, Admitted, Call
  <2> QED BY <1>3, <2>1, <2>2
<1>S. ASSUME NEW s \in Slots, NEW t \in Tickets, call[s].pc = "start",
             box' = [box EXCEPT ![t] = "working"], call' = [call EXCEPT ![s] = Idle]
      PROVE  OverrunBounded'
  <2>1. s \in Admitted
    BY <1>S DEF Admitted
  <2>2. Admitted' = Admitted \ {s}
    BY <1>0, <1>S DEF Admitted, Idle, Activation
  <2>3. A' = A - 1
    BY <1>1, <2>1, <2>2, FS_RemoveElement
  <2>4. Live' \in SUBSET (Live \cup {t})
    BY <1>0, <1>S DEF Live
  <2>5. L' <= L + 1
    <3>1. IsFiniteSet(Live \cup {t}) /\ Cardinality(Live \cup {t}) \in {L, L + 1}
      BY <1>1, FS_AddElement
    <3>2. L' <= Cardinality(Live \cup {t})
      BY <2>4, <3>1, FS_Subset
    <3> QED BY <1>1, <1>2, <3>1, <3>2
  <2> QED BY <1>1, <1>2, <2>3, <2>5 DEF OverrunBounded
<1>9. ASSUME NEW s \in Slots, Start(s) PROVE OverrunBounded'
  <2>1. call[s].task.ticket \in Tickets
    BY <1>0, <1>9 DEF Start, ProvisionPCs
  <2> QED BY <1>9, <1>S, <2>1 DEF Start
<1>10. ASSUME NEW s \in Slots, Kill(s) PROVE OverrunBounded'
  <2>1. Live' \in SUBSET Live
    BY <1>5, <1>10 DEF Kill, RemoveBox
  <2>2. \A r \in Slots : LoseStart(call[s].peer)[r] \in Call
                         /\ LoseStart(call[s].peer)[r].pc \in {call[r].pc, "lost"}
    BY <1>0 DEF LoseStart, Call, PC
  <2>3. call'[s].pc = "list" /\ \A r \in Slots : r # s => call'[r] = LoseStart(call[s].peer)[r]
    BY <1>10, <2>2 DEF Kill, LoseStart, Call
  <2>4. Admitted' \in SUBSET Admitted
    BY <2>2, <2>3 DEF Admitted
  <2> QED BY <1>3, <2>1, <2>4
<1>11. ASSUME NEW s \in Slots, Catch(s), Live' \in SUBSET Live PROVE OverrunBounded'
  BY <1>3, <1>6, <1>11 DEF Catch, Idle, Activation
<1>12. ASSUME NEW s \in Slots, SpawnFails(s) \/ KillFailsLate(s) PROVE OverrunBounded'
  BY <1>4, <1>5, <1>11, <1>12 DEF SpawnFails, KillFailsLate, RemoveBox
<1>A. ASSUME NEW s \in Slots, SpawnFailsLate(s) PROVE OverrunBounded'
  <2> DEFINE t == call[s].task.ticket
  <2>1. CASE call[s].pc = "create"
    <3>1. Live' \in SUBSET Live
      BY <1>0, <1>A, <2>1 DEF SpawnFailsLate, Live
    <3> QED BY <1>A, <1>11, <3>1 DEF SpawnFailsLate
  <2>2. CASE call[s].pc = "start"
    <3>1. t \in Tickets /\ box' = [box EXCEPT ![t] = "working"] /\ call' = [call EXCEPT ![s] = Idle]
      BY <1>0, <1>A, <2>2 DEF SpawnFailsLate, Catch, ProvisionPCs
    <3> QED BY <1>S, <2>2, <3>1
  <2> QED BY <1>A, <2>1, <2>2 DEF SpawnFailsLate
<1>13. ASSUME NEW s \in Slots,
              \/ Completed(s) \/ Blocked(s) \/ CompletedNotified(s) \/ BlockedNotified(s) \/ ReportLost(s)
       PROVE  OverrunBounded'
  <2>1. UNCHANGED box
    BY <1>13 DEF Completed, Blocked, CompletedNotified, BlockedNotified, ReportLost
  <2>2. \E c : c.pc \notin {"create", "start"} /\ call' = [call EXCEPT ![s] = c]
    BY <1>13
    DEF Completed, Blocked, CompletedNotified, BlockedNotified, SpawnTask, ReportLost, Idle, Activation
  <2> QED BY <1>3, <1>4, <1>6, <2>1, <2>2
<1>14. ASSUME NEW t \in Tickets, NEW s \in Slots, WorkerReports(t, s) PROVE OverrunBounded'
  <2>1. Live' \in SUBSET Live
    BY <1>0, <1>14 DEF WorkerReports, Live
  <2>2. Admitted' \in SUBSET Admitted
    BY <1>6, <1>14 DEF WorkerReports, Activation
  <2> QED BY <1>3, <2>1, <2>2
<1>15. ASSUME NEW t \in Tickets, WorkerExits(t) PROVE OverrunBounded'
  <2>1. Live' \in SUBSET Live
    BY <1>5, <1>15 DEF WorkerExits, RemoveBox
  <2>2. Admitted' = Admitted
    BY <1>15 DEF WorkerExits, Admitted
  <2> QED BY <1>3, <2>1, <2>2
<1>16. ASSUME NEW task \in Task, Plane(task) PROVE OverrunBounded'
  <2>1. UNCHANGED box
    BY <1>16 DEF Plane, PlaneQueued, PlaneImmediate, PlaneInterrupt
  <2>2. Admitted' \in SUBSET Admitted
    <3>1. UNCHANGED call \/ \E s \in Slots : \E c : c.pc \notin {"create", "start"} /\ call' = [call EXCEPT ![s] = c]
      BY <1>16 DEF Plane, PlaneQueued, PlaneImmediate, PlaneInterrupt, Activation
    <3> QED BY <1>6, <3>1 DEF Admitted
  <2> QED BY <1>3, <1>4, <2>1, <2>2
<1>17. CASE UNCHANGED vars
  BY <1>3, <1>4, <1>17 DEF vars, Admitted
<1> QED
  BY <1>7, <1>8, <1>9, <1>10, <1>12, <1>A, <1>13, <1>14, <1>15, <1>16, <1>17
  DEF Next, Workers, Resume

LEMMA OverrunInit == Init => OverrunBounded
<1> SUFFICES ASSUME Init PROVE OverrunBounded
  OBVIOUS
<1>1. Live = {} /\ Admitted = {}
  BY DEF Init, Live, Admitted, Idle, Activation
<1>2. Cardinality(Live) = 0 /\ Cardinality(Admitted) = 0
  BY <1>1, FS_EmptySet
<1> QED BY <1>2, LimitCounts, MaxWorkersAssumption DEF OverrunBounded

(* The worker limit is overrun by fewer workers than there are activations at   *)
(* the same time.                                                               *)
THEOREM OverrunAlwaysBounded == Spec => []OverrunBounded
<1>1. Init => TypeOK /\ OverrunBounded
  BY TypeInit, OverrunInit
<1>2. TypeOK /\ OverrunBounded /\ [Next]_vars => (TypeOK /\ OverrunBounded)'
  BY TypeStep, OverrunStep
<1> QED BY <1>1, <1>2, PTL DEF Spec

-----------------------------------------------------------------------------
(***************************************************************************)
(* Each ticket is submitted once, and none is critical.  The task of a     *)
(* ticket is then in one place at a time: in the queue, or in the local    *)
(* variable of one activation.                                             *)
(***************************************************************************)
Ordinary == \A task \in Submissions : task.prio # 0

Holds(s, t) == call[s].task # NoTask /\ call[s].task.ticket = t

(* What the activations do when nothing is interrupted.                         *)
FlowInv ==
    \A s \in Slots :
       /\ call[s].pc # "kill"
       /\ call[s].pc \in ProvisionPCs => call[s].flow \in {"plane", "spawn"}
       /\ call[s].task # NoTask =>
             call[s].pc \in ProvisionPCs \/ (call[s].pc = "notify" /\ call[s].flow = "completed")

PlaceInv ==
    /\ Once(queue)
    /\ \A s \in Slots, t \in Tickets : Holds(s, t) => ~ Queued(queue, t)
    /\ \A r, s \in Slots, t \in Tickets : Holds(r, t) /\ Holds(s, t) => r = s
    /\ \A t \in Tickets : Queued(queue, t) \/ (\E s \in Slots : Holds(s, t)) \/ t \in acked => t \in seen

(* An accepted ticket that waits nowhere is registered, and stays so while it   *)
(* is provisioned; the catch block that would drop it is that of a ticket not   *)
(* yet accepted.                                                                *)
AckInv ==
    \A t \in acked :
       /\ Queued(queue, t) \/ registry[t] # "ABSENT" \/ \E s \in Slots : Holds(s, t)
       /\ \A s \in Slots : Holds(s, t) =>
             /\ call[s].flow # "plane"
             /\ call[s].pc \in ProvisionPCs => registry[t] # "ABSENT"

OnceInv == TypeOK /\ FlowInv /\ PlaceInv /\ AckInv

LEMMA OnceStep == OnceNext => Next
BY DEF OnceNext, Next

(* What a step may do to the activation s alone.                                *)
Turns(s, c) == call' = [call EXCEPT ![s] = c]

LEMMA TurnsAlone ==
  ASSUME TypeOK, NEW s \in Slots, NEW c, Turns(s, c)
  PROVE  /\ call'[s] = c
         /\ \A r \in Slots \ {s} : call'[r] = call[r]
BY DEF TypeOK, Turns

(* A held task is a task.                                                       *)
LEMMA HeldTask ==
  ASSUME TypeOK, NEW s \in Slots
  PROVE  call[s].task # NoTask => call[s].task \in Task /\ call[s].task.ticket \in Tickets
BY DEF TypeOK, Call, Task

-----------------------------------------------------------------------------
(* The five ways in which tasks move.  A task goes nowhere, or away ...         *)
LEMMA PlacesStay ==
  ASSUME TypeOK, PlaceInv, seen \subseteq seen', acked' \subseteq acked,
         queue' = queue \/ (\E t : queue' = Without(queue, t)),
         \A s \in Slots : call'[s].task \in {call[s].task, NoTask}
  PROVE  PlaceInv'
<1>1. queue \in Seq(Task)
  BY DEF TypeOK
<1>2. Once(queue') /\ \A u : Queued(queue', u) => Queued(queue, u)
  BY <1>1, WithoutOnce, WithoutProperties DEF PlaceInv
<1>3. \A s \in Slots, t \in Tickets : Holds(s, t)' => Holds(s, t)
  BY DEF Holds
<1> QED BY <1>2, <1>3 DEF PlaceInv

(* ... from the queue to an activation ...                                      *)
LEMMA PlacesTake ==
  ASSUME TypeOK, PlaceInv, seen \subseteq seen', acked' \subseteq acked,
         queue # << >>, queue' = Dequeued,
         NEW s \in Slots, NEW c, Turns(s, c), c.task = Head(queue)
  PROVE  PlaceInv'
<1>1. queue \in Seq(Task)
  BY DEF TypeOK
<1>2. /\ Once(queue') /\ ~ Queued(queue', Head(queue).ticket)
      /\ Head(queue) \in Task
      /\ \A u : Queued(queue, u) <=> Queued(queue', u) \/ u = Head(queue).ticket
  BY <1>1, TailOnce, TailProperties DEF PlaceInv, Dequeued
<1>3. \A t \in Tickets :
         /\ Holds(s, t)' <=> t = Head(queue).ticket
         /\ \A r \in Slots \ {s} : Holds(r, t)' <=> Holds(r, t)
  BY <1>2, TurnsAlone, NoTaskAssumption DEF Holds
<1> QED BY <1>2, <1>3 DEF PlaceInv

(* ... from an activation back to the queue ...                                 *)
LEMMA PlacesReturn ==
  ASSUME TypeOK, PlaceInv, seen \subseteq seen',
         NEW s \in Slots, call[s].task # NoTask, queue' = Enqueue(queue, call[s].task),
         NEW c, Turns(s, c), c.task = NoTask, acked' \subseteq acked \cup {call[s].task.ticket}
  PROVE  PlaceInv'
<1>1. queue \in Seq(Task) /\ call[s].task \in Task /\ call[s].task.ticket \in Tickets
  BY HeldTask DEF TypeOK
<1>2. Holds(s, call[s].task.ticket)
  BY DEF Holds
<1>3. /\ Once(queue')
      /\ \A u : Queued(queue', u) <=> Queued(queue, u) \/ u = call[s].task.ticket
  BY <1>1, <1>2, EnqueueOnce, EnqueueProperties DEF PlaceInv
<1>4. \A t \in Tickets :
         /\ ~ Holds(s, t)'
         /\ \A r \in Slots \ {s} : Holds(r, t)' <=> Holds(r, t)
  BY TurnsAlone DEF Holds
<1> QED BY <1>1, <1>2, <1>3, <1>4 DEF PlaceInv

(* ... or it is new, and goes to the queue or to an activation.                 *)
LEMMA PlacesNew ==
  ASSUME TypeOK, PlaceInv, NEW task \in Task, task.ticket \notin seen, seen' = seen \cup {task.ticket},
         \/ queue' = Enqueue(queue, task) /\ acked' = acked \cup {task.ticket} /\ call' = call
         \/ UNCHANGED <<queue, acked>> /\ \E s \in Slots : \E c : Turns(s, c) /\ c.task = task
  PROVE  PlaceInv'
<1>1. queue \in Seq(Task) /\ task.ticket \in Tickets
  BY DEF TypeOK, Task
<1>2. ~ Queued(queue, task.ticket) /\ \A s \in Slots : ~ Holds(s, task.ticket)
  BY <1>1 DEF PlaceInv
<1>3. CASE queue' = Enqueue(queue, task) /\ acked' = acked \cup {task.ticket} /\ call' = call
  <2>1. /\ Once(queue')
        /\ \A u : Queued(queue', u) <=> Queued(queue, u) \/ u = task.ticket
    BY <1>1, <1>2, <1>3, EnqueueOnce, EnqueueProperties DEF PlaceInv
  <2>2. \A s \in Slots, t \in Tickets : Holds(s, t)' <=> Holds(s, t)
    BY <1>3 DEF Holds
  <2> QED BY <1>2, <1>3, <2>1, <2>2 DEF PlaceInv
<1>4. ASSUME UNCHANGED <<queue, acked>>, NEW s \in Slots, NEW c, Turns(s, c), c.task = task
      PROVE  PlaceInv'
  <2>1. \A t \in Tickets :
           /\ Holds(s, t)' <=> t = task.ticket
           /\ \A r \in Slots \ {s} : Holds(r, t)' <=> Holds(r, t)
    BY <1>4, TurnsAlone, NoTaskAssumption DEF Holds
  <2> QED BY <1>2, <1>4, <2>1 DEF PlaceInv
<1> QED BY <1>3, <1>4

-----------------------------------------------------------------------------
(* The steps of the environment and of the handlers, each as the turn of one    *)
(* activation.                                                                  *)
FlowOK(c) ==
    /\ c.pc # "kill"
    /\ c.pc \in ProvisionPCs => c.flow \in {"plane", "spawn"}
    /\ c.task # NoTask => c.pc \in ProvisionPCs \/ (c.pc = "notify" /\ c.flow = "completed")

LEMMA FlowTurn ==
  ASSUME TypeOK, FlowInv, NEW s \in Slots, NEW c, Turns(s, c), FlowOK(c)
  PROVE  FlowInv'
BY TurnsAlone DEF FlowInv, FlowOK

LEMMA Records ==
  /\ \A pc, flow, task, peer :
       LET c == Activation(pc, flow, task, peer)
       IN  c.pc = pc /\ c.flow = flow /\ c.task = task /\ c.peer = peer
  /\ Idle.pc = "idle" /\ Idle.task = NoTask /\ Idle.flow = "none"
BY DEF Activation, Idle

(* The steps that move no task.                                                 *)
LEMMA QuietSteps ==
  ASSUME TypeOK, FlowInv, NEW s \in Slots,
         List(s) \/ Create(s) \/ Blocked(s) \/ ReportLost(s) \/ (\E t \in Tickets : WorkerReports(t, s))
  PROVE  \E c : /\ Turns(s, c) /\ FlowOK(c) /\ c.task = call[s].task
                /\ c.task # NoTask => c.flow = call[s].flow /\ call[s].pc \in ProvisionPCs
<1>0. call[s] \in Call /\ FlowOK(call[s])
  BY DEF TypeOK, FlowInv, FlowOK
<1>1. CASE List(s) \/ Create(s)
  <2>1. PICK pc \in {"create", "start"} : call' = [call EXCEPT ![s].pc = pc]
    BY <1>1 DEF List, Create
  <2> DEFINE c == [call[s] EXCEPT !.pc = pc]
  <2>2. c.pc = pc /\ c.task = call[s].task /\ c.flow = call[s].flow
    BY <1>0 DEF Call
  <2>3. Turns(s, c)
    BY <2>1 DEF Turns
  <2>4. call[s].pc \in ProvisionPCs /\ pc \in ProvisionPCs /\ pc # "kill"
    BY <1>1, <2>1 DEF List, Create, ProvisionPCs
  <2> HIDE DEF c
  <2> QED BY <1>0, <2>2, <2>3, <2>4 DEF FlowOK
<1>2. ASSUME NEW pc, NEW flow, NEW peer, Turns(s, Activation(pc, flow, NoTask, peer)),
             pc \in {"notify", "posted", "idle"}, call[s].pc \in {"posted", "idle"}
      PROVE  \E c : /\ Turns(s, c) /\ FlowOK(c) /\ c.task = call[s].task
                    /\ c.task # NoTask => c.flow = call[s].flow /\ call[s].pc \in ProvisionPCs
  <2> DEFINE c == Activation(pc, flow, NoTask, peer)
  <2>1. c.pc = pc /\ c.task = NoTask
    BY Records
  <2>2. call[s].task = NoTask
    BY <1>0, <1>2 DEF FlowOK, ProvisionPCs
  <2> HIDE DEF c
  <2> QED BY <1>2, <2>1, <2>2 DEF FlowOK, ProvisionPCs, c
<1>3. CASE Blocked(s)
  BY <1>2, <1>3 DEF Blocked, Turns
<1>4. CASE ReportLost(s)
  BY <1>2, <1>4 DEF ReportLost, Turns, Idle
<1>5. CASE \E t \in Tickets : WorkerReports(t, s)
  BY <1>2, <1>5 DEF WorkerReports, Turns
<1> QED BY <1>1, <1>3, <1>4, <1>5

LEMMA NoInterrupt ==
  ASSUME Ordinary, TypeOK, FlowInv
  PROVE  /\ \A s \in Slots : ~ Kill(s) /\ ~ KillFailsLate(s)
         /\ \A s \in Slots, task \in Submissions : ~ PlaneInterrupt(s, task)
BY DEF FlowInv, Kill, KillFailsLate, Ordinary, PlaneInterrupt, ShouldInterrupt

(* What a failing spawn does to everything but the containers.                  *)
SpawnEnds(s) == Catch(s) /\ call[s].pc \in ProvisionPCs

LEMMA SpawnsEnd == \A s \in Slots : SpawnFails(s) \/ SpawnFailsLate(s) => SpawnEnds(s)
BY DEF SpawnFails, SpawnFailsLate, SpawnEnds, Throws, ProvisionPCs

LEMMA FlowStep == Ordinary /\ TypeOK /\ FlowInv /\ OnceNext => FlowInv'
<1> SUFFICES ASSUME Ordinary, TypeOK, FlowInv, OnceNext PROVE FlowInv'
  OBVIOUS
<1>1. ASSUME NEW task \in Submissions, Plane(task) PROVE FlowInv'
  <2>1. ASSUME NEW s \in Slots, PlaneImmediate(s, task) PROVE FlowInv'
    <3> DEFINE c == Activation("list", "plane", task, NoTask)
    <3>1. Turns(s, c)
      BY <2>1 DEF PlaneImmediate, Turns
    <3>2. FlowOK(c)
      BY Records DEF FlowOK, ProvisionPCs
    <3> HIDE DEF c
    <3> QED BY <3>1, <3>2, FlowTurn
  <2>2. CASE PlaneQueued(task)
    BY <2>2 DEF PlaneQueued, FlowInv
  <2> QED BY <1>1, <2>1, <2>2, NoInterrupt DEF Plane
<1>2. ASSUME NEW s \in Slots, Turns(s, Idle) PROVE FlowInv'
  BY <1>2, FlowTurn, Records DEF FlowOK, ProvisionPCs
<1>3. ASSUME NEW s \in Slots, NEW task, NEW pc, NEW flow,
             <<pc, flow>> \in {<<"list", "spawn">>, <<"notify", "completed">>},
             Turns(s, Activation(pc, flow, task, NoTask))
      PROVE  FlowInv'
  <2> DEFINE c == Activation(pc, flow, task, NoTask)
  <2>1. c.pc = pc /\ c.flow = flow
    BY Records
  <2>2. FlowOK(c)
    BY <1>3, <2>1 DEF FlowOK, ProvisionPCs
  <2> HIDE DEF c
  <2>3. Turns(s, c)
    BY <1>3 DEF c
  <2> QED BY <2>2, <2>3, FlowTurn
<1>4. ASSUME NEW s \in Slots, Completed(s) PROVE FlowInv'
  BY <1>2, <1>3, <1>4 DEF Completed, Turns
<1>5. ASSUME NEW s \in Slots, CompletedNotified(s) \/ BlockedNotified(s) PROVE FlowInv'
  BY <1>2, <1>3, <1>5 DEF CompletedNotified, BlockedNotified, SpawnTask, Turns
<1>6. ASSUME NEW s \in Slots, Start(s) \/ SpawnEnds(s) PROVE FlowInv'
  BY <1>2, <1>6 DEF Start, SpawnEnds, Catch, Turns
<1>7. ASSUME NEW s \in Slots,
             List(s) \/ Create(s) \/ Blocked(s) \/ ReportLost(s) \/ (\E t \in Tickets : WorkerReports(t, s))
      PROVE  FlowInv'
  BY <1>7, QuietSteps, FlowTurn
<1>8. ASSUME NEW t \in Tickets, WorkerExits(t) PROVE FlowInv'
  BY <1>8 DEF WorkerExits, FlowInv
<1> QED BY <1>1, <1>4, <1>5, <1>6, <1>7, <1>8, NoInterrupt, SpawnsEnd DEF OnceNext, Workers, Resume

-----------------------------------------------------------------------------
(* The step of an activation that tries to start its worker, by its flow.       *)
LEMMA StartOrFail ==
  ASSUME TypeOK, FlowInv, NEW s \in Slots, Start(s) \/ SpawnEnds(s)
  PROVE  /\ call[s].pc \in ProvisionPCs /\ call[s].flow \in {"plane", "spawn"}
         /\ call[s].task \in Task /\ call[s].task # NoTask /\ Turns(s, Idle)
<1>1. call[s].pc \in ProvisionPCs
  BY DEF Start, SpawnEnds, ProvisionPCs
<1>2. call[s].task \in Task
  BY <1>1 DEF TypeOK
<1>3. Turns(s, Idle)
  BY DEF Start, SpawnEnds, Catch, Turns
<1> QED BY <1>1, <1>2, <1>3, NoTaskAssumption DEF FlowInv

LEMMA PlaceStep == Ordinary /\ TypeOK /\ FlowInv /\ PlaceInv /\ OnceNext => PlaceInv'
<1> SUFFICES ASSUME Ordinary, TypeOK, FlowInv, PlaceInv, OnceNext PROVE PlaceInv'
  OBVIOUS
<1>0. seen \subseteq seen'
  BY DEF OnceNext
<1>1. ASSUME NEW task \in Submissions, task.ticket \notin seen, Plane(task),
             seen' = seen \cup {task.ticket}
      PROVE  PlaceInv'
  <2>1. ASSUME NEW s \in Slots, PlaneImmediate(s, task) PROVE PlaceInv'
    <3> DEFINE c == Activation("list", "plane", task, NoTask)
    <3>1. Turns(s, c) /\ UNCHANGED <<queue, acked>>
      BY <2>1 DEF PlaneImmediate, Turns
    <3>2. c.task = task
      BY Records
    <3> HIDE DEF c
    <3> QED BY <1>1, <3>1, <3>2, PlacesNew, SubmissionsAssumption
  <2>2. CASE PlaneQueued(task)
    BY <1>1, <2>2, PlacesNew, SubmissionsAssumption DEF PlaneQueued
  <2> QED BY <1>1, <2>1, <2>2, NoInterrupt DEF Plane
<1>2. ASSUME NEW s \in Slots, NEW c, Turns(s, c), c.task \in {call[s].task, NoTask}, acked' \subseteq acked,
             queue' = queue \/ (\E t : queue' = Without(queue, t))
      PROVE  PlaceInv'
  <2>1. \A r \in Slots : call'[r].task \in {call[r].task, NoTask}
    BY <1>2, TurnsAlone
  <2> QED BY <1>0, <1>2, <2>1, PlacesStay
<1>3. ASSUME NEW s \in Slots, NEW pc, NEW flow, queue # << >>, queue' = Dequeued, acked' \subseteq acked,
             Turns(s, Activation(pc, flow, Head(queue), NoTask))
      PROVE  PlaceInv'
  <2> DEFINE c == Activation(pc, flow, Head(queue), NoTask)
  <2>1. c.task = Head(queue) /\ Turns(s, c)
    BY <1>3, Records
  <2> HIDE DEF c
  <2> QED BY <1>0, <1>3, <2>1, PlacesTake
<1>4. ASSUME NEW s \in Slots, Start(s) PROVE PlaceInv'
  <2>1. CASE call[s].flow = "plane"
    <3>1. queue' = Enqueue(queue, call[s].task) /\ acked' = acked \cup {call[s].task.ticket}
      BY <1>4, <2>1 DEF Start
    <3> QED BY <1>0, <1>4, <3>1, StartOrFail, PlacesReturn, Records
  <2>2. CASE call[s].flow = "spawn"
    BY <1>2, <1>4, <2>2, StartOrFail, Records DEF Start
  <2> QED BY <1>4, <2>1, <2>2, StartOrFail
<1>5. ASSUME NEW s \in Slots, SpawnEnds(s) PROVE PlaceInv'
  <2>1. CASE call[s].flow = "plane"
    BY <1>2, <1>5, <2>1, StartOrFail, Records DEF SpawnEnds, Catch
  <2>2. CASE call[s].flow = "spawn"
    <3>1. queue' = Enqueue(queue, call[s].task) /\ acked' = acked
      BY <1>5, <2>2 DEF SpawnEnds, Catch, PutBack
    <3> QED BY <1>0, <1>5, <3>1, StartOrFail, PlacesReturn, Records
  <2> QED BY <1>5, <2>1, <2>2, StartOrFail
<1>6. ASSUME NEW s \in Slots, Completed(s) PROVE PlaceInv'
  <2>1. acked' \subseteq acked
    BY <1>6 DEF Completed
  <2>2. CASE queue' = queue /\ Turns(s, Idle)
    BY <1>2, <2>1, <2>2, Records
  <2>3. CASE /\ queue # << >> /\ queue' = Dequeued
             /\ Turns(s, Activation("notify", "completed", Head(queue), NoTask))
    BY <1>3, <2>1, <2>3
  <2> QED BY <1>6, <2>2, <2>3 DEF Completed, Turns
<1>7. ASSUME NEW s \in Slots, CompletedNotified(s) PROVE PlaceInv'
  <2> DEFINE c == Activation("list", "spawn", call[s].task, NoTask)
  <2>1. Turns(s, c) /\ UNCHANGED <<queue, acked>>
    BY <1>7 DEF CompletedNotified, SpawnTask, Turns
  <2>2. c.task = call[s].task
    BY Records
  <2> HIDE DEF c
  <2> QED BY <1>2, <2>1, <2>2
<1>8. ASSUME NEW s \in Slots, BlockedNotified(s) PROVE PlaceInv'
  <2>1. CASE queue' = queue /\ Turns(s, Idle)
    BY <1>2, <1>8, <2>1, Records DEF BlockedNotified
  <2>2. CASE /\ queue # << >> /\ queue' = Dequeued
             /\ Turns(s, Activation("list", "spawn", Head(queue), NoTask))
    BY <1>3, <1>8, <2>2 DEF BlockedNotified
  <2> QED BY <1>8, <2>1, <2>2 DEF BlockedNotified, SpawnTask, Turns
<1>9. ASSUME NEW s \in Slots,
             List(s) \/ Create(s) \/ Blocked(s) \/ ReportLost(s) \/ (\E t \in Tickets : WorkerReports(t, s))
      PROVE  PlaceInv'
  <2>1. PICK c : Turns(s, c) /\ c.task = call[s].task
    BY <1>9, QuietSteps
  <2>2. acked' \subseteq acked /\ (queue' = queue \/ \E t : queue' = Without(queue, t))
    BY <1>9 DEF List, Create, Blocked, ReportLost, WorkerReports
  <2> QED BY <1>2, <2>1, <2>2
<1>10. ASSUME NEW t \in Tickets, WorkerExits(t) PROVE PlaceInv'
  BY <1>0, <1>10, PlacesStay DEF WorkerExits
<1> QED BY <1>1, <1>4, <1>5, <1>6, <1>7, <1>8, <1>9, <1>10, NoInterrupt, SpawnsEnd DEF OnceNext, Workers, Resume

-----------------------------------------------------------------------------
(* Accepted tickets.  The two halves of the invariant, for one of them.         *)
Somewhere(t) == Queued(queue, t) \/ registry[t] # "ABSENT" \/ \E s \in Slots : Holds(s, t)
Safely(s, t) == /\ call[s].flow # "plane"
                /\ call[s].pc \in ProvisionPCs => registry[t] # "ABSENT"

LEMMA AckHalves == AckInv <=> \A t \in acked : Somewhere(t) /\ \A s \in Slots : Holds(s, t) => Safely(s, t)
BY DEF AckInv, Somewhere, Safely

(* A turn of s that leaves or drops its task, seen from a ticket that another   *)
(* activation holds or that none does.                                          *)
LEMMA AckOther ==
  ASSUME TypeOK, AckInv, NEW s \in Slots, NEW c, Turns(s, c), NEW t \in acked,
         registry[t] # "ABSENT" => registry'[t] # "ABSENT",
         ~ Holds(s, t), ~ Holds(s, t)',
         Queued(queue, t) => Queued(queue', t)
  PROVE  Somewhere(t)' /\ \A r \in Slots : Holds(r, t)' => Safely(r, t)'
<1>1. \A r \in Slots \ {s} : call'[r] = call[r]
  BY TurnsAlone
<1>2. Somewhere(t) /\ \A r \in Slots : Holds(r, t) => Safely(r, t)
  BY AckHalves
<1>3. \A r \in Slots \ {s} : Holds(r, t)' <=> Holds(r, t)
  BY <1>1 DEF Holds
<1>4. Somewhere(t)'
  BY <1>2, <1>3 DEF Somewhere
<1>5. ASSUME NEW r \in Slots, Holds(r, t)' PROVE Safely(r, t)'
  BY <1>1, <1>2, <1>3, <1>5 DEF Safely
<1> QED BY <1>4, <1>5

(* A ticket that s alone holds.                                                 *)
LEMMA AlonePlaced ==
  ASSUME TypeOK, PlaceInv, NEW s \in Slots, NEW c, Turns(s, c), NEW t \in Tickets, Holds(s, t)
  PROVE  \A r \in Slots \ {s} : ~ Holds(r, t)'
<1>1. \A r \in Slots \ {s} : call'[r] = call[r]
  BY TurnsAlone
<1> QED BY <1>1 DEF PlaceInv, Holds

LEMMA AckSubmit ==
  ASSUME Ordinary, TypeOK, FlowInv, PlaceInv, AckInv,
         NEW task \in Submissions, task.ticket \notin seen, Plane(task)
  PROVE  AckInv'
<1>0. /\ task \in Task /\ task.ticket \in Tickets /\ queue \in Seq(Task)
      /\ registry \in [Tickets -> EntryStatus] /\ acked \subseteq Tickets
  BY SubmissionsAssumption DEF TypeOK, Task
<1>1. task.ticket \notin acked /\ \A s \in Slots : ~ Holds(s, task.ticket)
  BY <1>0 DEF PlaceInv
<1>2. ASSUME NEW s \in Slots, PlaneImmediate(s, task) PROVE AckInv'
  <2> DEFINE c == Activation("list", "plane", task, NoTask)
  <2>1. Turns(s, c) /\ acked' = acked /\ queue' = queue /\ registry' = [registry EXCEPT ![task.ticket] = "BOOTING"]
    BY <1>2 DEF PlaneImmediate, Turns
  <2>2. c.task = task
    BY Records
  <2>3. call[s].task = NoTask
    BY <1>2 DEF FlowInv, PlaneImmediate, ProvisionPCs
  <2> HIDE DEF c
  <2>4. ASSUME NEW t \in acked PROVE Somewhere(t)' /\ \A r \in Slots : Holds(r, t)' => Safely(r, t)'
    <3>1. ~ Holds(s, t) /\ ~ Holds(s, t)'
      BY <1>1, <2>1, <2>2, <2>3, TurnsAlone DEF Holds
    <3>2. registry'[t] = registry[t]
      BY <1>0, <1>1, <2>1
    <3> QED BY <2>1, <3>1, <3>2, AckOther
  <2> QED BY <2>1, <2>4, AckHalves DEF AckInv, Somewhere, Safely
<1>3. CASE PlaneQueued(task)
  <2>1. /\ acked' = acked \cup {task.ticket} /\ call' = call
        /\ \A u : Queued(queue', u) <=> Queued(queue, u) \/ u = task.ticket
        /\ \A u \in Tickets : registry[u] # "ABSENT" => registry'[u] # "ABSENT"
    BY <1>0, <1>3, EnqueueProperties DEF PlaneQueued
  <2>2. \A s \in Slots, u \in Tickets : Holds(s, u)' <=> Holds(s, u)
    BY <2>1 DEF Holds
  <2> QED BY <1>0, <1>1, <2>1, <2>2 DEF AckInv
<1> QED BY <1>2, <1>3, NoInterrupt DEF Plane

(* A worker has been started, or could not be.                                  *)
LEMMA AckStart ==
  ASSUME TypeOK, FlowInv, PlaceInv, AckInv, NEW s \in Slots, Start(s) \/ SpawnEnds(s)
  PROVE  AckInv'
<1>0. PICK task \in Task : task = call[s].task
  BY StartOrFail
<1> DEFINE u == task.ticket
<1>1. /\ Turns(s, Idle) /\ u \in Tickets /\ Holds(s, u)
      /\ call[s].flow \in {"plane", "spawn"} /\ call[s].pc \in ProvisionPCs
  BY <1>0, StartOrFail DEF Holds, Task
<1>2. /\ queue \in Seq(Task) /\ acked \subseteq Tickets /\ registry \in [Tickets -> EntryStatus]
      /\ \A t : Queued(Enqueue(queue, task), t) <=> Queued(queue, t) \/ t = u
  BY EnqueueProperties DEF TypeOK
<1>3. /\ queue' = queue \/ queue' = Enqueue(queue, task)
      /\ acked' \subseteq acked \cup {u}
      /\ \A t \in Tickets \ {u} : registry'[t] = registry[t]
  <2>1. CASE Start(s)
    BY <1>0, <1>2, <2>1 DEF Start, SetStatus
  <2>2. CASE SpawnEnds(s)
    BY <1>0, <1>1, <1>2, <2>2 DEF SpawnEnds, Catch, PutBack, DropEntry
  <2> QED BY <2>1, <2>2
<1>4. call'[s] = Idle /\ Idle.task = NoTask
  BY <1>1, TurnsAlone, Records
<1>5. \A t \in Tickets \ {u} : ~ Holds(s, t) /\ ~ Holds(s, t)'
  BY <1>0, <1>4 DEF Holds
<1>6. \A r \in Slots : ~ Holds(r, u)'
  <2>1. ~ Holds(s, u)'
    BY <1>4 DEF Holds
  <2> QED BY <1>1, <2>1, AlonePlaced
<1>7. u \in acked' => Somewhere(u)'
  <2>1. ASSUME u \in acked PROVE call[s].flow # "plane" /\ registry[u] # "ABSENT"
    BY <1>1, <2>1 DEF AckInv
  <2>2. CASE queue' = Enqueue(queue, task)
    BY <1>2, <2>2 DEF Somewhere
  <2>3. CASE Start(s) /\ call[s].flow # "plane"
    <3>1. CASE u \in acked
      <4>1. registry'[u] = "RUNNING"
        BY <1>0, <1>1, <1>2, <2>1, <2>3, <3>1 DEF Start, SetStatus
      <4> QED BY <4>1 DEF Somewhere
    <3>2. CASE u \notin acked
      BY <1>0, <1>1, <2>3, <3>2 DEF Start
    <3> QED BY <3>1, <3>2
  <2>4. CASE SpawnEnds(s) /\ call[s].flow = "plane"
    BY <2>1, <2>4 DEF SpawnEnds, Catch
  <2> QED BY <1>0, <1>1, <2>2, <2>3, <2>4 DEF Start, SpawnEnds, Catch, PutBack
<1>8. ASSUME NEW t \in acked', t # u
      PROVE  Somewhere(t)' /\ \A r \in Slots : Holds(r, t)' => Safely(r, t)'
  <2>1. t \in acked /\ t \in Tickets /\ registry'[t] = registry[t]
    BY <1>2, <1>3, <1>8
  <2>2. Queued(queue, t) => Queued(queue', t)
    BY <1>2, <1>3
  <2>3. ~ Holds(s, t) /\ ~ Holds(s, t)'
    BY <1>5, <1>8, <2>1
  <2> QED BY <1>1, <2>1, <2>2, <2>3, AckOther
<1> QED BY <1>6, <1>7, <1>8 DEF AckInv, Somewhere, Safely

(* A worker has reported, or the next task is taken up.                         *)
LEMMA AckTake ==
  ASSUME TypeOK, FlowInv, PlaceInv, AckInv, NEW s \in Slots, NEW c, Turns(s, c),
         NEW task \in Task, c.task = task, c.flow # "plane",
         \/ Holds(s, task.ticket) /\ queue' = queue
         \/ call[s].task = NoTask /\ queue # << >> /\ task = Head(queue) /\ queue' = Dequeued,
         acked' \subseteq acked,
         \A t \in acked' : registry[t] # "ABSENT" => registry'[t] # "ABSENT",
         c.pc \in ProvisionPCs => registry'[task.ticket] # "ABSENT"
  PROVE  AckInv'
<1> DEFINE u == task.ticket
<1>1. queue \in Seq(Task) /\ u \in Tickets /\ acked \subseteq Tickets
  BY DEF TypeOK, Task
<1>2. \A t \in Tickets \ {u} : Queued(queue, t) => Queued(queue', t)
  <2>1. CASE queue' = queue
    BY <2>1
  <2>2. CASE queue # << >> /\ task = Head(queue) /\ queue' = Dequeued
    <3>1. \A t : Queued(queue, t) <=> Queued(Tail(queue), t) \/ t = Head(queue).ticket
      BY <1>1, <2>2, TailProperties
    <3> QED BY <2>2, <3>1 DEF Dequeued
  <2> QED BY <2>1, <2>2
<1>3. call'[s] = c /\ Holds(s, u)'
  BY TurnsAlone, NoTaskAssumption DEF Holds
<1>4. \A t \in Tickets \ {u} : ~ Holds(s, t) /\ ~ Holds(s, t)'
  BY <1>3 DEF Holds
<1>5. \A r \in Slots \ {s} : ~ Holds(r, u)'
  <2>1. CASE Holds(s, u)
    BY <1>1, <2>1, AlonePlaced
  <2>2. CASE queue # << >> /\ task = Head(queue)
    <3>1. Queued(queue, u)
      BY <1>1, <2>2, TailProperties
    <3>2. \A r \in Slots : ~ Holds(r, u)
      BY <1>1, <3>1 DEF PlaceInv
    <3> QED BY <3>2, TurnsAlone DEF Holds
  <2> QED BY <2>1, <2>2
<1>6. ASSUME NEW t \in acked', t # u
      PROVE  Somewhere(t)' /\ \A r \in Slots : Holds(r, t)' => Safely(r, t)'
  BY <1>1, <1>2, <1>4, <1>6, AckOther
<1>7. Somewhere(u)'
  BY <1>3 DEF Somewhere
<1>8. Safely(s, u)'
  BY <1>3 DEF Safely
<1> QED BY <1>5, <1>6, <1>7, <1>8 DEF AckInv, Somewhere, Safely

(* A step that moves no task.                                                   *)
LEMMA AckStay ==
  ASSUME TypeOK, AckInv, NEW s \in Slots, NEW c, Turns(s, c), c.task = call[s].task,
         c.task # NoTask => c.flow = call[s].flow /\ call[s].pc \in ProvisionPCs,
         acked' \subseteq acked,
         \A t \in acked' : /\ registry[t] # "ABSENT" => registry'[t] # "ABSENT"
                           /\ Queued(queue, t) => Queued(queue', t)
  PROVE  AckInv'
<1>1. call'[s] = c /\ \A r \in Slots \ {s} : call'[r] = call[r]
  BY TurnsAlone
<1>2. \A r \in Slots, t \in acked : Holds(r, t)' <=> Holds(r, t)
  BY <1>1 DEF Holds
<1>3. ASSUME NEW t \in acked', NEW r \in Slots, Holds(r, t)
      PROVE  Safely(r, t)'
  <2>1. Safely(r, t)
    BY <1>3, AckHalves
  <2>2. /\ call'[r].flow = call[r].flow
        /\ call'[r].pc \in ProvisionPCs => call[r].pc \in ProvisionPCs
    BY <1>1, <1>3 DEF Holds
  <2> QED BY <2>1, <2>2 DEF Safely
<1>4. \A t \in acked' : Somewhere(t)'
  BY <1>2, AckHalves DEF Somewhere
<1> QED BY <1>2, <1>3, <1>4 DEF AckInv, Somewhere, Safely

LEMMA AckStep == Ordinary /\ OnceInv /\ OnceNext => AckInv'
<1> SUFFICES ASSUME Ordinary, TypeOK, FlowInv, PlaceInv, AckInv, OnceNext PROVE AckInv'
  BY DEF OnceInv
<1>0. /\ queue \in Seq(Task) /\ registry \in [Tickets -> EntryStatus] /\ acked \subseteq Tickets
      /\ \A s \in Slots : call[s].task # NoTask => call[s].task \in Task
  BY HeldTask DEF TypeOK
<1>1. \A t : /\ DropEntry(t) = [registry EXCEPT ![t] = "ABSENT"]
             /\ \A u \in Tickets \ {t} : DropEntry(t)[u] = registry[u]
  BY <1>0 DEF DropEntry
<1>2. ASSUME NEW s \in Slots, Completed(s) PROVE AckInv'
  <2>1. acked' \subseteq acked /\ \A t \in acked' : registry'[t] = registry[t]
    BY <1>0, <1>1, <1>2 DEF Completed
  <2>2. call[s].task = NoTask
    BY <1>2 DEF Completed, FlowInv, ProvisionPCs
  <2>3. CASE queue' = queue /\ Turns(s, Idle)
    BY <2>1, <2>2, <2>3, AckStay, Records
  <2>4. CASE /\ queue # << >> /\ queue' = Dequeued
             /\ Turns(s, Activation("notify", "completed", Head(queue), NoTask))
    <3> DEFINE c == Activation("notify", "completed", Head(queue), NoTask)
    <3>1. c.task = Head(queue) /\ c.flow = "completed" /\ c.pc = "notify"
      BY Records
    <3>2. Head(queue) \in Task
      BY <1>0, <2>4, TailProperties
    <3>3. c.pc \notin ProvisionPCs
      BY <3>1 DEF ProvisionPCs
    <3>4. Turns(s, c)
      BY <2>4
    <3> HIDE DEF c
    <3> QED BY <2>1, <2>2, <2>4, <3>1, <3>2, <3>3, <3>4, AckTake
  <2> QED BY <1>2, <2>3, <2>4 DEF Completed, Turns
<1>3. ASSUME NEW s \in Slots, NEW task \in Task, SpawnTask(s, task), acked' = acked,
             \/ Holds(s, task.ticket) /\ queue' = queue
             \/ call[s].task = NoTask /\ queue # << >> /\ task = Head(queue) /\ queue' = Dequeued
      PROVE  AckInv'
  <2> DEFINE c == Activation("list", "spawn", task, NoTask)
  <2>1. c.task = task /\ c.flow = "spawn"
    BY Records
  <2>2. Turns(s, c)
    BY <1>3 DEF SpawnTask, Turns
  <2>3. registry'[task.ticket] = "BOOTING"
    BY <1>0, <1>3 DEF SpawnTask, Task
  <2>4. \A t \in acked' : registry[t] # "ABSENT" => registry'[t] # "ABSENT"
    BY <1>0, <1>3 DEF SpawnTask
  <2> HIDE DEF c
  <2> QED BY <1>3, <2>1, <2>2, <2>3, <2>4, AckTake
<1>4. ASSUME NEW s \in Slots, CompletedNotified(s) PROVE AckInv'
  <2>1. call[s].task \in Task
    BY <1>4 DEF CompletedNotified, TypeOK
  <2>2. PICK task \in Task : task = call[s].task
    BY <2>1
  <2>3. Holds(s, task.ticket)
    BY <2>2, NoTaskAssumption DEF Holds
  <2> QED BY <1>3, <1>4, <2>2, <2>3 DEF CompletedNotified
<1>5. ASSUME NEW s \in Slots, BlockedNotified(s) PROVE AckInv'
  <2>0. call[s].task = NoTask
    BY <1>5 DEF BlockedNotified, FlowInv, ProvisionPCs
  <2>1. CASE queue # << >> /\ queue' = Dequeued /\ SpawnTask(s, Head(queue))
    <3>1. PICK task \in Task : task = Head(queue)
      BY <1>0, <2>1, TailProperties
    <3> QED BY <1>3, <1>5, <2>0, <2>1, <3>1 DEF BlockedNotified
  <2>2. CASE UNCHANGED <<queue, registry, acked>> /\ Turns(s, Idle)
    BY <2>0, <2>2, AckStay, Records
  <2> QED BY <1>5, <2>1, <2>2 DEF BlockedNotified, Turns
<1>6. ASSUME NEW s \in Slots,
             List(s) \/ Create(s) \/ Blocked(s) \/ ReportLost(s) \/ (\E t \in Tickets : WorkerReports(t, s))
      PROVE  AckInv'
  <2>1. PICK c : /\ Turns(s, c) /\ c.task = call[s].task
                 /\ c.task # NoTask => c.flow = call[s].flow /\ call[s].pc \in ProvisionPCs
    BY <1>6, QuietSteps
  <2>2. CASE Blocked(s)
    <3>1. /\ acked' = acked \ {call[s].peer} /\ queue' = Without(queue, call[s].peer)
          /\ \A t \in Tickets : registry[t] # "ABSENT" => registry'[t] # "ABSENT"
      BY <1>0, <2>2 DEF Blocked, SetStatus
    <3>2. \A t \in acked' : Queued(queue, t) => Queued(queue', t)
      BY <1>0, <3>1, WithoutProperties
    <3> QED BY <1>0, <2>1, <3>1, <3>2, AckStay
  <2>3. CASE UNCHANGED <<queue, registry, acked>>
    BY <2>1, <2>3, AckStay
  <2> QED BY <1>6, <2>2, <2>3 DEF List, Create, ReportLost, WorkerReports
<1>7. ASSUME NEW t \in Tickets, WorkerExits(t) PROVE AckInv'
  BY <1>7 DEF WorkerExits, AckInv, Holds
<1>8. ASSUME NEW s \in Slots, Start(s) \/ SpawnEnds(s) PROVE AckInv'
  BY <1>8, AckStart
<1> QED BY <1>2, <1>4, <1>5, <1>6, <1>7, <1>8, AckSubmit, NoInterrupt, SpawnsEnd DEF OnceNext, Workers, Resume

-----------------------------------------------------------------------------
LEMMA OnceInit0 == OnceInit => OnceInv
<1> SUFFICES ASSUME OnceInit PROVE OnceInv
  OBVIOUS
<1>1. TypeOK
  BY TypeInit DEF OnceInit
<1>2. \A s \in Slots : call[s] = Idle
  BY DEF OnceInit, Init
<1>3. \A s \in Slots : \A t : ~ Holds(s, t)
  BY <1>2, Records DEF Holds
<1>4. FlowInv
  BY <1>2, Records DEF FlowInv, ProvisionPCs
<1>5. queue = << >> /\ acked = {} /\ Len(<< >>) = 0
  BY DEF OnceInit, Init
<1>6. PlaceInv
  BY <1>3, <1>5 DEF PlaceInv, Once, Queued
<1>7. AckInv
  BY <1>5 DEF AckInv
<1> QED BY <1>1, <1>4, <1>6, <1>7 DEF OnceInv

LEMMA OnceInvStep == Ordinary /\ OnceInv /\ [OnceNext]_onceVars => OnceInv'
<1> SUFFICES ASSUME Ordinary, OnceInv, [OnceNext]_onceVars PROVE OnceInv'
  OBVIOUS
<1>1. CASE UNCHANGED onceVars
  BY <1>1 DEF onceVars, vars, OnceInv, TypeOK, FlowInv, PlaceInv, AckInv, Holds, Once
<1>2. CASE OnceNext
  <2>1. TypeOK'
    BY <1>2, OnceStep, TypeStep DEF OnceInv
  <2> QED BY <1>2, <2>1, FlowStep, PlaceStep, AckStep DEF OnceInv
<1> QED BY <1>1, <1>2

(* When nothing is critical and Plane reports each ticket once, no two          *)
(* activations provision the same ticket, whatever fails and however many       *)
(* reports and submissions are handled at the same time.                        *)
THEOREM OneProvisionerOnce == ASSUME Ordinary PROVE OnceSpec => []OneProvisioner
<1>1. OnceInv => OneProvisioner
  <2> SUFFICES ASSUME OnceInv, NEW r \in Slots, NEW s \in Slots, NEW t \in Tickets,
                      Provisioning(r, t), Provisioning(s, t)
               PROVE  r = s
    BY DEF OneProvisioner
  <2>1. Holds(r, t) /\ Holds(s, t)
    BY NoTaskAssumption DEF OnceInv, TypeOK, Provisioning, Holds
  <2> QED BY <2>1 DEF OnceInv, PlaceInv
<1>2. OnceInv /\ [OnceNext]_onceVars => OnceInv'
  BY OnceInvStep
<1> QED BY OnceInit0, <1>1, <1>2, PTL DEF OnceSpec

(* In the same runs no accepted ticket is lost before its worker reports: it    *)
(* waits in the queue, is registered, or is held by an activation.              *)
THEOREM AcceptedNeverLost == ASSUME Ordinary PROVE OnceSpec => []AcceptedNotLost
<1>1. OnceInv => AcceptedNotLost
  BY DEF OnceInv, AckInv, AcceptedNotLost, Held, Holds
<1>2. OnceInv /\ [OnceNext]_onceVars => OnceInv'
  BY OnceInvStep
<1> QED BY OnceInit0, <1>1, <1>2, PTL DEF OnceSpec
-----------------------------------------------------------------------------
(***************************************************************************)
(* Dispatch implements TicketLife.  What a step does to the set of waiting *)
(* tasks, to the hands and to the entries follows from what it does to the *)
(* queue, to the turning activation and to the registry.                   *)
(***************************************************************************)
LifeInv == OnceInv /\ QueueSorted

LEMMA LifeQueue ==
  ASSUME TypeOK, QueueSorted, Once(queue)
  PROVE  /\ Waiting = Members(queue) /\ Waiting' = Members(queue')
         /\ \A task \in Task : Members(Enqueue(queue, task)) = Waiting \cup {task}
         /\ \A t : Members(Without(queue, t)) = {task \in Waiting : task.ticket # t}
         /\ queue = << >> => Waiting = {}
         /\ queue # << >> => /\ Members(Dequeued) = Waiting \ {Head(queue)}
                             /\ Head(queue) \in Waiting /\ Head(queue) \in Task
                             /\ Life!MostUrgent(Head(queue))
<1>1. queue \in Seq(Task)
  BY DEF TypeOK
<1>2. Waiting = Members(queue) /\ Waiting' = Members(queue')
  BY DEF Waiting, Members
<1>3. queue = << >> => Members(queue) = {}
  BY DEF Members
<1>4. queue # << >> => /\ Members(Dequeued) = Members(queue) \ {Head(queue)}
                       /\ Head(queue) \in Members(queue) /\ Head(queue) \in Task
                       /\ \A other \in Members(queue) : Head(queue).prio <= other.prio
  BY <1>1, TailMembers, TailProperties DEF Dequeued, QueueSorted
<1>5. queue # << >> => Life!MostUrgent(Head(queue))
  BY <1>2, <1>4 DEF Life!MostUrgent
<1> QED BY <1>1, <1>2, <1>3, <1>4, <1>5, EnqueueMembers, WithoutMembers

LEMMA LifeHand ==
  ASSUME TypeOK, NEW s \in Slots, NEW c, Turns(s, c)
  PROVE  /\ Hand[s] = call[s].task
         /\ Hand' = [Hand EXCEPT ![s] = c.task]
         /\ c.task = call[s].task => Hand' = Hand
<1>1. call'[s] = c /\ \A r \in Slots \ {s} : call'[r] = call[r]
  BY TurnsAlone
<1>2. Hand = [r \in Slots |-> call[r].task] /\ Hand' = [r \in Slots |-> call'[r].task]
  BY DEF Hand
<1> QED BY <1>1, <1>2

LEMMA LifeEntered ==
  ASSUME TypeOK, NEW t \in Tickets
  PROVE  /\ \A status \in EntryStatus \ {"ABSENT"} :
               /\ registry' = [registry EXCEPT ![t] = status] => Entered' = Entered \cup {t}
               /\ registry' = SetStatus(t, status) => Entered' = Entered
         /\ registry' = DropEntry(t) => Entered' = Entered \ {t}
         /\ registry' = registry => Entered' = Entered
         /\ t \in Entered <=> registry[t] # "ABSENT"
BY DEF TypeOK, Entered, DropEntry, SetStatus, EntryStatus

LEMMA LifePlane ==
  ASSUME Ordinary, LifeInv, NEW task \in Submissions, task.ticket \notin seen, Plane(task),
         seen' = seen \cup {task.ticket}
  PROVE  Life!Queue(task) \/ \E s \in Slots : Life!Try(s, task)
<1>0. TypeOK /\ QueueSorted /\ Once(queue) /\ FlowInv /\ task \in Task /\ task.ticket \in Tickets
  BY SubmissionsAssumption DEF LifeInv, OnceInv, PlaceInv, Task
<1>1. ASSUME NEW s \in Slots, PlaneImmediate(s, task) PROVE Life!Try(s, task)
  <2> DEFINE c == Activation("list", "plane", task, NoTask)
  <2>1. Turns(s, c) /\ c.task = task
    BY <1>1, Records DEF PlaneImmediate, Turns
  <2> HIDE DEF c
  <2>2. call[s].task = NoTask
    BY <1>0, <1>1 DEF FlowInv, PlaneImmediate, ProvisionPCs
  <2>3. Hand[s] = NoTask /\ Hand' = [Hand EXCEPT ![s] = task]
    BY <1>0, <2>1, <2>2, LifeHand
  <2>4. Entered' = Entered \cup {task.ticket}
    BY <1>0, <1>1, LifeEntered DEF PlaneImmediate, EntryStatus
  <2>5. UNCHANGED <<Waiting, acked>>
    BY <1>1 DEF PlaneImmediate, Waiting
  <2> QED BY <2>3, <2>4, <2>5 DEF Life!Try, Life!Holding
<1>2. CASE PlaneQueued(task)
  <2>1. Waiting' = Waiting \cup {task}
    BY <1>0, <1>2, LifeQueue DEF PlaneQueued
  <2>2. Entered' = Entered \cup {task.ticket}
    BY <1>0, <1>2, LifeEntered DEF PlaneQueued, EntryStatus
  <2>3. Hand' = Hand /\ acked' = acked \cup {task.ticket}
    BY <1>2 DEF PlaneQueued, Hand
  <2> QED BY <2>1, <2>2, <2>3 DEF Life!Queue
<1> QED BY <1>0, <1>1, <1>2, NoInterrupt DEF Plane

LEMMA LifeStart ==
  ASSUME LifeInv, seen' = seen, NEW s \in Slots, Start(s) \/ SpawnEnds(s)
  PROVE  Life!Accept(s) \/ Life!Launch(s) \/ Life!TurnAway(s) \/ Life!GiveBack(s)
<1>0. TypeOK /\ QueueSorted /\ Once(queue) /\ FlowInv /\ AckInv
  BY DEF LifeInv, OnceInv, PlaceInv
<1>1. PICK task \in Task : task = call[s].task
  BY <1>0, StartOrFail
<1> DEFINE t == task.ticket
<1>2. /\ call[s].pc \in ProvisionPCs /\ call[s].flow \in {"plane", "spawn"}
      /\ task # NoTask /\ t \in Tickets /\ Turns(s, Idle) /\ Holds(s, t)
  BY <1>0, <1>1, StartOrFail DEF Holds, Task
<1>3. Hand[s] = task /\ Hand' = [Hand EXCEPT ![s] = NoTask]
  BY <1>0, <1>1, <1>2, LifeHand, Records
<1>4. t \in acked => call[s].flow # "plane" /\ t \in Entered
  BY <1>0, <1>2, LifeEntered DEF AckInv
<1>5. queue' = Enqueue(queue, task) => Waiting' = Waiting \cup {task}
  BY <1>0, <1>1, LifeQueue
<1>6. queue' = queue => Waiting' = Waiting
  BY DEF Waiting
<1>7. CASE Start(s)
  <2>1. Entered' = Entered
    BY <1>0, <1>1, <1>2, <1>7, LifeEntered DEF Start, EntryStatus
  <2>2. CASE call[s].flow = "plane"
    <3>1. Waiting' = Waiting \cup {task} /\ acked' = acked \cup {t}
      BY <1>1, <1>5, <1>7, <2>2 DEF Start
    <3> QED BY <1>2, <1>3, <2>1, <3>1 DEF Life!Accept, Life!Holding
  <2>3. CASE call[s].flow = "spawn"
    <3>1. Waiting' = Waiting /\ acked' = acked
      BY <1>6, <1>7, <2>3 DEF Start
    <3> QED BY <1>2, <1>3, <1>4, <2>1, <3>1 DEF Life!Launch, Life!Holding
  <2> QED BY <1>2, <2>2, <2>3
<1>8. CASE SpawnEnds(s)
  <2>1. Entered' = Entered \ {t} /\ acked' = acked
    BY <1>0, <1>1, <1>2, <1>8, LifeEntered DEF SpawnEnds, Catch
  <2>2. CASE call[s].flow = "plane"
    <3>1. Waiting' = Waiting
      BY <1>6, <1>8, <2>2 DEF SpawnEnds, Catch
    <3> QED BY <1>2, <1>3, <1>4, <2>1, <2>2, <3>1 DEF Life!TurnAway, Life!Holding
  <2>3. CASE call[s].flow = "spawn"
    <3>1. Waiting' = Waiting \cup {task}
      BY <1>1, <1>5, <1>8, <2>3 DEF SpawnEnds, Catch, PutBack
    <3> QED BY <1>2, <1>3, <2>1, <3>1 DEF Life!GiveBack, Life!Holding
  <2> QED BY <1>2, <2>2, <2>3
<1> QED BY <1>7, <1>8

LEMMA LifeCompleted ==
  ASSUME LifeInv, seen' = seen, NEW s \in Slots, Completed(s)
  PROVE  \E t \in Tickets : Life!Done(s, t)
<1>0. TypeOK /\ QueueSorted /\ Once(queue) /\ FlowInv
  BY DEF LifeInv, OnceInv, PlaceInv
<1>1. PICK t \in Tickets : t = call[s].peer
  BY <1>0 DEF Completed, TypeOK
<1>2. acked' = acked \ {t} /\ Entered' = Entered \ {t}
  BY <1>0, <1>1, LifeEntered DEF Completed
<1>3. call[s].task = NoTask
  BY <1>0 DEF Completed, FlowInv, ProvisionPCs
<1>4. CASE queue = << >> /\ queue' = queue /\ Turns(s, Idle)
  <2>1. Waiting = {} /\ Waiting' = Waiting
    BY <1>0, <1>4, LifeQueue
  <2>2. Hand' = Hand
    BY <1>0, <1>3, <1>4, LifeHand, Records
  <2> QED BY <1>2, <2>1, <2>2 DEF Life!Done
<1>5. CASE /\ queue # << >> /\ queue' = Dequeued
           /\ Turns(s, Activation("notify", "completed", Head(queue), NoTask))
  <2> DEFINE c == Activation("notify", "completed", Head(queue), NoTask)
  <2>1. Turns(s, c) /\ c.task = Head(queue)
    BY <1>5, Records
  <2> HIDE DEF c
  <2>2. Hand[s] = NoTask /\ Hand' = [Hand EXCEPT ![s] = Head(queue)]
    BY <1>0, <1>3, <2>1, LifeHand
  <2>3. /\ Waiting' = Waiting \ {Head(queue)}
        /\ Head(queue) \in Waiting /\ Life!MostUrgent(Head(queue))
    BY <1>0, <1>5, LifeQueue
  <2>4. Life!Take(s, Head(queue))
    BY <2>2, <2>3 DEF Life!Take, Life!Holding
  <2> QED BY <1>2, <2>3, <2>4 DEF Life!Done
<1> QED BY <1>4, <1>5 DEF Completed, Turns

LEMMA LifeSpawnTask ==
  ASSUME LifeInv, NEW s \in Slots, NEW task \in Task, SpawnTask(s, task)
  PROVE  Entered' = Entered \cup {task.ticket} /\ Hand' = [Hand EXCEPT ![s] = task]
<1>0. TypeOK /\ task.ticket \in Tickets
  BY DEF LifeInv, OnceInv, Task
<1>1. Entered' = Entered \cup {task.ticket}
  BY <1>0, LifeEntered DEF SpawnTask, EntryStatus
<1> DEFINE c == Activation("list", "spawn", task, NoTask)
<1>2. Turns(s, c) /\ c.task = task
  BY Records DEF SpawnTask, Turns
<1> HIDE DEF c
<1> QED BY <1>0, <1>1, <1>2, LifeHand

LEMMA LifeNotified ==
  ASSUME LifeInv, seen' = seen, NEW s \in Slots, CompletedNotified(s) \/ BlockedNotified(s)
  PROVE  \/ Life!Enter(s)
         \/ \E task \in Waiting : Life!TakeAndEnter(s, task)
         \/ UNCHANGED Life!vars
<1>0. TypeOK /\ QueueSorted /\ Once(queue) /\ FlowInv
  BY DEF LifeInv, OnceInv, PlaceInv
<1>1. Hand = [r \in Slots |-> call[r].task]
  BY DEF Hand
<1>2. CASE CompletedNotified(s)
  <2>1. PICK task \in Task : task = call[s].task
    BY <1>0, <1>2 DEF CompletedNotified, TypeOK
  <2>2. Hand[s] = task /\ task # NoTask
    BY <1>1, <2>1, NoTaskAssumption
  <2>3. Entered' = Entered \cup {task.ticket} /\ Hand' = [Hand EXCEPT ![s] = task]
    BY <1>2, <2>1, LifeSpawnTask DEF CompletedNotified
  <2>4. Hand' = Hand
    BY <1>1, <2>2, <2>3
  <2>5. Waiting' = Waiting /\ acked' = acked
    BY <1>2 DEF CompletedNotified, Waiting
  <2> QED BY <2>2, <2>3, <2>4, <2>5 DEF Life!Enter, Life!Holding
<1>3. CASE BlockedNotified(s)
  <2>1. call[s].task = NoTask
    BY <1>0, <1>3 DEF BlockedNotified, FlowInv, ProvisionPCs
  <2>2. CASE queue # << >> /\ queue' = Dequeued /\ SpawnTask(s, Head(queue))
    <3>1. PICK task \in Task : task = Head(queue)
      BY <1>0, <2>2, LifeQueue
    <3>2. Hand[s] = NoTask
      BY <1>1, <2>1
    <3>3. Entered' = Entered \cup {task.ticket} /\ Hand' = [Hand EXCEPT ![s] = task]
      BY <2>2, <3>1, LifeSpawnTask
    <3>4. Waiting' = Waiting \ {task} /\ task \in Waiting /\ Life!MostUrgent(task)
      BY <1>0, <2>2, <3>1, LifeQueue
    <3>5. acked' = acked
      BY <1>3 DEF BlockedNotified
    <3> QED BY <3>2, <3>3, <3>4, <3>5 DEF Life!TakeAndEnter, Life!Take, Life!Holding
  <2>3. CASE UNCHANGED <<queue, registry, acked>> /\ Turns(s, Idle)
    <3>1. Hand' = Hand
      BY <1>0, <2>1, <2>3, LifeHand, Records
    <3> QED BY <2>3, <3>1 DEF Life!vars, Waiting, Entered
  <2> QED BY <1>3, <2>2, <2>3 DEF BlockedNotified, Turns
<1> QED BY <1>2, <1>3

LEMMA LifeQuiet ==
  ASSUME LifeInv, seen' = seen, NEW s \in Slots,
         List(s) \/ Create(s) \/ Blocked(s) \/ ReportLost(s) \/ (\E t \in Tickets : WorkerReports(t, s))
  PROVE  (\E t \in Tickets : Life!Stuck(t)) \/ UNCHANGED Life!vars
<1>0. TypeOK /\ QueueSorted /\ Once(queue) /\ FlowInv
  BY DEF LifeInv, OnceInv, PlaceInv
<1>1. Hand' = Hand
  BY <1>0, QuietSteps, LifeHand
<1>2. CASE Blocked(s)
  <2>1. PICK t \in Tickets : t = call[s].peer
    BY <1>0, <1>2 DEF Blocked, TypeOK
  <2>2. Entered' = Entered
    BY <1>0, <1>2, <2>1, LifeEntered DEF Blocked, EntryStatus
  <2>3. Waiting' = {task \in Waiting : task.ticket # t} /\ acked' = acked \ {t}
    BY <1>0, <1>2, <2>1, LifeQueue DEF Blocked
  <2> QED BY <1>1, <2>2, <2>3 DEF Life!Stuck
<1>3. CASE UNCHANGED <<queue, registry, acked>>
  BY <1>1, <1>3 DEF Life!vars, Waiting, Entered
<1> QED BY <1>2, <1>3 DEF List, Create, ReportLost, WorkerReports

LEMMA LifeStep == Ordinary /\ LifeInv /\ [OnceNext]_onceVars => [Life!Next]_(Life!vars)
<1> SUFFICES ASSUME Ordinary, LifeInv, [OnceNext]_onceVars PROVE [Life!Next]_(Life!vars)
  OBVIOUS
<1>1. CASE UNCHANGED onceVars
  BY <1>1 DEF onceVars, vars, Life!vars, Waiting, Hand, Entered
<1>2. ASSUME NEW task \in Submissions, task.ticket \notin seen, Plane(task),
             seen' = seen \cup {task.ticket}
      PROVE  Life!Next
  BY <1>2, LifePlane DEF Life!Next
<1>3. ASSUME NEW t \in Tickets, WorkerExits(t), seen' = seen PROVE UNCHANGED Life!vars
  BY <1>3 DEF WorkerExits, Life!vars, Waiting, Hand, Entered
<1>4. ASSUME NEW s \in Slots, seen' = seen, Start(s) \/ SpawnEnds(s) PROVE Life!Next
  BY <1>4, LifeStart DEF Life!Next
<1>5. ASSUME NEW s \in Slots, seen' = seen, Completed(s) PROVE Life!Next
  BY <1>5, LifeCompleted DEF Life!Next
<1>6. ASSUME NEW s \in Slots, seen' = seen, CompletedNotified(s) \/ BlockedNotified(s)
      PROVE  [Life!Next]_(Life!vars)
  BY <1>6, LifeNotified DEF Life!Next
<1>7. ASSUME NEW s \in Slots, seen' = seen,
             List(s) \/ Create(s) \/ Blocked(s) \/ ReportLost(s) \/ (\E t \in Tickets : WorkerReports(t, s))
      PROVE  [Life!Next]_(Life!vars)
  BY <1>7, LifeQuiet DEF Life!Next
<1>8. TypeOK /\ FlowInv
  BY DEF LifeInv, OnceInv
<1> QED BY <1>1, <1>2, <1>3, <1>4, <1>5, <1>6, <1>7, <1>8, NoInterrupt, SpawnsEnd DEF OnceNext, Workers, Resume

LEMMA LifeInvStep == Ordinary /\ LifeInv /\ [OnceNext]_onceVars => LifeInv'
<1> SUFFICES ASSUME Ordinary, LifeInv, [OnceNext]_onceVars PROVE LifeInv'
  OBVIOUS
<1>1. OnceInv'
  BY OnceInvStep DEF LifeInv
<1>2. [Next]_vars
  BY OnceStep DEF onceVars
<1>3. QueueSorted'
  BY <1>2, SortedStep DEF LifeInv, OnceInv
<1> QED BY <1>1, <1>3 DEF LifeInv

(* The handlers implement TicketLife: however they interleave and whatever      *)
(* fails, a ticket only goes from one place to the next as that specification   *)
(* allows, and what is started is the most urgent of what waits.                *)
THEOREM OnceImplementsLife == ASSUME Ordinary PROVE OnceSpec => ImplementsLife
<1>1. OnceInit => LifeInv
  BY OnceInit0, SortedInit DEF LifeInv, OnceInit
<1>2. OnceInit => Life!Init
  <2> SUFFICES ASSUME OnceInit PROVE Life!Init
    OBVIOUS
  <2>1. seen = {} /\ Waiting = {} /\ acked = {}
    BY DEF OnceInit, Init, Waiting
  <2>2. Entered = {}
    BY DEF OnceInit, Init, Entered
  <2>3. Hand = [s \in Slots |-> NoTask]
    BY Records DEF OnceInit, Init, Hand
  <2> QED BY <2>1, <2>2, <2>3 DEF Life!Init
<1>3. LifeInv /\ [OnceNext]_onceVars => LifeInv' /\ [Life!Next]_(Life!vars)
  BY LifeInvStep, LifeStep
<1> QED BY <1>1, <1>2, <1>3, PTL DEF OnceSpec, ImplementsLife, Life!Spec
-----------------------------------------------------------------------------
(***************************************************************************)
(* What TicketLife promises follows from its own actions, whatever its     *)
(* variables stand for.                                                    *)
(***************************************************************************)
LifeSeen ==
    /\ \A t \in acked : t \in seen
    /\ \A task \in Waiting : task # NoTask /\ task.ticket \in seen
    /\ \A s \in Slots : Life!Holding(s) => Hand[s].ticket \in seen

LifePromise == LifeSeen /\ Life!OnePlace /\ Life!NoneLost

LEMMA HandIsFunction == Hand = [s \in Slots |-> Hand[s]] /\ Hand' = [s \in Slots |-> Hand'[s]]
BY DEF Hand

(* A handler that holds nothing takes a task that nobody else has, ...          *)
LEMMA PromiseTake ==
  ASSUME LifePromise, NEW s \in Slots, ~ Life!Holding(s), NEW task, task # NoTask,
         Hand' = [Hand EXCEPT ![s] = task],
         \/ task \in Waiting /\ Waiting' = Waiting \ {task} /\ seen' = seen
         \/ task.ticket \notin seen /\ Waiting' = Waiting /\ seen' = seen \cup {task.ticket},
         acked' \subseteq acked, \A t \in acked' : t \in Entered => t \in Entered'
  PROVE  LifePromise'
<1>1. Hand'[s] = task /\ \A r \in Slots \ {s} : Hand'[r] = Hand[r]
  BY HandIsFunction
<1>2. /\ \A other \in Waiting : other # NoTask /\ other.ticket \in seen
      /\ \A r \in Slots : Hand[r] # NoTask => Hand[r].ticket \in seen
      /\ \A x, y \in Waiting : x.ticket = y.ticket => x = y
      /\ Hand[s] = NoTask
      /\ \A q \in Slots : Hand[q] # NoTask =>
            /\ \A x \in Waiting : x.ticket # Hand[q].ticket
            /\ \A r \in Slots : Hand[r] # NoTask /\ Hand[r].ticket = Hand[q].ticket => r = q
  BY DEF LifePromise, LifeSeen, Life!OnePlace, Life!Holding
<1>3. /\ \A other \in Waiting' : other \in Waiting /\ other.ticket # task.ticket
      /\ \A r \in Slots \ {s} : Hand[r] # NoTask => Hand[r].ticket # task.ticket
      /\ \A other \in Waiting : other \in Waiting' \/ other = task
      /\ seen \subseteq seen' /\ task.ticket \in seen'
  BY <1>2
<1>4. LifeSeen'
  BY <1>1, <1>2, <1>3 DEF LifePromise, LifeSeen, Life!Holding
<1>5. Life!OnePlace'
  BY <1>1, <1>2, <1>3 DEF Life!OnePlace, Life!Holding
<1>6. ASSUME NEW t \in acked'
      PROVE  t \in Entered' \/ (\E x \in Waiting' : x.ticket = t)
                \/ \E r \in Slots : Hand'[r] # NoTask /\ Hand'[r].ticket = t
  <2>1. t \in Entered \/ (\E x \in Waiting : x.ticket = t) \/ \E r \in Slots : Hand[r] # NoTask /\ Hand[r].ticket = t
    BY DEF LifePromise, Life!NoneLost, Life!Holding
  <2> QED BY <1>1, <1>2, <1>3, <2>1
<1> QED BY <1>4, <1>5, <1>6 DEF LifePromise, Life!NoneLost, Life!Holding

(* ... and one that holds a task lets it go: back to those that wait, or to its *)
(* worker, or away.                                                             *)
LEMMA PromiseLetGo ==
  ASSUME LifePromise, NEW s \in Slots, Life!Holding(s), seen' = seen,
         Hand' = [Hand EXCEPT ![s] = NoTask],
         \A t \in Entered : t \in Entered' \/ t = Hand[s].ticket,
         \/ Waiting' = Waiting \cup {Hand[s]} /\ acked' \subseteq acked \cup {Hand[s].ticket}
         \/ /\ Waiting' = Waiting /\ acked' = acked
            /\ Hand[s].ticket \in acked => Hand[s].ticket \in Entered'
  PROVE  LifePromise'
<1> DEFINE u == Hand[s].ticket
<1>1. Hand'[s] = NoTask /\ \A r \in Slots \ {s} : Hand'[r] = Hand[r]
  BY HandIsFunction
<1>2. /\ \A other \in Waiting : other # NoTask /\ other.ticket \in seen
      /\ \A r \in Slots : Hand[r] # NoTask => Hand[r].ticket \in seen
      /\ \A x, y \in Waiting : x.ticket = y.ticket => x = y
      /\ Hand[s] # NoTask
      /\ \A q \in Slots : Hand[q] # NoTask =>
            /\ \A x \in Waiting : x.ticket # Hand[q].ticket
            /\ \A r \in Slots : Hand[r] # NoTask /\ Hand[r].ticket = Hand[q].ticket => r = q
  BY DEF LifePromise, LifeSeen, Life!OnePlace, Life!Holding
<1>3. /\ Waiting \subseteq Waiting' /\ acked' \subseteq acked \cup {u}
      /\ \A x \in Waiting' : x \in Waiting \/ x = Hand[s]
  OBVIOUS
<1>4. LifeSeen'
  BY <1>1, <1>2, <1>3 DEF LifePromise, LifeSeen, Life!Holding
<1>5. Life!OnePlace'
  BY <1>1, <1>2, <1>3 DEF Life!OnePlace, Life!Holding
<1>6. ASSUME NEW t \in acked'
      PROVE  t \in Entered' \/ (\E x \in Waiting' : x.ticket = t)
                \/ \E r \in Slots : Hand'[r] # NoTask /\ Hand'[r].ticket = t
  <2>1. CASE t = u
    <3>1. CASE Waiting' = Waiting \cup {Hand[s]}
      BY <2>1, <3>1
    <3>2. CASE acked' = acked /\ (u \in acked => u \in Entered')
      BY <2>1, <3>2
    <3> QED BY <3>1, <3>2
  <2>2. CASE t # u
    <3>1. t \in Entered \/ (\E x \in Waiting : x.ticket = t) \/ \E r \in Slots : Hand[r] # NoTask /\ Hand[r].ticket = t
      BY <1>3, <2>2 DEF LifePromise, Life!NoneLost, Life!Holding
    <3>2. \A r \in Slots : Hand[r] # NoTask /\ Hand[r].ticket = t => r # s
      BY <2>2
    <3> QED BY <1>1, <1>3, <2>2, <3>1, <3>2
  <2> QED BY <2>1, <2>2
<1> QED BY <1>4, <1>5, <1>6 DEF LifePromise, Life!NoneLost, Life!Holding

(* No hand moves, and the tickets that leave are reported on.                   *)
LEMMA PromiseStay ==
  ASSUME LifePromise, Hand' = Hand, seen' = seen, Waiting' \subseteq Waiting, acked' \subseteq acked,
         \A t \in acked' : /\ t \in Entered => t \in Entered'
                           /\ \A x \in Waiting : x.ticket = t => x \in Waiting'
  PROVE  LifePromise'
BY DEF LifePromise, LifeSeen, Life!OnePlace, Life!NoneLost, Life!Holding

LEMMA PromiseQueue ==
  ASSUME LifePromise, NEW task \in Submissions, Life!Queue(task)
  PROVE  LifePromise'
<1>1. /\ task # NoTask /\ task.ticket \notin seen /\ Hand' = Hand
      /\ Waiting' = Waiting \cup {task} /\ seen' = seen \cup {task.ticket}
      /\ Entered' = Entered \cup {task.ticket} /\ acked' = acked \cup {task.ticket}
  BY SubmissionsAssumption, NoTaskAssumption DEF Life!Queue
<1>2. LifeSeen'
  BY <1>1 DEF LifePromise, LifeSeen, Life!Holding
<1>3. Life!OnePlace'
  BY <1>1 DEF LifePromise, LifeSeen, Life!OnePlace, Life!Holding
<1>4. Life!NoneLost'
  BY <1>1 DEF LifePromise, Life!NoneLost, Life!Holding
<1> QED BY <1>2, <1>3, <1>4 DEF LifePromise

LEMMA PromiseStep == LifePromise /\ [Life!Next]_(Life!vars) => LifePromise'
<1> SUFFICES ASSUME LifePromise, [Life!Next]_(Life!vars) PROVE LifePromise'
  OBVIOUS
<1>1. ASSUME NEW task \in Submissions, NEW s \in Slots, Life!Try(s, task) PROVE LifePromise'
  <2>1. task # NoTask
    BY SubmissionsAssumption, NoTaskAssumption
  <2> QED BY <1>1, <2>1, PromiseTake DEF Life!Try
<1>2. ASSUME NEW s \in Slots, Life!Accept(s) \/ Life!TurnAway(s) \/ Life!GiveBack(s) \/ Life!Launch(s)
      PROVE  LifePromise'
  BY <1>2, PromiseLetGo DEF Life!Accept, Life!TurnAway, Life!GiveBack, Life!Launch
<1>3. ASSUME NEW s \in Slots, Life!Enter(s) PROVE LifePromise'
  BY <1>3, PromiseStay DEF Life!Enter
<1>4. ASSUME NEW s \in Slots, NEW task \in Waiting, Life!Take(s, task), seen' = seen,
             acked' \subseteq acked, \A t \in acked' : t \in Entered => t \in Entered'
      PROVE  LifePromise'
  <2>1. task # NoTask
    BY DEF LifePromise, LifeSeen
  <2> QED BY <1>4, <2>1, PromiseTake DEF Life!Take
<1>5. ASSUME NEW s \in Slots, NEW task \in Waiting, Life!TakeAndEnter(s, task) PROVE LifePromise'
  BY <1>4, <1>5 DEF Life!TakeAndEnter
<1>6. ASSUME NEW t \in Tickets, NEW s \in Slots, Life!Done(s, t) PROVE LifePromise'
  <2>1. seen' = seen /\ acked' \subseteq acked /\ \A u \in acked' : u \in Entered => u \in Entered'
    BY <1>6 DEF Life!Done
  <2>2. CASE UNCHANGED <<Waiting, Hand>>
    BY <2>1, <2>2, PromiseStay
  <2>3. CASE \E task \in Waiting : Life!Take(s, task)
    BY <1>4, <2>1, <2>3
  <2> QED BY <1>6, <2>2, <2>3 DEF Life!Done
<1>7. ASSUME NEW t \in Tickets, Life!Stuck(t) PROVE LifePromise'
  BY <1>7, PromiseStay DEF Life!Stuck
<1>8. CASE UNCHANGED Life!vars
  BY <1>8, PromiseStay DEF Life!vars
<1> QED BY <1>1, <1>2, <1>3, <1>5, <1>6, <1>7, <1>8, PromiseQueue DEF Life!Next

LEMMA PromiseInit == Life!Init => LifePromise
<1> SUFFICES ASSUME Life!Init PROVE LifePromise
  OBVIOUS
<1>1. acked = {} /\ Waiting = {} /\ \A s \in Slots : Hand[s] = NoTask
  BY DEF Life!Init
<1> QED BY <1>1 DEF LifePromise, LifeSeen, Life!OnePlace, Life!NoneLost, Life!Holding

(* A ticket is in one place, and an accepted one is never lost: this holds of   *)
(* whatever implements TicketLife, ...                                          *)
THEOREM LifeKeepsPromise == Life!Spec => [](Life!OnePlace /\ Life!NoneLost)
<1>1. LifePromise => Life!OnePlace /\ Life!NoneLost
  BY DEF LifePromise
<1> QED BY <1>1, PromiseInit, PromiseStep, PTL DEF Life!Spec

(* ... and so of the handlers: no ticket waits twice, waits while a handler     *)
(* holds it or is held by two, and an accepted one waits, is held or is         *)
(* registered until its worker reports.                                         *)
THEOREM OnePlaceNoneLost == ASSUME Ordinary PROVE OnceSpec => [](Life!OnePlace /\ Life!NoneLost)
BY OnceImplementsLife, LifeKeepsPromise DEF ImplementsLife
-----------------------------------------------------------------------------
(***************************************************************************)
(* What BootingEnds rests on besides fairness: an activation is at most so *)
(* many awaits away from its end, whatever the others do.                  *)
(***************************************************************************)
AwaitsLeft(pc) ==
    CASE pc = "posted" -> 7 [] pc = "notify" -> 6 [] pc = "kill" -> 5 [] pc = "list" -> 4
      [] pc = "create" -> 3 [] pc = "start" -> 2 [] pc = "lost" -> 1 [] OTHER -> 0

Forward(c, d) == AwaitsLeft(d.pc) < AwaitsLeft(c.pc)

(* No step, of its own or of another handler, takes an activation back to an    *)
(* await it has passed or makes it begin again: nothing is retried, so what     *)
(* /plane has accepted and could not start waits for somebody else to look.     *)
HandlersGoOn ==
    [][\A s \in Slots : call[s].pc # "idle" => call'[s] = call[s] \/ Forward(call[s], call'[s])]_vars

LEMMA ForwardTurn ==
  ASSUME TypeOK, NEW s \in Slots, NEW c, Turns(s, c),
         call[s].pc = "idle" \/ Forward(call[s], c)
  PROVE  \A r \in Slots : call[r].pc # "idle" => call'[r] = call[r] \/ Forward(call[r], call'[r])
BY TurnsAlone

LEMMA ForwardStep ==
  ASSUME TypeOK, Next
  PROVE  \A r \in Slots : call[r].pc # "idle" => call'[r] = call[r] \/ Forward(call[r], call'[r])
<1> DEFINE Good == \A r \in Slots : call[r].pc # "idle" => call'[r] = call[r] \/ Forward(call[r], call'[r])
<1>0. call \in [Slots -> Call] /\ \A s \in Slots : call[s].pc \in PC
  BY DEF TypeOK, Call
<1>1. ASSUME NEW s \in Slots, NEW pc, NEW flow, NEW task, NEW peer,
             Turns(s, Activation(pc, flow, task, peer)),
             call[s].pc = "idle" \/ AwaitsLeft(pc) < AwaitsLeft(call[s].pc)
      PROVE  Good
  <2> DEFINE c == Activation(pc, flow, task, peer)
  <2>1. c.pc = pc /\ Turns(s, c)
    BY <1>1, Records
  <2> HIDE DEF c
  <2> QED BY <1>1, <2>1, ForwardTurn DEF Forward
<1>2. ASSUME NEW s \in Slots, Turns(s, Idle), call[s].pc \in PC \ {"idle"} PROVE Good
  <2>1. AwaitsLeft("idle") < AwaitsLeft(call[s].pc)
    BY <1>2 DEF AwaitsLeft, PC
  <2> QED BY <1>1, <1>2, <2>1 DEF Idle
<1>3. ASSUME NEW task \in Submissions, NEW s \in Slots, PlaneImmediate(s, task) \/ PlaneInterrupt(s, task)
      PROVE  Good
  BY <1>1, <1>3 DEF PlaneImmediate, PlaneInterrupt, Turns
<1>4. ASSUME NEW s \in Slots, Kill(s) PROVE Good
  <2>1. PICK victim : victim = call[s].peer
    OBVIOUS
  <2>2. call' = [LoseStart(victim) EXCEPT ![s].pc = "list", ![s].peer = NoTask] /\ call[s].pc = "kill"
    BY <1>4, <2>1 DEF Kill
  <2>3. LoseStart(victim)[s] = call[s] /\ call[s] \in Call
    BY <1>0, <2>2 DEF LoseStart
  <2>4. call'[s].pc = "list"
    BY <2>2, <2>3 DEF LoseStart, Call
  <2>5. Forward(call[s], call'[s])
    BY <2>2, <2>4 DEF Forward, AwaitsLeft
  <2>6. ASSUME NEW r \in Slots, r # s PROVE call'[r] = call[r] \/ Forward(call[r], call'[r])
    <3>1. call'[r] = LoseStart(victim)[r]
      BY <2>2, <2>6 DEF LoseStart
    <3>2. call'[r] = call[r] \/ (call[r].pc = "start" /\ call'[r].pc = "lost")
      BY <1>0, <3>1 DEF LoseStart, Call
    <3> QED BY <3>2 DEF Forward, AwaitsLeft
  <2> QED BY <2>5, <2>6
<1>5. ASSUME NEW s \in Slots, NEW pc, call' = [call EXCEPT ![s].pc = pc], AwaitsLeft(pc) < AwaitsLeft(call[s].pc)
      PROVE  Good
  <2> DEFINE c == [call[s] EXCEPT !.pc = pc]
  <2>1. c.pc = pc /\ Turns(s, c)
    BY <1>0, <1>5 DEF Call, Turns
  <2> HIDE DEF c
  <2> QED BY <1>5, <2>1, ForwardTurn DEF Forward
<1>6. ASSUME NEW s \in Slots, List(s) \/ Create(s) PROVE Good
  BY <1>5, <1>6 DEF List, Create, AwaitsLeft
<1>7. ASSUME NEW s \in Slots, Start(s) \/ SpawnFails(s) \/ KillFailsLate(s) \/ SpawnFailsLate(s) \/ ReportLost(s)
      PROVE  Good
  <2>1. Turns(s, Idle) /\ call[s].pc # "idle"
    BY <1>7 DEF Start, SpawnFails, KillFailsLate, SpawnFailsLate, ReportLost, Catch, Throws, Turns
  <2> QED BY <1>0, <1>2, <2>1
<1>8. ASSUME NEW s \in Slots, Completed(s) \/ Blocked(s) PROVE Good
  <2>1. call[s].pc = "posted" /\ AwaitsLeft("notify") < AwaitsLeft("posted") /\ "posted" \in PC
    BY <1>8 DEF Completed, Blocked, AwaitsLeft, PC
  <2> QED BY <1>1, <1>2, <1>8, <2>1 DEF Completed, Blocked, Turns
<1>9. ASSUME NEW s \in Slots, CompletedNotified(s) \/ BlockedNotified(s) PROVE Good
  <2>1. call[s].pc = "notify" /\ AwaitsLeft("list") < AwaitsLeft("notify") /\ "notify" \in PC
    BY <1>9 DEF CompletedNotified, BlockedNotified, AwaitsLeft, PC
  <2> QED BY <1>1, <1>2, <1>9, <2>1 DEF CompletedNotified, BlockedNotified, SpawnTask, Turns
<1>10. ASSUME NEW t \in Tickets, NEW s \in Slots, WorkerReports(t, s) PROVE Good
  BY <1>1, <1>10 DEF WorkerReports, Turns
<1>11. CASE call' = call
  BY <1>11
<1> QED BY <1>3, <1>4, <1>6, <1>7, <1>8, <1>9, <1>10, <1>11
        DEF Next, Plane, PlaneQueued, Workers, WorkerExits, Resume

(* For any number of handlers and whatever fails, every activation only goes    *)
(* forward, so it is over after seven of its own steps.                         *)
THEOREM HandlersAlwaysGoOn == Spec => HandlersGoOn
<1>1. TypeOK /\ [Next]_vars =>
        [\A s \in Slots : call[s].pc # "idle" => call'[s] = call[s] \/ Forward(call[s], call'[s])]_vars
  BY ForwardStep
<1> QED BY <1>1, TypeCorrect, PTL DEF Spec, HandlersGoOn
=============================================================================
