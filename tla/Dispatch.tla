------------------------------ MODULE Dispatch ------------------------------
(***************************************************************************)
(* How the orchestrator turns tickets into worker containers: the Plane,   *)
(* completed and blocked routes of orchestrator/src/api/webhooks.ts with   *)
(* the priority queue, the registry and the container calls they make.     *)
(*                                                                         *)
(* Node runs one handler at a time, but every await lets another one in.   *)
(* An activation of a handler is a record in "call"; its pc names the      *)
(* await it is suspended at, and each action runs the code from one await  *)
(* to the next.  What a handler keeps in local variables across an await   *)
(* (the task it provisions, the worker it interrupts) is in the record     *)
(* and nowhere else.                                                       *)
(*                                                                         *)
(*     /plane, P0 interrupt    kill -> list -> create -> start             *)
(*     /plane, nothing queued          list -> create -> start             *)
(*     /completed, /blocked    posted -> notify -> list -> create -> start *)
(*                                                                         *)
(* Left out: Matrix rooms (createWorkerRoom returns null when it fails, so *)
(* the await is part of "list"), consumer tokens, and the P0 rate limit,   *)
(* whose list of timestamps no production code ever appends to.            *)
(***************************************************************************)
EXTENDS QueueOps

CONSTANTS
    Submissions,    \* the tasks Plane may submit: ticket and priority
    Slots,          \* bound: handlers and worker posts in progress at once
    MaxWorkers,     \* config.docker.maxWorkers
    Failures,       \* what may go wrong: "docker", "report", "crash"
    NoTask          \* null

ASSUME SubmissionsAssumption == Submissions \subseteq Task
ASSUME SlotsAssumption == IsFiniteSet(Slots)
ASSUME TicketsAssumption == IsFiniteSet(Tickets)
ASSUME MaxWorkersAssumption == MaxWorkers \in Nat \ {0}
ASSUME FailuresAssumption == Failures \subseteq {"docker", "report", "crash"}
ASSUME NoTaskAssumption == NoTask \notin Task /\ NoTask \notin Tickets

VARIABLES
    queue,          \* priorityQueue.queue
    running,        \* priorityQueue.runningTask
    registry,       \* status of the registry's entry of each ticket
    box,            \* the container named after each ticket
    call,           \* the activations in progress
    acked           \* history: tickets accepted (200) and not yet reported on

vars == <<queue, running, registry, box, call, acked>>

-----------------------------------------------------------------------------
EntryStatus == {"ABSENT", "BOOTING", "PENDING", "RUNNING", "BLOCKED"}

(* Container names are unique, so a ticket has at most one container.  It has   *)
(* been created but not started, works on its ticket, or has reported and stays *)
(* up in the interactive loop of base-worker/src/index.py.              *)
BoxState == {"none", "created", "working", "interactive"}

PC   == {"idle", "posted", "notify", "kill", "list", "create", "start", "lost"}
Flow == {"none", "plane", "p0", "spawn", "completed", "blocked"}

Call == [pc : PC, flow : Flow, task : Task \cup {NoTask}, peer : Tickets \cup {NoTask}]

Activation(pc, flow, task, peer) == [pc |-> pc, flow |-> flow, task |-> task, peer |-> peer]
Idle == Activation("idle", "none", NoTask, NoTask)

(* The activations that hold a task, and have or had it registered as BOOTING.  *)
ProvisionPCs == {"kill", "list", "create", "start", "lost"}
Provisioning(s, t) == call[s].pc \in ProvisionPCs /\ call[s].task.ticket = t

(* Does an activation still hold ticket t in a local variable only?             *)
Held(t) == \E s \in Slots : call[s].task # NoTask /\ call[s].task.ticket = t

Live == {t \in Tickets : box[t] \in {"working", "interactive"}}

RunningIs(t) == running # NoTask /\ running.ticket = t

(* registry.update() and updateStatus() change an entry only when there is one. *)
(* (Variant: the queue's own word for an interrupted task.)                     *)
SetStatusPaused(t, status) ==
    IF registry[t] = "ABSENT" THEN registry
    ELSE [registry EXCEPT ![t] = IF status = "PENDING" THEN "paused" ELSE status]

SetStatus(t, status) ==
    IF registry[t] = "ABSENT" THEN registry ELSE [registry EXCEPT ![t] = status]

(* dequeue() and what spawnTask() does with a task it could not start.          *)
(* (Variants: looking without taking; dropping; back in front of the queue.)    *)
Peeked == queue
Dequeued == Tail(queue)

PutBackNowhere(task) == queue
PutBackInFront(task) == <<task>> \o queue
PutBack(task) == Enqueue(queue, task)

(* registry.remove().  (Variant: a catch block without it.)                     *)
KeepEntry(t) == registry
DropEntry(t) == [registry EXCEPT ![t] = "ABSENT"]

(* The check of spawnWorker().  (Variant: off by one.)                          *)
HasRoomOrOneMore == Cardinality(Live) <= MaxWorkers
HasRoom == Cardinality(Live) < MaxWorkers

-----------------------------------------------------------------------------
Init ==
    /\ queue = << >>
    /\ running = NoTask
    /\ registry = [t \in Tickets |-> "ABSENT"]
    /\ box = [t \in Tickets |-> "none"]
    /\ call = [s \in Slots |-> Idle]
    /\ acked = {}

(***************************************************************************)
(* POST /plane.  Up to its first await the handler is atomic: it drops a   *)
(* ticket the registry or the queue knows, and otherwise interrupts the    *)
(* running task, starts the ticket at once, or queues it.                  *)
(***************************************************************************)
Known(t) == registry[t] # "ABSENT" \/ RunningIs(t) \/ Queued(queue, t)

ShouldInterrupt(task) == running # NoTask /\ task.prio = 0 /\ running.prio # 0

PlaneInterrupt(s, task) ==
    /\ call[s].pc = "idle"
    /\ ~ Known(task.ticket)
    /\ ShouldInterrupt(task)
    /\ queue' = Enqueue(queue, task)
    /\ registry' = [registry EXCEPT ![task.ticket] = "BOOTING"]
    /\ call' = [call EXCEPT ![s] = Activation("kill", "p0", task, running.ticket)]
    /\ UNCHANGED <<running, box, acked>>

PlaneImmediate(s, task) ==
    /\ call[s].pc = "idle"
    /\ ~ Known(task.ticket)
    /\ running = NoTask /\ queue = << >>
    /\ registry' = [registry EXCEPT ![task.ticket] = "BOOTING"]
    /\ call' = [call EXCEPT ![s] = Activation("list", "plane", task, NoTask)]
    /\ UNCHANGED <<queue, running, box, acked>>

PlaneQueued(task) ==
    /\ ~ Known(task.ticket)
    /\ ~ ShouldInterrupt(task)
    /\ running # NoTask \/ queue # << >>
    /\ queue' = Enqueue(queue, task)
    /\ registry' = [registry EXCEPT ![task.ticket] = "PENDING"]
    /\ acked' = acked \cup {task.ticket}
    /\ UNCHANGED <<running, box, call>>

-----------------------------------------------------------------------------
(***************************************************************************)
(* Provisioning, common to the three flows: spawnWorker() and what its     *)
(* caller does when it returns or throws.                                  *)
(***************************************************************************)

(* The container of t is stopped and removed.  An activation about to start it  *)
(* will find it gone.                                                           *)
RemoveBox(t) == box' = [box EXCEPT ![t] = "none"]

LoseStart(t) == [s \in Slots |->
    IF call[s].pc = "start" /\ call[s].task.ticket = t THEN [call[s] EXCEPT !.pc = "lost"]
                                                       ELSE call[s]]

(* The catch block of the flow: /plane drops the ticket, the P0 branch also     *)
(* takes it off the queue, spawnTask() puts it back on the queue.               *)
Catch(s) ==
    LET task == call[s].task
        t == task.ticket
    IN  /\ registry' = DropEntry(t)
        /\ queue' = IF call[s].flow = "p0" THEN Without(queue, t)
                    ELSE IF call[s].flow = "spawn" THEN PutBack(task) ELSE queue
        /\ running' = IF call[s].flow = "p0" /\ RunningIs(t) THEN NoTask ELSE running
        /\ call' = [call EXCEPT ![s] = Idle]
        /\ UNCHANGED acked

(* The running worker is killed to make room for the P0 task, and its entry     *)
(* goes back to PENDING.                                                        *)
Kill(s) ==
    LET victim == call[s].peer
    IN  /\ call[s].pc = "kill"
        /\ RemoveBox(victim)
        /\ registry' = SetStatus(victim, "PENDING")
        /\ call' = [LoseStart(victim) EXCEPT ![s].pc = "list", ![s].peer = NoTask]
        /\ UNCHANGED <<queue, running, acked>>

(* spawnWorker() counts the running worker containers ...                       *)
List(s) ==
    /\ call[s].pc = "list"
    /\ HasRoom
    /\ call' = [call EXCEPT ![s].pc = "create"]
    /\ UNCHANGED <<queue, running, registry, box, acked>>

(* ... and later creates its own, whose name must be free ...                   *)
Create(s) ==
    LET t == call[s].task.ticket
    IN  /\ call[s].pc = "create"
        /\ box[t] = "none"
        /\ box' = [box EXCEPT ![t] = "created"]
        /\ call' = [call EXCEPT ![s].pc = "start"]
        /\ UNCHANGED <<queue, running, registry, acked>>

(* ... and starts it, and the caller records the worker.  (A worker boots for   *)
(* seconds, so it does not report before start() has returned.)  Only the       *)
(* immediate start enqueues the task here, and like the P0 branch it leaves in  *)
(* the queue the task it starts.                                                *)
Start(s) ==
    LET task == call[s].task
        t == task.ticket
    IN  /\ call[s].pc = "start"
        /\ box' = [box EXCEPT ![t] = "working"]
        /\ queue' = IF call[s].flow = "plane" THEN Enqueue(queue, task) ELSE queue
        /\ running' = task
        /\ registry' = SetStatus(t, "RUNNING")
        /\ acked' = IF call[s].flow = "spawn" THEN acked ELSE acked \cup {t}
        /\ call' = [call EXCEPT ![s] = Idle]

(* A call that throws: too many workers, the name is taken, the container to    *)
(* start is gone.  The engine may also refuse a call for reasons of its own;    *)
(* killWorker() may do so with the victim already stopped, spawnWorker() with   *)
(* its container created or even up, and a container that cannot be started     *)
(* stays behind under its name.                                                 *)
Throws(s) ==
    \/ call[s].pc = "list" /\ ~ HasRoom
    \/ call[s].pc = "create" /\ box[call[s].task.ticket] # "none"
    \/ call[s].pc = "lost"
    \/ "docker" \in Failures /\ call[s].pc \in {"kill", "list", "create", "start"}

SpawnFails(s) ==
    /\ Throws(s)
    /\ Catch(s)
    /\ UNCHANGED box

KillFailsLate(s) ==
    /\ "docker" \in Failures /\ call[s].pc = "kill"
    /\ box[call[s].peer] \in {"working", "interactive"}
    /\ RemoveBox(call[s].peer)
    /\ Catch(s)

(* The worker whose start took effect and threw goes on without an entry.       *)
SpawnFailsLate(s) ==
    LET t == call[s].task.ticket
    IN  /\ "docker" \in Failures
        /\ \/ call[s].pc = "create" /\ box[t] = "none" /\ box' = [box EXCEPT ![t] = "created"]
           \/ call[s].pc = "start" /\ box' = [box EXCEPT ![t] = "working"]
        /\ Catch(s)

-----------------------------------------------------------------------------
(***************************************************************************)
(* POST /completed and POST /blocked.                                      *)
(***************************************************************************)
ClearRunning(t) == IF RunningIs(t) THEN NoTask ELSE running

(* completeTask() hands over the next task before the registry entry goes and   *)
(* before the await of notifyCompleted(): from here on the task is in a local   *)
(* variable of this activation.  (pausedTasks is always empty: interruptWithP0  *)
(* has no caller.)                                                              *)
Completed(s) ==
    LET t == call[s].peer
    IN  /\ call[s].pc = "posted" /\ call[s].flow = "completed"
        /\ running' = ClearRunning(t)
        /\ registry' = DropEntry(t)
        /\ acked' = acked \ {t}
        /\ \/ /\ queue = << >>
              /\ call' = [call EXCEPT ![s] = Idle]
              /\ UNCHANGED queue
           \/ /\ queue # << >>
              /\ queue' = Dequeued
              /\ call' = [call EXCEPT ![s] = Activation("notify", "completed", Head(queue), NoTask)]
        /\ UNCHANGED box

Blocked(s) ==
    LET t == call[s].peer
    IN  /\ call[s].pc = "posted" /\ call[s].flow = "blocked"
        /\ running' = ClearRunning(t)
        /\ queue' = Without(queue, t)
        /\ registry' = SetStatus(t, "BLOCKED")
        /\ call' = [call EXCEPT ![s] = Activation("notify", "blocked", NoTask, NoTask)]
        /\ acked' = acked \ {t}
        /\ UNCHANGED box

(* The admin has been told; spawnTask() registers the task it is given.  The    *)
(* blocked route takes it off the queue only now.                               *)
SpawnTask(s, task) ==
    /\ registry' = [registry EXCEPT ![task.ticket] = "BOOTING"]
    /\ call' = [call EXCEPT ![s] = Activation("list", "spawn", task, NoTask)]

CompletedNotified(s) ==
    /\ call[s].pc = "notify" /\ call[s].flow = "completed"
    /\ SpawnTask(s, call[s].task)
    /\ UNCHANGED <<queue, running, box, acked>>

BlockedNotified(s) ==
    /\ call[s].pc = "notify" /\ call[s].flow = "blocked"
    /\ \/ /\ queue # << >>
          /\ queue' = Dequeued
          /\ SpawnTask(s, Head(queue))
       \/ /\ queue = << >>
          /\ call' = [call EXCEPT ![s] = Idle]
          /\ UNCHANGED <<queue, registry>>
    /\ UNCHANGED <<running, box, acked>>

-----------------------------------------------------------------------------
(***************************************************************************)
(* The workers.  A worker reports once, without retrying; with a Matrix    *)
(* room it then stays up for the admin, otherwise its container exits.     *)
(* Containers are removed when they exit (AutoRemove): they crash, are     *)
(* scaled down, or are deleted by killZombies().                           *)
(***************************************************************************)
WorkerReports(t, s) ==
    /\ box[t] = "working"
    /\ call[s].pc = "idle"
    /\ \E flow \in {"completed", "blocked"} :
          call' = [call EXCEPT ![s] = Activation("posted", flow, NoTask, t)]
    /\ \E after \in {"interactive", "none"} : box' = [box EXCEPT ![t] = after]
    /\ UNCHANGED <<queue, running, registry, acked>>

ReportLost(s) ==
    /\ "report" \in Failures
    /\ call[s].pc = "posted"
    /\ call' = [call EXCEPT ![s] = Idle]
    /\ UNCHANGED <<queue, running, registry, box, acked>>

WorkerExits(t) ==
    /\ box[t] = "interactive" \/ (box[t] = "working" /\ "crash" \in Failures)
    /\ RemoveBox(t)
    /\ UNCHANGED <<queue, running, registry, call, acked>>

-----------------------------------------------------------------------------
(* What the event loop runs next for an activation whose await has settled.     *)
Resume(s) ==
    \/ Kill(s) \/ List(s) \/ Create(s) \/ Start(s)
    \/ SpawnFails(s) \/ KillFailsLate(s) \/ SpawnFailsLate(s)
    \/ Completed(s) \/ Blocked(s)
    \/ CompletedNotified(s) \/ BlockedNotified(s)

Plane(task) ==
    \/ PlaneQueued(task)
    \/ \E s \in Slots : PlaneImmediate(s, task) \/ PlaneInterrupt(s, task)

Workers ==
    \/ \E t \in Tickets : WorkerExits(t) \/ \E s \in Slots : WorkerReports(t, s)
    \/ \E s \in Slots : ReportLost(s)

Next ==
    \/ \E task \in Submissions : Plane(task)
    \/ Workers
    \/ \E s \in Slots : Resume(s)

Spec == Init /\ [][Next]_vars

(* Every await settles: the Matrix client times out, and the container engine   *)
(* answers.  Nothing is assumed of Plane or of the workers.                     *)
Fairness == \A s \in Slots : WF_vars(Resume(s))

FairSpec == Spec /\ Fairness

-----------------------------------------------------------------------------
(* Every variable has its type, and an activation has in its local variables    *)
(* what the code after its await reads.                                         *)
TypeOK ==
    /\ queue \in Seq(Task)
    /\ running \in Task \cup {NoTask}
    /\ registry \in [Tickets -> EntryStatus]
    /\ box \in [Tickets -> BoxState]
    /\ call \in [Slots -> Call]
    /\ \A s \in Slots :
          /\ call[s].pc \in ProvisionPCs => call[s].task \in Task
          /\ call[s].pc = "notify" /\ call[s].flow = "completed" => call[s].task \in Task
          /\ call[s].pc \in {"posted", "kill"} => call[s].peer \in Tickets
    /\ acked \in SUBSET Tickets

(* The waiting tasks are in priority order whatever handlers add, take, filter  *)
(* or put back, in any interleaving: the queue that dequeue() shifts from has   *)
(* its most urgent task in front.                                               *)
QueueSorted == Sorted(queue)

(* A ticket is registered as BOOTING only while some activation is provisioning *)
(* it: no failure path leaves such an entry behind, for which /plane would      *)
(* answer "Already processing" for ever.                                        *)
BootingOwned ==
    \A t \in Tickets : registry[t] = "BOOTING" => \E s \in Slots : Provisioning(s, t)

(* The same over time: a BOOTING entry does not stay, its activation ends with  *)
(* the worker recorded as RUNNING or with the entry removed.                    *)
BootingEnds ==
    \A t \in Tickets : registry[t] = "BOOTING" ~> registry[t] # "BOOTING"

(* spawnWorker() counts the containers and creates its own several awaits       *)
(* later.  The limit can be overrun, but only by the activations that counted   *)
(* at the same time.                                                            *)
Admitted == {s \in Slots : call[s].pc \in {"create", "start"}}
OverrunBounded == Cardinality(Live) + Cardinality(Admitted) <= MaxWorkers - 1 + Cardinality(Slots)

(* A ticket that Plane was told is accepted is never dropped before its worker  *)
(* reports on it: it waits in the queue, or it is the running task, or it is    *)
(* registered, or an activation holds it.                                       *)
AcceptedNotLost ==
    \A t \in acked : Queued(queue, t) \/ RunningIs(t) \/ registry[t] # "ABSENT" \/ Held(t)

(* registry.ts, "register BEFORE provisioning to prevent duplicates": no two    *)
(* activations provision the same ticket.                                       *)
OneProvisioner ==
    \A s1, s2 \in Slots : \A t \in Tickets :
        Provisioning(s1, t) /\ Provisioning(s2, t) => s1 = s2

-----------------------------------------------------------------------------
(***************************************************************************)
(* What the documents and comments say and the code does not keep.         *)
(***************************************************************************)

(* QUICKSTART.md: MAX_WORKERS is the "maximum concurrent worker containers".    *)
MaxWorkersKept == Cardinality(Live) <= MaxWorkers

(* registry.ts: the registry "tracks all active workers".                       *)
WorkersTracked ==
    \A t \in Tickets : box[t] = "working" => registry[t] # "ABSENT" \/ Held(t)

(* priority-queue.ts, completeTask(): "mark the current task as completed and   *)
(* check for next queued task"; the task it hands over is not the completed one.*)
NextIsAnother ==
    [][\A s \in Slots :
         call[s].flow = "completed" /\ call[s].pc = "posted" /\ call'[s].pc = "notify"
           => call'[s].task.ticket # call[s].peer]_vars

(* The rest of the system at its best: a worker reports sooner or later, and    *)
(* one that stays up afterwards is ended by killZombies().                      *)
WorkerFairness ==
    \A t \in Tickets :
        /\ WF_vars(\E s \in Slots : WorkerReports(t, s))
        /\ WF_vars(WorkerExits(t))

(* webhooks.ts: "spawn the next queued task if a worker slot is available".     *)
QueuedStarts == \A t \in Tickets : registry[t] = "PENDING" /\ Queued(queue, t) ~> box[t] = "working"

(* webhooks.ts: the paused task "will resume after P0 completes" (unless the    *)
(* critical task, or another, ends blocked instead).                            *)
Interrupted(t) == registry[t] = "PENDING" /\ ~ Queued(queue, t) /\ ~ Held(t)
InterruptedResumes ==
    \A t \in Tickets :
        Interrupted(t) ~> box[t] = "working" \/ \E u \in Tickets : registry[u] = "BLOCKED"
=============================================================================
