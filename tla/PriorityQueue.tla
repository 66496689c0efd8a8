---------------------------- MODULE PriorityQueue ----------------------------
(***************************************************************************)
(* The class PriorityQueue of orchestrator/src/core/priority-queue.ts with *)
(* its copy in Redis.                                                      *)
(*                                                                         *)
(* Every method changes the memory at once and issues a SET of the whole   *)
(* state without awaiting it.  The client sends its commands in order,     *)
(* keeps those it has not sent while the link is down, and rejects those   *)
(* that were sent and not answered.  On every 'connect' a GET is issued    *)
(* and its answer replaces the memory, whatever has happened since.        *)
(*                                                                         *)
(* The callers appear as far as they decide what the methods are called    *)
(* with: a submitted ticket is one the queue does not know, a task is      *)
(* started by the handler it was handed to.  Left out: the hourly limit of *)
(* interrupts and getSummary().                                            *)
(***************************************************************************)
EXTENDS QueueOps

CONSTANTS
    Submissions,    \* the tasks that may be submitted
    ReorderTo,      \* the priorities the PO may move a waiting task to
    MaxQueue,       \* bound: waiting tasks
    MaxWire,        \* bound: commands issued and not yet executed
    None            \* null

ASSUME SubmissionsAssumption == Submissions \subseteq Task
ASSUME ReorderToAssumption == ReorderTo \subseteq Priorities
ASSUME BoundsAssumption == MaxQueue \in Nat /\ MaxWire \in Nat
ASSUME NoneAssumption == None \notin Task

VARIABLES
    mem,            \* queue, runningTask and pausedTasks
    held,           \* tasks handed to a caller that has not started them yet
    pausing,        \* the P0 task interruptWithP0() is about to run, or null
    up,             \* is the link to Redis up?
    linked,         \* isRedisConnected, which is never reset
    wire,           \* commands issued and not yet executed, oldest first
    replies,        \* answers to GET on their way back
    store,          \* what Redis holds under turing_os_priority_queue
    unsaved,        \* history: memory has changed, or a SET was lost, since the last SET
    overlap         \* history: a SET was issued after the pending GET

client == <<up, linked, wire, replies, store>>
vars == <<mem, held, pausing, client, unsaved, overlap>>

-----------------------------------------------------------------------------
Memory == [queue : Seq(Task), running : Task \cup {None}, paused : SUBSET Task]
Empty  == [queue |-> << >>, running |-> None, paused |-> {}]

Set(m) == [op |-> "set", value |-> m]
Get    == [op |-> "get", value |-> Empty]

IsSet(c) == c.op = "set"
HasSet(w) == \E i \in 1 .. Len(w) : IsSet(w[i])
Loading == replies # << >> \/ \E i \in 1 .. Len(wire) : ~ IsSet(wire[i])

Runs(m, t) == m.running # None /\ m.running.ticket = t
HasTask(t) == Runs(mem, t) \/ Queued(mem.queue, t)

Stopped(m, t) == IF Runs(m, t) THEN [m EXCEPT !.running = None] ELSE m

(* _saveToRedis() after each of the states in ms; without a connection so far   *)
(* it returns at once.                                                          *)
Saved(ms) == IF linked THEN wire \o [i \in DOMAIN ms |-> Set(ms[i])] ELSE wire

(* A method ends: the memory is the last of ms, and each was saved in turn.     *)
Becomes(ms) ==
    /\ linked => Len(wire) + Len(ms) <= MaxWire
    /\ \A i \in DOMAIN ms : Len(ms[i].queue) <= MaxQueue
    /\ mem' = ms[Len(ms)]
    /\ wire' = Saved(ms)
    /\ unsaved' = ~ linked
    /\ overlap' = (overlap \/ Loading)
    /\ UNCHANGED <<up, linked, replies, store>>

-----------------------------------------------------------------------------
Init ==
    /\ mem = Empty /\ held = {} /\ pausing = None
    /\ up = FALSE /\ linked = FALSE /\ wire = << >> /\ replies = << >> /\ store = None
    /\ unsaved = TRUE /\ overlap = FALSE

(* enqueue() of a submitted ticket, or of a task its caller could not start.    *)
Submit(task) ==
    LET t == task.ticket
    IN  /\ ~ HasTask(t)
        /\ \A other \in mem.paused \cup held : other.ticket # t
        /\ Becomes(<<[mem EXCEPT !.queue = Enqueue(@, task)]>>)
        /\ UNCHANGED <<held, pausing>>

PutBack(task) ==
    /\ task \in held
    /\ Becomes(<<[mem EXCEPT !.queue = Enqueue(@, task)]>>)
    /\ held' = held \ {task}
    /\ UNCHANGED pausing

Dequeue ==
    /\ mem.queue # << >>
    /\ Becomes(<<[mem EXCEPT !.queue = Tail(@)]>>)
    /\ held' = held \cup {Head(mem.queue)}
    /\ UNCHANGED pausing

(* /plane also starts a task that it leaves in the queue.                       *)
StartTask(task) ==
    /\ task \in held \/ \E i \in DOMAIN mem.queue : mem.queue[i] = task
    /\ Becomes(<<[mem EXCEPT !.running = task]>>)
    /\ held' = held \ {task}
    /\ UNCHANGED pausing

(* The paused task that completing t puts back: the one paused under t itself.  *)
Resumable(t) == {task \in mem.paused : task.ticket = t}

(* (Variant: without the test whether there is one.)                            *)
ResumedUnchecked(t) ==
    [Stopped(mem, t) EXCEPT
        !.paused = @ \ Resumable(t),
        !.queue = <<IF Resumable(t) = {} THEN None ELSE CHOOSE task \in Resumable(t) : TRUE>> \o @]

Resumed(t) ==
    LET back == Resumable(t)
    IN  [Stopped(mem, t) EXCEPT
            !.paused = @ \ back,
            !.queue = IF back = {} THEN @ ELSE <<CHOOSE task \in back : TRUE>> \o @]

(* Saves the state with the resumed task in front, and again when dequeue()     *)
(* takes the next task from it.                                                 *)
(* A worker reports on a ticket that has been started.                          *)
CompleteTask(t) ==
    LET m == Resumed(t)
    IN  /\ Runs(mem, t) \/ (~ Queued(mem.queue, t) /\ \A task \in held : task.ticket # t)
        /\ \/ /\ m.queue = << >>
              /\ Becomes(<<m>>)
              /\ UNCHANGED held
           \/ /\ m.queue # << >>
              /\ Becomes(<<m, [m EXCEPT !.queue = Tail(@)]>>)
              /\ held' = held \cup {Head(m.queue)}
        /\ UNCHANGED pausing

BlockTask(t) ==
    /\ Becomes(<<[Stopped(mem, t) EXCEPT !.queue = Without(@, t)]>>)
    /\ UNCHANGED <<held, pausing>>

Remove(t) ==
    /\ Becomes(<<[Stopped(mem, t) EXCEPT !.queue = Without(@, t),
                                          !.paused = @ \ Resumable(t)]>>)
    /\ UNCHANGED <<held, pausing>>

Reorder(t, prio) ==
    /\ Queued(mem.queue, t)
    /\ LET i == CHOOSE j \in 1 .. Len(mem.queue) :
                   /\ mem.queue[j].ticket = t
                   /\ \A k \in 1 .. j - 1 : mem.queue[k].ticket # t
           rest == Keep(mem.queue, (1 .. Len(mem.queue)) \ {i})
       IN  Becomes(<<[mem EXCEPT !.queue = Enqueue(rest, [ticket |-> t, prio |-> prio])]>>)
    /\ UNCHANGED <<held, pausing>>

(* interruptWithP0() records the running task as paused and awaits a callback   *)
(* before it replaces it; nothing is saved in between.                          *)
Pause(task) ==
    /\ pausing = None /\ task \in held /\ task.prio = 0
    /\ mem.running # None /\ mem.running.prio # 0
    /\ mem' = [mem EXCEPT !.paused = (@ \ Resumable(mem.running.ticket)) \cup {mem.running}]
    /\ pausing' = task
    /\ held' = held \ {task}
    /\ unsaved' = TRUE
    /\ UNCHANGED <<client, overlap>>

Interrupt ==
    /\ pausing # None
    /\ Becomes(<<[mem EXCEPT !.running = pausing]>>)
    /\ pausing' = None
    /\ UNCHANGED held

-----------------------------------------------------------------------------
(* (Variant: the GET overtakes what was issued while the link was down.)         *)
LoadFirst == <<Get>> \o wire
LoadLast == Append(wire, Get)

(* The link comes up: the 'connect' listener issues its GET behind whatever was *)
(* issued while it was down.                                                    *)
Connect ==
    /\ ~ up /\ Len(wire) < MaxWire
    /\ up' = TRUE /\ linked' = TRUE
    /\ wire' = LoadLast
    /\ overlap' = (overlap /\ Loading)
    /\ UNCHANGED <<mem, held, pausing, replies, store, unsaved>>

Execute ==
    /\ up /\ wire # << >>
    /\ wire' = Tail(wire)
    /\ \/ /\ IsSet(Head(wire))
          /\ store' = Head(wire).value
          /\ UNCHANGED replies
       \/ /\ ~ IsSet(Head(wire))
          /\ replies' = Append(replies, store)
          /\ UNCHANGED store
    /\ UNCHANGED <<mem, held, pausing, up, linked, unsaved, overlap>>

(* The link breaks: the oldest commands were sent and are rejected, the answers *)
(* on their way are lost, the commands not sent yet are kept.                   *)
Disconnect ==
    /\ up
    /\ up' = FALSE
    /\ replies' = << >>
    /\ \E n \in 0 .. Len(wire) :
          LET rest == SubSeq(wire, n + 1, Len(wire))
          IN  /\ wire' = rest
              /\ unsaved' = (unsaved \/ (HasSet(wire) /\ ~ HasSet(rest)))
    /\ UNCHANGED <<mem, held, pausing, linked, store, overlap>>

(* _loadFromRedis() goes on: what Redis held replaces the memory.               *)
Load ==
    /\ replies # << >>
    /\ replies' = Tail(replies)
    /\ \/ /\ Head(replies) = None
          /\ UNCHANGED <<mem, unsaved>>
       \/ /\ Head(replies) # None
          /\ mem' = Head(replies)
          /\ unsaved' = overlap
    /\ UNCHANGED <<held, pausing, up, linked, wire, store, overlap>>

(* The orchestrator restarts.                                                   *)
Restart ==
    /\ mem' = Empty /\ held' = {} /\ pausing' = None
    /\ up' = FALSE /\ linked' = FALSE /\ wire' = << >> /\ replies' = << >>
    /\ unsaved' = TRUE /\ overlap' = FALSE
    /\ UNCHANGED store

-----------------------------------------------------------------------------
OtherMethods ==
    \/ \E task \in held : PutBack(task) \/ Pause(task)
    \/ \E task \in Task : StartTask(task)
    \/ \E t \in Tickets : BlockTask(t) \/ Remove(t)
    \/ \E t \in Tickets : \E prio \in ReorderTo : Reorder(t, prio)
    \/ Dequeue \/ Interrupt

Methods ==
    \/ \E task \in Submissions : Submit(task)
    \/ \E t \in Tickets : CompleteTask(t)
    \/ OtherMethods

Redis == Connect \/ Execute \/ Disconnect \/ Load \/ Restart

Next == Methods \/ Redis

Spec == Init /\ [][Next]_vars

-----------------------------------------------------------------------------
TypeOK ==
    /\ mem \in Memory
    /\ held \in SUBSET Task
    /\ pausing \in Task \cup {None}
    /\ up \in BOOLEAN /\ linked \in BOOLEAN /\ (up => linked)
    /\ wire \in Seq([op : {"set", "get"}, value : Memory]) /\ Len(wire) <= MaxWire
    /\ replies \in Seq(Memory \cup {None})
    /\ store \in Memory \cup {None}
    /\ unsaved \in BOOLEAN /\ overlap \in BOOLEAN

(* _saveToRedis() is never awaited, yet once the link is quiet Redis holds the  *)
(* memory exactly, after any methods, outages, reloads and restarts: unless no  *)
(* connection existed, a SET was lost or a load overtook one, and then until    *)
(* the next method only.                                                        *)
StoreKeepsUp == up /\ ~ Loading /\ wire = << >> /\ ~ unsaved => store = mem

(* On every queue the methods can build, inserting a task is the loop and the   *)
(* splice of enqueue(), and blocking or removing a ticket is the filter.        *)
QueueOpsAreLoops ==
    LET q == mem.queue
    IN  /\ \A task \in Task : Enqueue(q, task) = EnqueueLoop(q, task)
        /\ \A t \in Tickets : Without(q, t) = FilterLoop(q, t)[Len(q)]

(* project-config.md, INTERRUPT: "After P0: RESUME paused task".  When the P0   *)
(* task completes, a task that was paused for it is waiting again, or handed    *)
(* over at once.                                                                *)
PausedResumes ==
    [][\A t \in Tickets :
         CompleteTask(t) /\ Runs(mem, t) /\ mem.running.prio = 0 /\ mem.paused # {}
           => \E task \in mem.paused : Queued(mem'.queue, task.ticket) \/ task \in held']_vars
=============================================================================
