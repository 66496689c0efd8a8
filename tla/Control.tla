------------------------------- MODULE Control -------------------------------
(***************************************************************************)
(* Who may start and stop a worker besides the dispatch of tickets: the    *)
(* admin's routes and slash-commands, the auto-start at boot, the scaling  *)
(* by load, the removal of old containers, and the reconciliation at the   *)
(* end of a health check (orchestrator/src/index.ts, api/webhooks.ts,      *)
(* core/docker.ts, core/registry.ts, core/health-monitor.ts).              *)
(*                                                                         *)
(* Each is a call that awaits the Docker engine between its steps:         *)
(*                                                                         *)
(*   stopWorker     stop -> stopping                                       *)
(*   startWorker    find -> restart | room -> create -> launch             *)
(*   deleteWorker   look -> halting -> remove                              *)
(*   killZombies    next -> deleteWorker -> next                           *)
(*   auto-start     next -> room -> create -> launch -> next               *)
(*   reconcile      list -> reconcile                                      *)
(*                                                                         *)
(* The registry is what the calls share; the engine's containers remove    *)
(* themselves some time after they stop (AutoRemove).  A ticket keeps its  *)
(* role, so its container's name is the ticket's.  Left out: Plane's       *)
(* tickets and /completed (Dispatch), the recovery of silent workers       *)
(* (Supervision), Matrix rooms, and the load, which may always ask for     *)
(* more or for fewer workers.                                              *)
(***************************************************************************)
EXTENDS Integers, Sequences, FiniteSets

CONSTANTS
    Tickets,        \* the tickets of the agent roles, init-<role>
    AutoStart,      \* config.orchestrator.autoStartRoles: a sequence of Tickets
    Admins,         \* bound: admin requests in progress at once
    MinWorkers,     \* config.worker.minWorkers
    MaxWorkers,     \* config.docker.maxWorkers
    MaxRequests,    \* bound: requests and scale actions in progress at once
    MaxFaults,      \* bound: calls the engine refuses or loses
    Crashes,        \* whether containers stop by themselves
    None            \* null

ASSUME AutoStartAssumption == AutoStart \in Seq(Tickets)
ASSUME TicketsAssumption == IsFiniteSet(Tickets) /\ None \notin Tickets
ASSUME AdminsAssumption == Admins \cap {"boot", "scale", "check", "zombies"} = {}
ASSUME NumbersAssumption ==
    /\ MinWorkers \in Nat /\ MaxWorkers \in Nat \ {0}
    /\ MaxRequests \in Nat \ {0} /\ MaxFaults \in Nat /\ Crashes \in BOOLEAN

VARIABLES
    registry,   \* the entry of each ticket, or None
    box,        \* the container of each ticket, or None
    call,       \* what each caller is doing
    faults,     \* calls the engine has refused or lost
    mixed,      \* history: tickets two requests have been about at once
    strays      \* history: tickets whose container runs although its start threw

vars == <<registry, box, call, faults, mixed, strays>>

-----------------------------------------------------------------------------
Timers  == {"boot", "scale", "check", "zombies"}
Callers == Admins \cup Timers

Status == {"PENDING", "BOOTING", "RUNNING", "STOPPED", "TERMINATING"}

(* A container id matters only for whether its container is still there:      *)
(* "dead" stands for the id of any container that is not.                     *)
Id == {"live", "dead", None}

(* quiet: neither progress nor a heartbeat for longer than the idle timeout.  *)
Entry == [status : Status, id : Id, quiet : BOOLEAN]

(* exited: stopped, and about to be removed by the engine.                    *)
(* old: created more than config.docker.timeoutMinutes ago.                   *)
Box == [state : {"created", "running", "exited"}, old : BOOLEAN]

ASSUME NoneAssumption == None \notin Entry \cup Box

Ops == {"none", "stop", "start", "unblock", "recover", "delete", "down", "up", "boot", "check", "zombies"}
PC  == {"idle", "stop", "stopping", "find", "restart", "room", "create", "launch",
        "look", "halting", "remove", "next", "reconcile"}
Call == [op : Ops, pc : PC, ticket : Tickets \cup {None}, id : Id,
         todo : SUBSET Tickets, listed : SUBSET Tickets]

Idle == [op |-> "none", pc |-> "idle", ticket |-> None, id |-> None, todo |-> {}, listed |-> {}]

Boxed      == {t \in Tickets : box[t] # None}
Registered == {t \in Tickets : registry[t] # None}
In(t, s)   == box[t] # None /\ box[t].state = s
Has(t, s)  == registry[t] # None /\ registry[t].status = s
Down(t)    == box[t] # None /\ box[t].state # "running"
Up         == {t \in Tickets : In(t, "running")}
Running    == {t \in Tickets : Has(t, "RUNNING")}

(* The container a call is about is still there; it is still running.         *)
Same(c)  == call[c].id = "live"
Still(c) == Same(c) /\ In(call[c].ticket, "running")

(* A container is removed: the entry and the calls that have its id have the  *)
(* id of a dead one.                                                          *)
Dead(id) == IF id = "live" THEN "dead" ELSE id
Disowned(t) == IF registry[t] = None THEN registry ELSE [registry EXCEPT ![t].id = Dead(@)]
Lost(t) == [c \in Callers |-> [call[c] EXCEPT !.id = IF call[c].ticket = t THEN Dead(@) ELSE @,
                                              !.listed = @ \ {t}]]

(* t is the first of the auto-start roles that is in S.                       *)
Starters == {AutoStart[i] : i \in DOMAIN AutoStart}
IsFirst(t, S) ==
    \E i \in DOMAIN AutoStart :
        /\ t = AutoStart[i] /\ t \in S
        /\ \A j \in 1 .. i - 1 : AutoStart[j] \notin S

(* registry.updateStatus() and update(): nothing if there is no entry.        *)
SetStatus(t, s) ==
    registry' = IF registry[t] = None THEN registry ELSE [registry EXCEPT ![t].status = s]
SetRunning(t) ==
    registry' = IF registry[t] = None THEN registry
                ELSE [registry EXCEPT ![t].status = "RUNNING", ![t].id = "live"]

Goto(c, pc)  == call' = [call EXCEPT ![c].pc = pc, ![c].id = None]
About(c, pc) == call' = [call EXCEPT ![c].pc = pc, ![c].id = "live"]

(* The loops of "boot" and "zombies" go on with the next ticket; every other  *)
(* call ends with its ticket.                                                 *)
EndsIn(calls, c) ==
    call' = [calls EXCEPT ![c] = IF @.op \in {"boot", "zombies"}
                                 THEN [@ EXCEPT !.pc = "next", !.ticket = None, !.id = None]
                                 ELSE Idle]
Ends(c) == EndsIn(call, c)

(* A request or a scale action about the ticket is in progress.               *)
Handled(t) == \E c \in Callers \ {"zombies"} : call[c].ticket = t
Requests == {c \in Callers \ {"zombies", "check"} : call[c].pc # "idle"}
Mix(t) == mixed' = IF Handled(t) THEN mixed \cup {t} ELSE mixed

Fault == faults < MaxFaults /\ faults' = faults + 1
NoFault == UNCHANGED faults

(* The engine starts the container, and its reply is lost.                    *)
Strays(c) ==
    LET t == call[c].ticket
    IN  /\ Same(c) /\ In(t, "created")
        /\ box' = [box EXCEPT ![t].state = "running"]
        /\ strays' = strays \cup {t}

-----------------------------------------------------------------------------
(* Every agent role is registered as PENDING, and the auto-start begins.      *)
Init ==
    /\ registry = [t \in Tickets |-> [status |-> "PENDING", id |-> None, quiet |-> FALSE]]
    /\ box = [t \in Tickets |-> None]
    /\ call = [c \in Callers |->
                 IF c = "boot" THEN [Idle EXCEPT !.op = "boot", !.pc = "next", !.todo = Starters]
                 ELSE Idle]
    /\ faults = 0
    /\ mixed = {} /\ strays = {}

-----------------------------------------------------------------------------
(***************************************************************************)
(* The engine and the workers.                                             *)
(***************************************************************************)

(* The container stops: it was told to, or by itself.                         *)
Told(t) == \E c \in Callers : call[c].pc \in {"stopping", "halting"} /\ call[c].ticket = t /\ Same(c)
Exit(t) ==
    /\ In(t, "running") /\ (Crashes \/ Told(t))
    /\ box' = [box EXCEPT ![t].state = "exited"]
    /\ strays' = strays \ {t}
    /\ UNCHANGED <<registry, call, faults, mixed>>

(* AutoRemove.                                                                *)
Reap(t) ==
    /\ In(t, "exited")
    /\ box' = [box EXCEPT ![t] = None]
    /\ registry' = Disowned(t)
    /\ call' = Lost(t)
    /\ UNCHANGED <<faults, mixed, strays>>

(* A quarter of an hour has passed since its creation, longer than a start    *)
(* takes.                                                                     *)
Ages(t) ==
    /\ box[t] # None /\ ~ box[t].old
    /\ \A c \in Callers : call[c].ticket = t => call[c].pc # "launch"
    /\ box' = [box EXCEPT ![t].old = TRUE]
    /\ UNCHANGED <<registry, call, faults, mixed, strays>>

(* onHeartbeat(); and a worker that is not heard of for minutes, which is     *)
(* longer than a request takes.                                               *)
Heartbeat(t) ==
    /\ In(t, "running") /\ registry[t] # None /\ registry[t].quiet
    /\ registry' = [registry EXCEPT ![t].quiet = FALSE]
    /\ UNCHANGED <<box, call, faults, mixed, strays>>

FallsQuiet(t) ==
    /\ Has(t, "RUNNING") /\ ~ registry[t].quiet /\ ~ Handled(t)
    /\ registry' = [registry EXCEPT ![t].quiet = TRUE]
    /\ UNCHANGED <<box, call, faults, mixed, strays>>

-----------------------------------------------------------------------------
(***************************************************************************)
(* The requests.                                                           *)
(***************************************************************************)
Begin(c, op, pc, t) ==
    /\ call[c].pc = "idle" /\ Cardinality(Requests) < MaxRequests
    /\ call' = [call EXCEPT ![c] = [Idle EXCEPT !.op = op, !.pc = pc, !.ticket = t]]
    /\ Mix(t)
    /\ UNCHANGED <<box, faults, strays>>

Stop(c, t)   == Begin(c, "stop", "stop", t) /\ UNCHANGED registry
Delete(c, t) == Begin(c, "delete", "look", t) /\ UNCHANGED registry
Start(c, t)   == registry[t] # None /\ Begin(c, "start", "find", t) /\ UNCHANGED registry
Recover(c, t) == registry[t] # None /\ Begin(c, "recover", "stop", t) /\ UNCHANGED registry
Unblock(c, t) == registry[t] # None /\ Begin(c, "unblock", "stop", t) /\ SetStatus(t, "PENDING")

Admin(c, t) == Stop(c, t) \/ Delete(c, t) \/ Start(c, t) \/ Recover(c, t) \/ Unblock(c, t)

(* checkResources() and onScaleNeeded: the first role without an entry, or a  *)
(* quiet worker while more than the minimum run.                              *)
ScaleUp(t) ==
    /\ Cardinality(Up) < MaxWorkers
    /\ IsFirst(t, Starters \ Registered)
    /\ Begin("scale", "up", "room", t) /\ UNCHANGED registry

ScaleDown(t) ==
    /\ Cardinality(Up) > MinWorkers /\ Cardinality(Running) > MinWorkers
    /\ t \in Running /\ registry[t].quiet
    /\ Begin("scale", "down", "stop", t) /\ UNCHANGED registry

-----------------------------------------------------------------------------
(***************************************************************************)
(* stopWorker(): it looks for running containers only.                     *)
(***************************************************************************)
Stopped(c) ==
    LET t == call[c].ticket
    IN  \/ call[c].op \in {"stop", "down"} /\ SetStatus(t, "STOPPED") /\ Ends(c)
        \/ call[c].op = "unblock" /\ Goto(c, "find") /\ UNCHANGED registry
        \/ call[c].op = "recover" /\ Goto(c, "room") /\ UNCHANGED registry

StopFinds(c) ==
    /\ call[c].pc = "stop" /\ In(call[c].ticket, "running")
    /\ About(c, "stopping")
    /\ UNCHANGED <<registry, box, faults, mixed, strays>>

StopReturns(c) ==
    /\ \/ call[c].pc = "stop" /\ ~ In(call[c].ticket, "running")
       \/ call[c].pc = "stopping" /\ ~ Still(c)
    /\ Stopped(c)
    /\ UNCHANGED <<box, faults, mixed, strays>>

(* It throws: a fault, or the container was gone before the call reached it.  *)
(* Only the recovery ignores that.  (Variant: so do all of them.)             *)
StopIgnored(c) == Stopped(c)
StopThrows(c) ==
    /\ \/ call[c].op = "recover" /\ Goto(c, "room")
       \/ call[c].op # "recover" /\ Ends(c)
    /\ UNCHANGED registry

StopFails(c) ==
    /\ \/ call[c].pc \in {"stop", "stopping"} /\ Fault
       \/ call[c].pc = "stopping" /\ ~ Same(c) /\ NoFault
    /\ StopThrows(c)
    /\ UNCHANGED <<box, mixed, strays>>

-----------------------------------------------------------------------------
(***************************************************************************)
(* startWorker(): start the container there is, or spawn a new one from    *)
(* the role of the entry.                                                  *)
(***************************************************************************)
Find(c) ==
    LET t == call[c].ticket
    IN  /\ call[c].pc = "find"
        /\ \/ box[t] = None /\ registry[t] = None /\ Ends(c) /\ UNCHANGED <<registry, strays>>
           \/ box[t] = None /\ registry[t] # None /\ Goto(c, "room") /\ UNCHANGED <<registry, strays>>
           \/ In(t, "running") /\ SetStatus(t, "RUNNING") /\ Ends(c) /\ strays' = strays \ {t}
           \/ Down(t) /\ About(c, "restart") /\ UNCHANGED <<registry, strays>>
        /\ UNCHANGED <<box, faults, mixed>>

(* A container that is being removed may accept the start, to no avail.       *)
Restart(c) ==
    LET t == call[c].ticket
    IN  /\ call[c].pc = "restart" /\ Same(c)
        /\ box' = IF In(t, "created") THEN [box EXCEPT ![t].state = "running"] ELSE box
        /\ SetStatus(t, "RUNNING")
        /\ Ends(c)
        /\ UNCHANGED <<faults, mixed, strays>>

(* The start throws.  When only its reply is lost the container runs.         *)
StartFails(c) ==
    /\ \/ call[c].pc \in {"find", "restart"} /\ Fault /\ UNCHANGED <<box, strays>>
       \/ call[c].pc = "restart" /\ Fault /\ Strays(c)
       \/ /\ call[c].pc = "restart" /\ (~ Same(c) \/ In(call[c].ticket, "exited"))
          /\ NoFault /\ UNCHANGED <<box, strays>>
    /\ Ends(c)
    /\ UNCHANGED <<registry, mixed>>

-----------------------------------------------------------------------------
(***************************************************************************)
(* spawnWorker(): count the workers, create the container under its name,  *)
(* start it.                                                               *)
(***************************************************************************)
(* (Variant: a status the registry's type does not have.)                     *)
SpawnThrowsOther(c) ==
    IF call[c].op = "boot" THEN SetStatus(call[c].ticket, "FAILED") ELSE UNCHANGED registry
SpawnThrows(c) ==
    IF call[c].op = "boot" THEN SetStatus(call[c].ticket, "TERMINATING") ELSE UNCHANGED registry
SpawnFails(c) == SpawnThrows(c) /\ Ends(c)

Room(c) ==
    /\ call[c].pc = "room"
    /\ \/ Cardinality(Up) < MaxWorkers /\ Goto(c, "create") /\ UNCHANGED registry /\ NoFault
       \/ Cardinality(Up) >= MaxWorkers /\ SpawnFails(c) /\ NoFault
       \/ Fault /\ SpawnFails(c)
    /\ UNCHANGED <<box, mixed, strays>>

Created(t) == box' = [box EXCEPT ![t] = [state |-> "created", old |-> FALSE]]

Create(c) ==
    LET t == call[c].ticket
    IN  /\ call[c].pc = "create" /\ box[t] = None
        /\ Created(t)
        /\ About(c, "launch")
        /\ UNCHANGED <<registry, faults, mixed, strays>>

CreateFails(c) ==
    LET t == call[c].ticket
    IN  /\ call[c].pc = "create"
        /\ \/ box[t] # None /\ NoFault /\ UNCHANGED box
           \/ Fault /\ UNCHANGED box
           \/ Fault /\ box[t] = None /\ Created(t)
        /\ SpawnFails(c)
        /\ UNCHANGED <<mixed, strays>>

(* What the caller does with the id of the container.  /start and /unblock    *)
(* have startWorker() drop it.                                                *)
Spawned(c) ==
    LET t == call[c].ticket
    IN  \/ call[c].op \in {"start", "unblock"} /\ SetStatus(t, "RUNNING")
        \/ call[c].op \in {"recover", "boot"} /\ SetRunning(t)
        \/ call[c].op = "up" /\ registry' = [registry EXCEPT ![t] =
                [status |-> "RUNNING", id |-> "live", quiet |-> FALSE]]

Launch(c) ==
    LET t == call[c].ticket
    IN  /\ call[c].pc = "launch" /\ Same(c) /\ In(t, "created")
        /\ box' = [box EXCEPT ![t].state = "running"]
        /\ Spawned(c) /\ Ends(c)
        /\ UNCHANGED <<faults, mixed, strays>>

(* The start is lost on the way, or only its reply; or the engine cannot      *)
(* start the container and removes it; or the container is gone, or another   *)
(* call has started it.                                                       *)
LaunchFails(c) ==
    LET t == call[c].ticket
    IN  /\ call[c].pc = "launch"
        /\ \/ Fault /\ UNCHANGED <<box, strays>> /\ Ends(c)
           \/ Fault /\ Strays(c) /\ Ends(c)
           \/ /\ Fault /\ Same(c) /\ In(t, "created") /\ UNCHANGED strays
              /\ box' = [box EXCEPT ![t] = None] /\ EndsIn(Lost(t), c)
           \/ ~ (Same(c) /\ In(t, "created")) /\ NoFault /\ UNCHANGED <<box, strays>> /\ Ends(c)
        /\ SpawnThrows(c)
        /\ UNCHANGED mixed

-----------------------------------------------------------------------------
(***************************************************************************)
(* deleteWorker(): stop the container, ignoring failures, then remove it.  *)
(***************************************************************************)
Forgotten(c, entries) ==
    registry' = IF call[c].op = "delete" THEN [entries EXCEPT ![call[c].ticket] = None] ELSE entries

Look(c) ==
    LET t == call[c].ticket
    IN  /\ call[c].pc = "look"
        /\ \/ box[t] = None /\ Forgotten(c, registry) /\ Ends(c)
           \/ In(t, "running") /\ About(c, "halting") /\ UNCHANGED registry
           \/ Down(t) /\ About(c, "remove") /\ UNCHANGED registry
        /\ UNCHANGED <<box, faults, mixed, strays>>

Halted(c) ==
    /\ call[c].pc = "halting"
    /\ \/ ~ Still(c) /\ NoFault
       \/ Fault
    /\ call' = [call EXCEPT ![c].pc = "remove"]
    /\ UNCHANGED <<registry, box, mixed, strays>>

Removed(c) ==
    LET t == call[c].ticket
    IN  /\ Same(c)
        /\ box' = [box EXCEPT ![t] = None] /\ strays' = strays \ {t}
        /\ EndsIn(Lost(t), c)

Remove(c) ==
    /\ call[c].pc = "remove"
    /\ \/ Removed(c) /\ Forgotten(c, Disowned(call[c].ticket))
       \/ ~ Same(c) /\ Forgotten(c, registry) /\ Ends(c) /\ UNCHANGED <<box, strays>>
    /\ UNCHANGED <<faults, mixed>>

(* Removing what the engine is already removing is an error.  The entry stays *)
(* when it throws, also when the container has been removed.                  *)
DeleteFails(c) ==
    /\ \/ /\ \/ call[c].pc \in {"look", "remove"} /\ Fault
             \/ call[c].pc = "remove" /\ Same(c) /\ In(call[c].ticket, "exited") /\ NoFault
          /\ Ends(c) /\ UNCHANGED <<registry, box, strays>>
       \/ call[c].pc = "remove" /\ Fault /\ Removed(c) /\ registry' = Disowned(call[c].ticket)
    /\ UNCHANGED mixed

-----------------------------------------------------------------------------
(***************************************************************************)
(* The loops, and the reconciliation.                                      *)
(***************************************************************************)

(* killZombies() lists all containers, then deletes by ticket.                *)
(* (Variant: it lists the running ones only.)                                 *)
ZombiesUp == {t \in Up : box[t].old}
Zombies == {t \in Boxed : box[t].old}

ZombiesStart ==
    /\ call["zombies"].pc = "idle" /\ Zombies # {}
    /\ call' = [call EXCEPT !["zombies"] = [Idle EXCEPT !.op = "zombies", !.pc = "next", !.todo = Zombies]]
    /\ UNCHANGED <<registry, box, faults, mixed, strays>>

ZombiesNext(t) ==
    /\ call["zombies"].pc = "next" /\ t \in call["zombies"].todo
    /\ call' = [call EXCEPT !["zombies"].pc = "look", !["zombies"].ticket = t, !["zombies"].todo = @ \ {t}]
    /\ UNCHANGED <<registry, box, faults, mixed, strays>>

(* The auto-start takes the roles that are PENDING or have no entry.          *)
BootNext(t) ==
    /\ call["boot"].pc = "next" /\ IsFirst(t, call["boot"].todo)
    /\ \/ /\ registry[t] = None \/ Has(t, "PENDING")
          /\ registry' = [registry EXCEPT ![t] =
                            IF @ = None THEN [status |-> "BOOTING", id |-> None, quiet |-> FALSE]
                            ELSE [@ EXCEPT !.status = "BOOTING"]]
          /\ call' = [call EXCEPT !["boot"].pc = "room", !["boot"].ticket = t, !["boot"].todo = @ \ {t}]
          /\ Mix(t)
       \/ /\ registry[t] # None /\ ~ Has(t, "PENDING")
          /\ call' = [call EXCEPT !["boot"].todo = @ \ {t}]
          /\ UNCHANGED <<registry, mixed, strays>>
    /\ UNCHANGED <<box, faults, strays>>

LoopEnds(c) ==
    /\ call[c].pc = "next" /\ call[c].todo = {}
    /\ call' = [call EXCEPT ![c] = Idle]
    /\ UNCHANGED <<registry, box, faults, mixed, strays>>

(* The end of checkAll(): the ids are listed, and compared later on.          *)
CheckLists ==
    /\ call["check"].pc = "idle"
    /\ call' = [call EXCEPT !["check"] = [Idle EXCEPT !.op = "check", !.pc = "reconcile",
                                                      !.listed = Boxed]]
    /\ UNCHANGED <<registry, box, faults, mixed, strays>>

(* (Variant: entries that are not RUNNING are compared, too.)                 *)
Unlisted(t) ==
    \/ registry[t].id = "dead"
    \/ registry[t].id = "live" /\ t \notin call["check"].listed
PhantomAny(t) == registry[t] # None /\ Unlisted(t)
Phantom(t) == Has(t, "RUNNING") /\ Unlisted(t)

Reconcile ==
    /\ call["check"].pc = "reconcile"
    /\ registry' = [t \in Tickets |-> IF Phantom(t) THEN None ELSE registry[t]]
    /\ call' = [call EXCEPT !["check"] = Idle]
    /\ UNCHANGED <<box, faults, mixed, strays>>

-----------------------------------------------------------------------------
(* What a call does next: with luck, or not.                                  *)
Proceeds(c) ==
    \/ StopFinds(c) \/ StopReturns(c)
    \/ Find(c) \/ Restart(c)
    \/ Room(c) \/ Create(c) \/ Launch(c)
    \/ Look(c) \/ Halted(c) \/ Remove(c)
    \/ LoopEnds(c)
Fails(c) == StopFails(c) \/ StartFails(c) \/ CreateFails(c) \/ LaunchFails(c) \/ DeleteFails(c)
Steps(c) == Proceeds(c) \/ Fails(c)

Zombie == ZombiesStart \/ \E t \in Tickets : ZombiesNext(t)
Check  == CheckLists \/ Reconcile

Next ==
    \/ \E t \in Tickets : Exit(t) \/ Reap(t) \/ Ages(t) \/ Heartbeat(t) \/ FallsQuiet(t)
    \/ \E c \in Admins, t \in Tickets : Admin(c, t)
    \/ \E t \in Tickets : ScaleUp(t) \/ ScaleDown(t) \/ BootNext(t)
    \/ Zombie \/ Check
    \/ \E c \in Callers : Steps(c)

Spec == Init /\ [][Next]_vars

(* The timer of the zombies fires for ever, awaits settle, time passes.       *)
Fairness ==
    /\ WF_vars(Zombie)
    /\ \A c \in Callers : WF_vars(Steps(c))
    /\ \A t \in Tickets : WF_vars(Ages(t))

FairSpec == Spec /\ Fairness

-----------------------------------------------------------------------------
(* Every variable has its type, and what strays is running.                   *)
TypeOK ==
    /\ registry \in [Tickets -> Entry \cup {None}]
    /\ box \in [Tickets -> Box \cup {None}]
    /\ call \in [Callers -> Call]
    /\ \A c \in Callers : call[c].pc \notin {"idle", "next", "reconcile"} => call[c].ticket # None
    /\ faults \in 0 .. MaxFaults
    /\ mixed \subseteq Tickets /\ strays \subseteq Up

(* registry.ts: a STOPPED worker "must NOT be pruned as a phantom".  Whatever *)
(* containers and lists the timers see, its entry stays until a request is    *)
(* made about it.                                                             *)
StoppedKept ==
    [][\A t \in Tickets :
         Has(t, "STOPPED") /\ ~ Has(t, "STOPPED")' => Handled(t) \/ Handled(t)']_vars

(* With requests about a worker made one at a time, nothing runs that the     *)
(* registry shows as stopped, once they have ended; with one exception, a     *)
(* container whose start took effect and threw, for which the request has     *)
(* answered 500: until it stops or another request finds it.                  *)
StoppedIsDown ==
    \A t \in Tickets \ (mixed \cup strays) : Has(t, "STOPPED") /\ ~ Handled(t) => ~ In(t, "running")

(* A container that was created and never started does not keep its name for  *)
(* ever: the role could not be spawned again.                                 *)
NameFreed == \A t \in Tickets : In(t, "created") ~> ~ In(t, "created")

-----------------------------------------------------------------------------
(***************************************************************************)
(* What the documents and comments say and the code does not keep.         *)
(***************************************************************************)

(* worker-health.md of killZombies(): "ONLY deletes containers with no        *)
(* heartbeat > 15 min".  A registered worker that beats is not stopped by it. *)
ZombiesAreSilent ==
    [][\A t \in Tickets :
         /\ call["zombies"].pc = "look" /\ call["zombies"].ticket = t
         /\ call'["zombies"].pc = "halting"
         => registry[t] = None \/ registry[t].quiet]_vars

(* registry.ts: "Only RUNNING workers whose container has disappeared are     *)
(* reconciled (they died unexpectedly)".  A worker whose container runs and   *)
(* has been listed keeps its entry, when no request is about it.              *)
ListedAreKept ==
    [][Reconcile => \A t \in call["check"].listed \cap Up :
                        registry'[t] = None => registry[t] = None \/ Handled(t)]_vars

(* registry.ts: "a STOPPED worker has NO container by design".  Not so when   *)
(* the engine has started it and its reply was lost.                          *)
StrayShown == \A t \in strays \ mixed : Has(t, "STOPPED") => Handled(t)

(* worker-health.md, scale down: "Worker remains in registry as STOPPED", to  *)
(* be started later.  Nothing but a request takes its entry meanwhile.        *)
VictimKept ==
    call["scale"].op = "down" =>
        LET t == call["scale"].ticket
        IN  registry[t] # None \/ t \in mixed
=============================================================================
