---------------------------- MODULE Supervision ----------------------------
(***************************************************************************)
(* How the orchestrator keeps its workers alive: checkAll() and            *)
(* _handleDead() of orchestrator/src/core/health-monitor.ts, with the      *)
(* registry, the heartbeats and the containers they look at.               *)
(*                                                                         *)
(* A timer starts checkAll() every minute and does not wait for it, so     *)
(* several checks overlap whenever one of them is recovering a worker,     *)
(* which takes two minutes for the Doctor alone.  A check walks over the   *)
(* array it took from the registry at its start: the array holds the live  *)
(* entry objects, and keeps those the registry has dropped since.          *)
(*                                                                         *)
(*     check -> kill -> doctor -> diagnose -> respawn -> check             *)
(*           -> flapping -> check                                          *)
(*           -> list -> reconcile                                          *)
(*                                                                         *)
(* spawnWorker() is one step here: module Dispatch has its awaits.  Left   *)
(* out: the progress alert, the queue state of a PM, Matrix and alert      *)
(* messages (their awaits are part of the step they end), and the expiry   *)
(* of deaths: a behaviour is one flapping window of 60 minutes.            *)
(***************************************************************************)
EXTENDS Integers, Sequences, FiniteSets

CONSTANTS
    Tickets,            \* the tickets Plane submits
    Doctor,             \* stands for the ticket of any Doctor container
    Ids,                \* container ids (bound: those in use at one time)
    Slots,              \* bound: checks in progress at once
    MaxWorkers,         \* config.docker.maxWorkers
    HeartbeatInterval,  \* in minutes
    FlappingThreshold,  \* deaths in the window that disable the respawn
    DoctorTime,         \* minutes the Doctor is given
    Failures,           \* what may go wrong: "docker", "crash", "silence", "slow"
    None                \* null

ASSUME IdsAssumption == Ids \subseteq Nat /\ IsFiniteSet(Ids)
ASSUME DoctorAssumption == Doctor \notin Tickets
ASSUME NoneAssumption == None \notin Tickets /\ None \notin Ids
ASSUME SlotsAssumption == IsFiniteSet(Slots)
ASSUME NumbersAssumption ==
    /\ MaxWorkers \in Nat \ {0} /\ HeartbeatInterval \in Nat \ {0}
    /\ FlappingThreshold \in Nat \ {0} /\ DoctorTime \in Nat

VARIABLES
    registry,   \* the entry of each ticket, or None
    order,      \* the tickets of the registry in insertion order (it is a Map)
    box,        \* the container with each id, or None
    misses,     \* HealthMonitor.consecutiveMisses, capped at 3
    deaths,     \* the length of HealthMonitor.deathTimestamps, capped
    due,        \* the one-minute timer has fired
    call,       \* the checks in progress
    submitted,  \* history: the tickets that have been submitted
    done,       \* history: the tickets reported completed
    respawned,  \* history: how often checks have respawned each ticket
    strays      \* history: the Doctors left up by a stop or a start that failed

vars == <<registry, order, box, misses, deaths, due, call, submitted, done, respawned, strays>>

-----------------------------------------------------------------------------
DeadThreshold == 3 * HeartbeatInterval
Age   == 0 .. DeadThreshold + 1         \* minutes since a heartbeat, capped
Roles == {"own", "default"}             \* the ticket's role, or the fallback

Entry == [status : {"BOOTING", "RUNNING"}, id : Ids \cup {None}, role : Roles, age : Age]
Box   == [ticket : Tickets \cup {Doctor}, role : Roles]

(* What a check computes from lastHeartbeat and the time it started at.       *)
Looks == {"gone", "healthy", "late", "dead"}
Look(age) == IF age > DeadThreshold THEN "dead"
             ELSE IF age > HeartbeatInterval THEN "late" ELSE "healthy"

(* A check: the tickets it has yet to visit, how each looks, which of the     *)
(* entries it holds are still those of the registry, and the worker it is     *)
(* recovering.                                                                *)
PC   == {"idle", "check", "flapping", "kill", "doctor", "diagnose", "respawn", "list", "reconcile"}
Call == [pc : PC, todo : Seq(Tickets), look : [Tickets -> Looks], live : SUBSET Tickets,
         ticket : Tickets \cup {None}, role : Roles,
         doctor : Ids \cup {None}, wait : 0 .. DoctorTime, listed : SUBSET Ids]

Idle == [pc |-> "idle", todo |-> << >>, look |-> [t \in Tickets |-> "gone"], live |-> {},
         ticket |-> None, role |-> "own", doctor |-> None, wait |-> 0, listed |-> {}]

Up == {i \in Ids : box[i] # None}
Of(t) == {i \in Up : box[i].ticket = t}
Registered == {t \in Tickets : registry[t] # None}

(* The ids of the containers that are up or somebody still remembers.         *)
InUse == Up \cup {registry[t].id : t \in Registered}
            \cup UNION {call[s].listed \cup {call[s].doctor} : s \in Slots}
NewId == CHOOSE i \in Ids \ InUse : \A j \in Ids \ InUse : i <= j

(* spawnWorker(): there is room, and the name (role and ticket) is free.      *)
CanSpawn(t, role) ==
    /\ Cardinality(Up) < MaxWorkers
    /\ t # Doctor => \A i \in Of(t) : box[i].role # role

Spawn(t, role) ==
    /\ Ids \ InUse # {}
    /\ box' = [box EXCEPT ![NewId] = [ticket |-> t, role |-> role]]

(* spawnWorker() throws: there is no room, the name is taken, or the engine   *)
(* fails.  The engine may have started the container all the same: start()    *)
(* throws too when only its answer is lost, and nothing is undone.            *)
NotSpawned(t, role) == (~ CanSpawn(t, role) \/ "docker" \in Failures) /\ UNCHANGED box
LostSpawn(t, role) == "docker" \in Failures /\ CanSpawn(t, role) /\ Spawn(t, role)

Gone(ids) == box' = [i \in Ids |-> IF i \in ids THEN None ELSE box[i]]

(* registry.register() and remove(): checks in progress keep the old object   *)
(* of t, which no longer changes.  They skip it unless it was RUNNING.        *)
Detach(c, t) ==
    IF t \in c.live
    THEN [c EXCEPT !.live = @ \ {t},
                   !.look[t] = IF registry[t].status = "RUNNING" THEN @ ELSE "gone"]
    ELSE c

Forget(ts) == [t \in Tickets |-> IF t \in ts THEN None ELSE registry[t]]

Enter(seq, t) == IF \E i \in 1 .. Len(seq) : seq[i] = t THEN seq ELSE Append(seq, t)
Leave(seq, t) ==
    IF \E i \in 1 .. Len(seq) : seq[i] = t
    THEN LET k == CHOOSE i \in 1 .. Len(seq) : seq[i] = t
         IN  [i \in 1 .. Len(seq) - 1 |-> IF i < k THEN seq[i] ELSE seq[i + 1]]
    ELSE seq

(* What is left of a sequence, in its order, when the tickets of ts have gone. *)
Without(seq, ts) ==
    LET kept == {i \in 1 .. Len(seq) : seq[i] \notin ts}
    IN  {[i \in DOMAIN at |-> seq[at[i]]] :
           at \in {f \in [1 .. Cardinality(kept) -> kept] : \A i, j \in DOMAIN f : i < j => f[i] < f[j]}}

-----------------------------------------------------------------------------
Init ==
    /\ registry = [t \in Tickets |-> None]
    /\ order = << >>
    /\ box = [i \in Ids |-> None]
    /\ misses = [t \in Tickets |-> 0]
    /\ deaths = [t \in Tickets |-> 0]
    /\ due = FALSE
    /\ call = [s \in Slots |-> Idle]
    /\ submitted = {} /\ done = {}
    /\ respawned = [t \in Tickets |-> 0] /\ strays = {}

-----------------------------------------------------------------------------
(***************************************************************************)
(* The world around the monitor: a route of webhooks.ts starts a worker    *)
(* (registered before, RUNNING afterwards), workers beat, complete their   *)
(* ticket, and lose their container; a minute passes.                      *)
(***************************************************************************)
Plane(t) ==
    /\ t \notin submitted
    /\ submitted' = submitted \cup {t}
    /\ registry' = [registry EXCEPT ![t] = [status |-> "BOOTING", id |-> None, role |-> "own", age |-> 0]]
    /\ order' = Enter(order, t)
    /\ UNCHANGED <<box, misses, deaths, due, call, done, respawned, strays>>

Booting(t) == registry[t] # None /\ registry[t].status = "BOOTING"

PlaneStarts(t) ==
    /\ Booting(t) /\ CanSpawn(t, "own")
    /\ Spawn(t, "own")
    /\ registry' = [registry EXCEPT ![t].id = NewId, ![t].status = "RUNNING"]
    /\ UNCHANGED <<order, misses, deaths, due, call, submitted, done, respawned, strays>>

PlaneFails(t) ==
    /\ Booting(t)
    /\ NotSpawned(t, "own") \/ LostSpawn(t, "own")
    /\ registry' = Forget({t})
    /\ order' = Leave(order, t)
    /\ call' = [s \in Slots |-> Detach(call[s], t)]
    /\ UNCHANGED <<misses, deaths, due, submitted, done, respawned, strays>>

(* POST /health/heartbeat and onHeartbeat().                                  *)
Heartbeat(t) ==
    /\ Of(t) # {}
    /\ misses' = [misses EXCEPT ![t] = 0]
    /\ registry' = IF registry[t] = None THEN registry ELSE [registry EXCEPT ![t].age = 0]
    /\ call' = [s \in Slots |-> IF t \in call[s].live THEN [call[s] EXCEPT !.look[t] = "healthy"]
                                                      ELSE call[s]]
    /\ UNCHANGED <<order, box, deaths, due, submitted, done, respawned, strays>>

(* POST /completed drops the entry; the container exits or stays up.          *)
Completes(i) ==
    LET t == box[i].ticket
    IN  /\ i \in Up /\ t \in Tickets \ done
        /\ done' = done \cup {t}
        /\ registry' = Forget({t})
        /\ order' = Leave(order, t)
        /\ call' = [s \in Slots |-> Detach(call[s], t)]
        /\ Gone({i}) \/ UNCHANGED box
        /\ UNCHANGED <<misses, deaths, due, submitted, respawned, strays>>

(* A worker is killed by the kernel, by killZombies(), or exits after its     *)
(* ticket is done; AutoRemove takes its container away.                       *)
Exits(i) ==
    /\ i \in Up
    /\ "crash" \in Failures \/ box[i].ticket \in done
    /\ Gone({i})
    /\ strays' = strays \ {i}
    /\ UNCHANGED <<registry, order, misses, deaths, due, call, submitted, done, respawned>>

(* A minute passes.  Unless "silence" may happen a worker that is up has      *)
(* beaten in time, and unless the engine may be "slow" its calls take less    *)
(* than a minute.  A check that is due while Slots of them are in progress is *)
(* skipped.                                                                   *)
Older(age) == IF age <= DeadThreshold THEN age + 1 ELSE age

Tick ==
    /\ ~ due \/ \A s \in Slots : call[s].pc # "idle"
    /\ "slow" \in Failures \/ \A s \in Slots : call[s].pc \in {"idle", "diagnose"}
    /\ "silence" \in Failures
         \/ \A t \in Registered : Of(t) # {} => registry[t].age < HeartbeatInterval
    /\ due' = TRUE
    /\ registry' = [t \in Tickets |-> IF registry[t] = None THEN None
                                      ELSE [registry[t] EXCEPT !.age = Older(@)]]
    /\ call' = [s \in Slots |-> [call[s] EXCEPT !.wait = IF @ > 0 THEN @ - 1 ELSE 0]]
    /\ UNCHANGED <<order, box, misses, deaths, submitted, done, respawned, strays>>

-----------------------------------------------------------------------------
(***************************************************************************)
(* checkAll().  The loop runs without an await up to the first worker that *)
(* looks dead for at least the third time: Seen are the tickets it counts. *)
(***************************************************************************)
Watched(c, t) == c.look[t] # "gone" /\ (t \in c.live => registry[t].status = "RUNNING")

CountsTo(t) == IF misses[t] < 3 THEN misses[t] + 1 ELSE 3

Stops(c, k) ==
    /\ k <= Len(c.todo)
    /\ Watched(c, c.todo[k])
    /\ c.look[c.todo[k]] = "dead" /\ CountsTo(c.todo[k]) = 3

(* The position the loop stops at: the first to recover, or past the end.     *)
StopAt(c) == CHOOSE k \in 1 .. Len(c.todo) + 1 :
                /\ \A j \in 1 .. k - 1 : ~ Stops(c, j)
                /\ k = Len(c.todo) + 1 \/ Stops(c, k)

(* (Variant: the misses are set to one, not increased by one.)                *)
CountedOnce(c, t) == IF c.look[t] = "healthy" THEN 0 ELSE 1
Counted(c, t) == IF c.look[t] = "healthy" THEN 0 ELSE CountsTo(t)

(* _handleDead() up to its first await: the role is that of the entry there   *)
(* is now, one more death is recorded, and too many end the recovery.         *)
(* (Variants: no fallback for the role; one recovery more.)                   *)
RoleMissing(t) == IF registry[t] = None THEN None ELSE registry[t].role
RoleOf(t) == IF registry[t] = None THEN "default" ELSE registry[t].role
FlapsLate(t) == deaths[t] >= FlappingThreshold
Flaps(t) == deaths[t] + 1 >= FlappingThreshold

Visit(s, c) ==
    LET k == StopAt(c)
        seen == {c.todo[j] : j \in {j \in 1 .. Len(c.todo) : j <= k}}
    IN  /\ misses' = [t \in Tickets |-> IF t \in seen /\ Watched(c, t) THEN Counted(c, t) ELSE misses[t]]
        /\ \/ /\ k = Len(c.todo) + 1
              /\ call' = [call EXCEPT ![s] = [Idle EXCEPT !.pc = "list"]]
              /\ UNCHANGED deaths
           \/ /\ k <= Len(c.todo)
              /\ LET t == c.todo[k]
                 IN  /\ deaths' = [deaths EXCEPT ![t] = IF @ < FlappingThreshold THEN @ + 1 ELSE @]
                     /\ call' = [call EXCEPT ![s] =
                                   [c EXCEPT !.pc = IF Flaps(t) THEN "flapping" ELSE "kill",
                                             !.todo = SubSeq(c.todo, k + 1, Len(c.todo)),
                                             !.look = [u \in Tickets |-> IF u \in seen THEN "gone" ELSE c.look[u]],
                                             !.live = @ \ seen,
                                             !.ticket = t, !.role = RoleOf(t)]]

(* The timer callback: the time and the entries are taken now.                *)
CheckStarts(s) ==
    /\ due /\ call[s].pc = "idle"
    /\ due' = FALSE
    /\ Visit(s, [Idle EXCEPT !.todo = order, !.live = Registered,
                             !.look = [t \in Tickets |-> IF registry[t] = None THEN "gone"
                                                         ELSE Look(registry[t].age)]])
    /\ UNCHANGED <<registry, order, box, submitted, done, respawned, strays>>

(* The loop goes on with the next worker.                                     *)
GoOn(s) == Visit(s, [call[s] EXCEPT !.pc = "check", !.ticket = None, !.role = "own"])

(* _handleDead() has returned from its last await.                            *)
CheckGoesOn(s) ==
    /\ call[s].pc \in {"check", "flapping"}
    /\ GoOn(s)
    /\ UNCHANGED <<registry, order, box, due, submitted, done, respawned, strays>>

-----------------------------------------------------------------------------
(***************************************************************************)
(* _handleDead().  A step that throws ends it, and the check goes on       *)
(* without an await.                                                       *)
(***************************************************************************)
KillDead(s) ==
    LET t == call[s].ticket
    IN  /\ call[s].pc = "kill"
        /\ Gone(Of(t))
        /\ registry' = Forget({t})
        /\ order' = Leave(order, t)
        /\ call' = [[r \in Slots |-> Detach(call[r], t)] EXCEPT ![s].pc = "doctor"]
        /\ UNCHANGED <<misses, deaths, due, submitted, done, respawned, strays>>

(* killWorker() throws, with the container stopped or not.                    *)
KillFails(s) ==
    /\ "docker" \in Failures /\ call[s].pc = "kill"
    /\ Gone(Of(call[s].ticket)) \/ UNCHANGED box
    /\ GoOn(s)
    /\ UNCHANGED <<registry, order, due, submitted, done, respawned, strays>>

(* The Doctor is a worker container like any other: it takes a place, and     *)
(* when there is none the recovery goes on without it.                        *)
DoctorStarts(s) ==
    /\ call[s].pc = "doctor" /\ CanSpawn(Doctor, "own")
    /\ Spawn(Doctor, "own")
    /\ call' = [call EXCEPT ![s].pc = "diagnose", ![s].doctor = NewId, ![s].wait = DoctorTime]
    /\ UNCHANGED <<registry, order, misses, deaths, due, submitted, done, respawned, strays>>

(* A Doctor whose start took effect and threw is stopped by nobody: the catch *)
(* of the diagnosis knows no container.                                       *)
DoctorFails(s) ==
    /\ call[s].pc = "doctor"
    /\ \/ NotSpawned(Doctor, "own") /\ UNCHANGED strays
       \/ LostSpawn(Doctor, "own") /\ strays' = strays \cup {NewId}
    /\ call' = [call EXCEPT ![s].pc = "respawn"]
    /\ UNCHANGED <<registry, order, misses, deaths, due, submitted, done, respawned>>

(* The two minutes are over; a failure to stop the Doctor is ignored.         *)
(* (Variant: the Doctor is left to end by itself.)                            *)
LeaveDoctor(s) == UNCHANGED <<box, strays>>
StopDoctor(s) ==
    \/ Gone({call[s].doctor}) /\ UNCHANGED strays
    \/ "docker" \in Failures /\ UNCHANGED box /\ strays' = strays \cup ({call[s].doctor} \cap Up)

DoctorEnds(s) ==
    /\ call[s].pc = "diagnose" /\ call[s].wait = 0
    /\ StopDoctor(s)
    /\ call' = [call EXCEPT ![s].pc = "respawn", ![s].doctor = None]
    /\ UNCHANGED <<registry, order, misses, deaths, due, submitted, done, respawned>>

Respawned(t) == respawned' = [respawned EXCEPT ![t] = IF @ < FlappingThreshold THEN @ + 1 ELSE @]

Respawn(s) ==
    LET t == call[s].ticket
        role == call[s].role
    IN  /\ call[s].pc = "respawn" /\ CanSpawn(t, role)
        /\ Spawn(t, role)
        /\ registry' = [registry EXCEPT ![t] = [status |-> "RUNNING", id |-> NewId, role |-> role, age |-> 0]]
        /\ order' = Enter(order, t)
        /\ call' = [[r \in Slots |-> Detach(call[r], t)]
                      EXCEPT ![s].pc = "check", ![s].ticket = None, ![s].role = "own"]
        /\ Respawned(t)
        /\ UNCHANGED <<misses, deaths, due, submitted, done, strays>>

RespawnFails(s) ==
    /\ call[s].pc = "respawn"
    /\ NotSpawned(call[s].ticket, call[s].role)
    /\ GoOn(s)
    /\ UNCHANGED <<registry, order, due, submitted, done, respawned, strays>>

(* The worker is up, and the registry has no entry of it.                     *)
RespawnLost(s) ==
    /\ call[s].pc = "respawn"
    /\ LostSpawn(call[s].ticket, call[s].role)
    /\ Respawned(call[s].ticket)
    /\ GoOn(s)
    /\ UNCHANGED <<registry, order, due, submitted, done, strays>>

-----------------------------------------------------------------------------
(***************************************************************************)
(* The end of checkAll(): list the containers, then reconcileWithDocker()  *)
(* removes the RUNNING entries whose container is not among them.          *)
(***************************************************************************)
ListBoxes(s) ==
    /\ call[s].pc = "list"
    /\ call' = [call EXCEPT ![s].pc = "reconcile", ![s].listed = Up]
    /\ UNCHANGED <<registry, order, box, misses, deaths, due, submitted, done, respawned, strays>>

ListFails(s) ==
    /\ "docker" \in Failures /\ call[s].pc = "list"
    /\ call' = [call EXCEPT ![s] = Idle]
    /\ UNCHANGED <<registry, order, box, misses, deaths, due, submitted, done, respawned, strays>>

(* (Variant: it is the entries without a container id that are compared.)     *)
PhantomUnnamed(s, t) ==
    /\ registry[t] # None /\ registry[t].status = "RUNNING"
    /\ registry[t].id = None
Phantom(s, t) ==
    /\ registry[t] # None /\ registry[t].status = "RUNNING"
    /\ registry[t].id # None /\ registry[t].id \notin call[s].listed

Reconcile(s) ==
    LET lost == {t \in Tickets : Phantom(s, t)}
    IN  /\ call[s].pc = "reconcile"
        /\ registry' = Forget(lost)
        /\ order' \in Without(order, lost)
        /\ call' = [r \in Slots |->
                      IF r = s THEN Idle ELSE [call[r] EXCEPT !.live = @ \ lost]]
        /\ UNCHANGED <<box, misses, deaths, due, submitted, done, respawned, strays>>

-----------------------------------------------------------------------------
(* What a check does next, and what the routes do.                            *)
Checks(s) ==
    \/ CheckStarts(s) \/ CheckGoesOn(s)
    \/ KillDead(s) \/ KillFails(s)
    \/ DoctorStarts(s) \/ DoctorFails(s) \/ DoctorEnds(s)
    \/ Respawn(s) \/ RespawnFails(s) \/ RespawnLost(s)
    \/ ListBoxes(s) \/ ListFails(s) \/ Reconcile(s)

Starting(t) == PlaneStarts(t) \/ PlaneFails(t)

World ==
    \/ \E t \in Tickets : Plane(t) \/ Starting(t) \/ Heartbeat(t)
    \/ \E i \in Ids : Completes(i) \/ Exits(i)

Next == World \/ Tick \/ \E s \in Slots : Checks(s)

Spec == Init /\ [][Next]_vars

(* The timer fires for ever, and every await of a check settles.              *)
Fairness == WF_vars(Tick) /\ \A s \in Slots : WF_vars(Checks(s))

FairSpec == Spec /\ Fairness

-----------------------------------------------------------------------------
(* Every variable has its type; a check recovering a worker knows which.      *)
TypeOK ==
    /\ registry \in [Tickets -> Entry \cup {None}]
    /\ order \in Seq(Tickets)
    /\ box \in [Ids -> Box \cup {None}]
    /\ misses \in [Tickets -> 0 .. 3]
    /\ deaths \in [Tickets -> 0 .. FlappingThreshold]
    /\ due \in BOOLEAN
    /\ call \in [Slots -> Call]
    /\ \A s \in Slots : call[s].pc \in {"flapping", "kill", "doctor", "diagnose", "respawn"} => call[s].ticket # None
    /\ submitted \subseteq Tickets /\ done \subseteq Tickets
    /\ respawned \in [Tickets -> 0 .. FlappingThreshold]
    /\ strays \subseteq Ids

(* "3+ deaths in 60min = STOP": however checks overlap, a ticket is respawned *)
(* less than FlappingThreshold times in the window, recoveries in progress    *)
(* included.                                                                  *)
Recovering(t) == {s \in Slots : call[s].ticket = t /\ call[s].pc # "flapping"}
RespawnsBounded == \A t \in Tickets : respawned[t] + Cardinality(Recovering(t)) < FlappingThreshold

(* A Doctor does not outlive the recovery that started it: it would take a    *)
(* worker's place under MaxWorkers.  Only a call of the engine that fails     *)
(* leaves one behind: a stop, or a start that took effect and threw.          *)
DoctorOwned == \A i \in Of(Doctor) \ strays : \E s \in Slots : call[s].doctor = i

(* A registered worker that has gone silent is noticed: it beats again, or it *)
(* leaves the registry, or its death is counted up to the threshold.          *)
Silent(t) == registry[t] # None /\ registry[t].status = "RUNNING" /\ registry[t].age > DeadThreshold
SilenceNoticed ==
    \A t \in Tickets : Silent(t) ~> ~ Silent(t) \/ deaths[t] = FlappingThreshold

(* An entry whose container is gone does not stay RUNNING.                    *)
HasPhantom(t) == registry[t] # None /\ registry[t].status = "RUNNING" /\ registry[t].id \notin Up
PhantomsEnd == \A t \in Tickets : HasPhantom(t) ~> ~ HasPhantom(t)

-----------------------------------------------------------------------------
(***************************************************************************)
(* What the documents and comments say and the code does not keep.         *)
(***************************************************************************)

(* README.md: "registry-based deduplication ... no duplicates".               *)
OneBoxPerTicket == \A t \in Tickets : Cardinality(Of(t)) <= 1

(* worker-health.md: "3 missed heartbeats: delete + respawn".  A worker is    *)
(* counted as dead, and deleted, only when it has missed some.                *)
DeathsAreReal ==
    [][\A t \in Tickets :
         deaths'[t] # deaths[t] => registry[t] = None \/ registry[t].age > HeartbeatInterval]_vars

(* worker-communication-protocol.md: "Task done ... normal cleanup".  No new  *)
(* worker is started for a completed ticket.                                  *)
DoneStaysDone ==
    [][\A t \in done : respawned'[t] = respawned[t]]_vars

(* index.ts: the worker died, "HealthMonitor will handle respawn".            *)
Crashed(t) == HasPhantom(t) /\ Of(t) = {}
CrashedRespawns ==
    \A t \in Tickets : Crashed(t) ~> Of(t) # {} \/ deaths[t] = FlappingThreshold

(* README.md: "auto restart dead workers".                                    *)
SilentRespawns ==
    \A t \in Tickets :
        Silent(t) ~> \/ Of(t) # {} /\ ~ Silent(t)
                     \/ t \in done \/ deaths[t] = FlappingThreshold
=============================================================================
