---------------------------- MODULE ControlProofs ----------------------------
(***************************************************************************)
(* Safety of Control for any tickets, auto-start roles, admin requests in  *)
(* progress, limits and faults.                                            *)
(***************************************************************************)
EXTENDS Control, TLAPS

USE TicketsAssumption, AdminsAssumption, NumbersAssumption, AutoStartAssumption

-----------------------------------------------------------------------------
(* The inductive invariant: types, a ticket wherever one is needed, and only  *)
(* deleteWorker() under the timer of the zombies.                             *)
EntriesOK(r) == r \in [Tickets -> Entry \cup {None}]
BoxesOK(b)   == b \in [Tickets -> Box \cup {None}]

ZombiePCs == {"idle", "next", "look", "halting", "remove"}
CallOK(c, r) ==
    /\ r \in Call
    /\ r.pc \notin {"idle", "next", "reconcile"} => r.ticket # None
    /\ c = "zombies" => r.op \in {"none", "zombies"} /\ r.pc \in ZombiePCs
CallsOK(k) ==
    /\ k = [c \in Callers |-> k[c]]
    /\ \A c \in Callers : CallOK(c, k[c])

IInv ==
    /\ EntriesOK(registry) /\ BoxesOK(box) /\ CallsOK(call)
    /\ faults \in 0 .. MaxFaults /\ mixed \subseteq Tickets

StraysRun == strays \subseteq Up

LEMMA InvType == IInv /\ StraysRun => TypeOK
BY DEF IInv, StraysRun, EntriesOK, BoxesOK, CallsOK, CallOK, TypeOK

-----------------------------------------------------------------------------
(* What the steps do to the calls.                                            *)
LEMMA CallType ==
  ASSUME NEW k, CallsOK(k), NEW c \in Callers, NEW r, CallOK(c, r)
  PROVE  CallsOK([k EXCEPT ![c] = r])
BY DEF CallsOK

LEMMA IdleType == \A c : CallOK(c, Idle)
BY DEF CallOK, Idle, Call, Ops, PC, Id, ZombiePCs

LEMMA MoveType ==
  ASSUME CallsOK(call), NEW c \in Callers, call[c].ticket # None,
         NEW pc \in PC, c = "zombies" => pc \in ZombiePCs, NEW id \in Id
  PROVE  CallsOK([call EXCEPT ![c].pc = pc, ![c].id = id])
<1>1. CallOK(c, [call[c] EXCEPT !.pc = pc, !.id = id])
  BY DEF CallsOK, CallOK, Call
<1>2. [call EXCEPT ![c].pc = pc, ![c].id = id] = [call EXCEPT ![c] = [call[c] EXCEPT !.pc = pc, !.id = id]]
  BY DEF CallsOK
<1> QED BY <1>1, <1>2, CallType

LEMMA GotoType ==
  ASSUME CallsOK(call), NEW c \in Callers, call[c].ticket # None,
         NEW pc \in PC, c = "zombies" => pc \in ZombiePCs, Goto(c, pc) \/ About(c, pc)
  PROVE  CallsOK(call')
BY MoveType DEF Goto, About, Id

LEMMA EndsType ==
  ASSUME NEW k, CallsOK(k), NEW c \in Callers, EndsIn(k, c)
  PROVE  CallsOK(call')
<1> DEFINE r == IF k[c].op \in {"boot", "zombies"}
                THEN [k[c] EXCEPT !.pc = "next", !.ticket = None, !.id = None]
                ELSE Idle
<1>1. call' = [k EXCEPT ![c] = r]
  BY DEF EndsIn, CallsOK
<1>2. CallOK(c, r)
  <2>1. CallOK(c, k[c])
    BY DEF CallsOK
  <2>2. CallOK(c, [k[c] EXCEPT !.pc = "next", !.ticket = None, !.id = None])
    BY <2>1 DEF CallOK, Call, PC, Id, ZombiePCs
  <2> QED BY <2>2, IdleType
<1> HIDE DEF r
<1> QED BY <1>1, <1>2, CallType

LEMMA LostType ==
  ASSUME CallsOK(call), NEW t \in Tickets
  PROVE  CallsOK(Lost(t))
<1>1. ASSUME NEW c \in Callers
      PROVE  CallOK(c, Lost(t)[c])
  <2>1. CallOK(c, call[c])
    BY DEF CallsOK
  <2>2. Dead(call[c].id) \in Id /\ call[c].listed \ {t} \in SUBSET Tickets
    BY <2>1 DEF CallOK, Call, Dead, Id
  <2>3. Lost(t)[c] = [call[c] EXCEPT !.id = IF call[c].ticket = t THEN Dead(@) ELSE @,
                                     !.listed = @ \ {t}]
    BY DEF Lost
  <2> HIDE DEF Dead
  <2> QED BY <2>1, <2>2, <2>3 DEF CallOK, Call
<1> QED BY <1>1 DEF CallsOK, Lost

LEMMA BeginType ==
  ASSUME CallsOK(call), NEW c \in Callers \ {"zombies"},
         NEW op \in Ops, NEW pc \in PC, NEW t \in Tickets, Begin(c, op, pc, t)
  PROVE  CallsOK(call')
<1> DEFINE r == [Idle EXCEPT !.op = op, !.pc = pc, !.ticket = t]
<1>1. CallOK(c, r)
  BY DEF Idle, Call, CallOK, Id
<1> HIDE DEF r
<1> QED BY <1>1, CallType DEF Begin, r

(* What they do to the registry and to the containers.                        *)
LEMMA EntryTypes ==
  ASSUME EntriesOK(registry), NEW t \in Tickets
  PROVE  /\ \A s \in Status : SetStatus(t, s) => EntriesOK(registry')
         /\ SetRunning(t) => EntriesOK(registry')
         /\ EntriesOK(Disowned(t))
         /\ \A c \in Callers : Forgotten(c, registry) => EntriesOK(registry')
         /\ \A c \in Callers : Forgotten(c, Disowned(t)) => EntriesOK(registry')
<1>1. EntriesOK(Disowned(t))
  BY DEF EntriesOK, Disowned, Dead, Entry, Id
<1> QED BY <1>1 DEF EntriesOK, SetStatus, SetRunning, Forgotten, Entry, Status, Id

LEMMA BoxTypes ==
  ASSUME BoxesOK(box), NEW t \in Tickets
  PROVE  /\ BoxesOK([box EXCEPT ![t] = None])
         /\ BoxesOK([box EXCEPT ![t] = [state |-> "created", old |-> FALSE]])
         /\ box[t] # None => /\ BoxesOK([box EXCEPT ![t].state = "running"])
                             /\ BoxesOK([box EXCEPT ![t].state = "exited"])
                             /\ BoxesOK([box EXCEPT ![t].old = TRUE])
BY DEF BoxesOK, Box

-----------------------------------------------------------------------------
LEMMA InitInv == Init => IInv
<1> SUFFICES ASSUME Init PROVE IInv
  OBVIOUS
<1>1. Starters \in SUBSET Tickets
  BY DEF Starters
<1>2. CallOK("boot", [Idle EXCEPT !.op = "boot", !.pc = "next", !.todo = Starters])
  BY <1>1 DEF CallOK, Idle, Call, Ops, PC, Id
<1>3. CallsOK(call)
  BY <1>2, IdleType DEF Init, CallsOK
<1>4. EntriesOK(registry) /\ BoxesOK(box)
  BY DEF Init, EntriesOK, BoxesOK, Entry, Status, Id
<1> QED BY <1>3, <1>4 DEF Init, IInv

(* The engine and the workers.                                                *)
LEMMA WorldInv ==
  ASSUME IInv, NEW t \in Tickets,
         Exit(t) \/ Reap(t) \/ Ages(t) \/ Heartbeat(t) \/ FallsQuiet(t)
  PROVE  IInv'
<1>1. CASE Exit(t)
  BY <1>1, BoxTypes DEF IInv, Exit, In
<1>2. CASE Reap(t)
  BY <1>2, BoxTypes, EntryTypes, LostType DEF IInv, Reap
<1>3. CASE Ages(t)
  BY <1>3, BoxTypes DEF IInv, Ages
<1>4. CASE Heartbeat(t)
  <2>1. EntriesOK(registry')
    BY <1>4 DEF IInv, Heartbeat, EntriesOK, Entry
  <2> QED BY <1>4, <2>1 DEF IInv, Heartbeat
<1>5. CASE FallsQuiet(t)
  <2>1. EntriesOK(registry')
    BY <1>5 DEF IInv, FallsQuiet, Has, EntriesOK, Entry
  <2> QED BY <1>5, <2>1 DEF IInv, FallsQuiet
<1> QED BY <1>1, <1>2, <1>3, <1>4, <1>5

(* The requests.                                                              *)
LEMMA RequestInv ==
  ASSUME IInv, NEW t \in Tickets,
         (\E c \in Admins : Admin(c, t)) \/ ScaleUp(t) \/ ScaleDown(t)
  PROVE  IInv'
<1> USE DEF Ops, PC
<1>1. \A c \in Admins : c \in Callers \ {"zombies"}
  BY DEF Callers
<1>2. "scale" \in Callers \ {"zombies"}
  BY DEF Callers, Timers
<1>3. CallsOK(call) /\ mixed \subseteq Tickets
  BY DEF IInv
<1>4. ASSUME NEW c \in Callers \ {"zombies"}, NEW op \in Ops, NEW pc \in PC,
             Begin(c, op, pc, t), EntriesOK(registry')
      PROVE  IInv'
  <2>1. CallsOK(call')
    BY <1>3, <1>4, BeginType
  <2> QED BY <1>3, <1>4, <2>1 DEF IInv, Begin, Mix
<1>5. ASSUME NEW c \in Admins, Admin(c, t)
      PROVE  IInv'
  <2>1. c \in Callers \ {"zombies"}
    BY <1>1
  <2>2. CASE Stop(c, t)
    BY <1>4, <2>1, <2>2 DEF IInv, Stop
  <2>3. CASE Delete(c, t)
    BY <1>4, <2>1, <2>3 DEF IInv, Delete
  <2>4. CASE Start(c, t)
    BY <1>4, <2>1, <2>4 DEF IInv, Start
  <2>5. CASE Recover(c, t)
    BY <1>4, <2>1, <2>5 DEF IInv, Recover
  <2>6. CASE Unblock(c, t)
    <3>1. EntriesOK(registry')
      BY <2>6, EntryTypes DEF IInv, Unblock, Status
    <3> QED BY <1>4, <2>1, <2>6, <3>1 DEF Unblock
  <2> QED BY <1>5, <2>2, <2>3, <2>4, <2>5, <2>6 DEF Admin
<1>6. CASE ScaleUp(t)
  BY <1>2, <1>4, <1>6 DEF IInv, ScaleUp
<1>7. CASE ScaleDown(t)
  BY <1>2, <1>4, <1>7 DEF IInv, ScaleDown
<1> QED BY <1>5, <1>6, <1>7

(* The loops and the reconciliation.                                          *)
LEMMA TimerInv ==
  ASSUME IInv, Zombie \/ Check \/ \E t \in Tickets : BootNext(t)
  PROVE  IInv'
<1> USE DEF IInv
<1>1. {"boot", "check", "zombies"} \subseteq Callers
  BY DEF Callers, Timers
<1>2. CASE ZombiesStart
  <2>1. CallOK("zombies", [Idle EXCEPT !.op = "zombies", !.pc = "next", !.todo = Zombies])
    BY DEF CallOK, Idle, Call, Ops, PC, Id, ZombiePCs, Zombies, Boxed
  <2> QED BY <1>1, <1>2, <2>1, CallType DEF ZombiesStart
<1>3. ASSUME NEW t \in Tickets, ZombiesNext(t)
      PROVE  IInv'
  <2> DEFINE r == [call["zombies"] EXCEPT !.pc = "look", !.ticket = t, !.todo = @ \ {t}]
  <2>1. CallOK("zombies", call["zombies"])
    BY <1>1 DEF CallsOK
  <2>2. CallOK("zombies", r)
    BY <2>1 DEF CallOK, Call, PC, ZombiePCs
  <2>3. call' = [call EXCEPT !["zombies"] = r]
    BY <1>1, <1>3 DEF ZombiesNext, CallsOK
  <2> HIDE DEF r
  <2>4. CallsOK(call')
    BY <1>1, <2>2, <2>3, CallType
  <2>5. UNCHANGED <<registry, box, faults, mixed>>
    BY <1>3 DEF ZombiesNext
  <2> QED BY <2>4, <2>5
<1>4. ASSUME NEW t \in Tickets, BootNext(t)
      PROVE  IInv'
  <2>1. CallOK("boot", call["boot"])
    BY <1>1 DEF CallsOK
  <2>2. CASE registry[t] = None \/ Has(t, "PENDING")
    <3> DEFINE r == [call["boot"] EXCEPT !.pc = "room", !.ticket = t, !.todo = @ \ {t}]
    <3>1. call' = [call EXCEPT !["boot"] = r]
      BY <1>1, <1>4, <2>2 DEF BootNext, CallsOK, Has
    <3>2. CallOK("boot", r)
      BY <2>1 DEF CallOK, Call, PC
    <3> HIDE DEF r
    <3> DEFINE e == IF registry[t] = None THEN [status |-> "BOOTING", id |-> None, quiet |-> FALSE]
                    ELSE [registry[t] EXCEPT !.status = "BOOTING"]
    <3>3. EntriesOK(registry')
      <4>1. registry' = [registry EXCEPT ![t] = e]
        BY <1>4, <2>2 DEF BootNext, Has
      <4>2. registry[t] \in Entry \cup {None}
        BY DEF EntriesOK
      <4>3. e \in Entry
        BY <4>2 DEF Entry, Status, Id
      <4> HIDE DEF e
      <4> QED BY <4>1, <4>3 DEF EntriesOK
    <3>4. UNCHANGED <<box, faults>> /\ mixed' \subseteq Tickets
      BY <1>4, <2>2 DEF BootNext, Mix
    <3> QED BY <1>1, <3>1, <3>2, <3>3, <3>4, CallType
  <2>3. CASE registry[t] # None /\ ~ Has(t, "PENDING")
    <3> DEFINE r == [call["boot"] EXCEPT !.todo = @ \ {t}]
    <3>1. call' = [call EXCEPT !["boot"] = r]
      BY <1>1, <1>4, <2>3 DEF BootNext, CallsOK, Has
    <3>2. CallOK("boot", r)
      BY <2>1 DEF CallOK, Call, PC
    <3> HIDE DEF r
    <3> QED BY <1>1, <1>4, <2>3, <3>1, <3>2, CallType DEF BootNext
  <2> QED BY <2>2, <2>3
<1>5. CASE CheckLists
  <2>1. CallOK("check", [Idle EXCEPT !.op = "check", !.pc = "reconcile", !.listed = Boxed])
    BY DEF CallOK, Idle, Call, Ops, PC, Id, Boxed
  <2> QED BY <1>1, <1>5, <2>1, CallType DEF CheckLists
<1>6. CASE Reconcile
  <2>1. EntriesOK(registry')
    BY <1>6 DEF Reconcile, EntriesOK
  <2> QED BY <1>1, <1>6, <2>1, CallType, IdleType DEF Reconcile
<1> QED BY <1>2, <1>3, <1>4, <1>5, <1>6 DEF Zombie, Check

(* What a call does next.                                                     *)
LEMMA CallerType ==
  ASSUME IInv, NEW c \in Callers
  PROVE  /\ CallOK(c, call[c])
         /\ call[c].pc \notin {"idle", "next", "reconcile"} =>
                call[c].ticket \in Tickets /\ call[c].ticket # None
         /\ Fault \/ NoFault => faults' \in 0 .. MaxFaults
<1>1. CallOK(c, call[c])
  BY DEF IInv, CallsOK
<1>2. call[c].pc \notin {"idle", "next", "reconcile"} => call[c].ticket \in Tickets /\ call[c].ticket # None
  BY <1>1 DEF CallOK, Call
<1>3. Fault \/ NoFault => faults' \in 0 .. MaxFaults
  BY DEF IInv, Fault, NoFault
<1> QED BY <1>1, <1>2, <1>3

LEMMA StopInv ==
  ASSUME IInv, NEW c \in Callers, StopFinds(c) \/ StopReturns(c) \/ StopFails(c)
  PROVE  IInv'
<1>1. /\ call[c].pc \in {"stop", "stopping"} /\ c # "zombies"
      /\ call[c].ticket \in Tickets /\ call[c].ticket # None
  <2>1. call[c].pc \in {"stop", "stopping"}
    BY DEF StopFinds, StopReturns, StopFails
  <2> QED BY <2>1, CallerType DEF CallOK, ZombiePCs
<1>2. CallsOK(call) /\ EntriesOK(registry)
  BY DEF IInv
<1>3. \A pc \in PC : Goto(c, pc) \/ About(c, pc) => CallsOK(call')
  BY <1>1, <1>2, GotoType
<1>4. Ends(c) => CallsOK(call')
  BY <1>2, EndsType DEF Ends
<1>5. Stopped(c) => CallsOK(call') /\ EntriesOK(registry')
  BY <1>1, <1>2, <1>3, <1>4, EntryTypes DEF Stopped, PC, Status
<1>6. StopThrows(c) => CallsOK(call') /\ EntriesOK(registry')
  BY <1>2, <1>3, <1>4 DEF StopThrows, PC
<1>7. CASE StopFinds(c)
  BY <1>3, <1>7 DEF StopFinds, IInv, PC
<1>8. CASE StopReturns(c)
  BY <1>5, <1>8 DEF StopReturns, IInv
<1>9. CASE StopFails(c)
  <2>1. faults' \in 0 .. MaxFaults
    BY <1>9, CallerType DEF StopFails
  <2> QED BY <1>6, <1>9, <2>1 DEF StopFails, IInv
<1> QED BY <1>7, <1>8, <1>9

LEMMA StartInv ==
  ASSUME IInv, NEW c \in Callers, Find(c) \/ Restart(c) \/ StartFails(c)
  PROVE  IInv'
<1>1. /\ call[c].pc \in {"find", "restart"} /\ c # "zombies"
      /\ call[c].ticket \in Tickets /\ call[c].ticket # None
  <2>1. call[c].pc \in {"find", "restart"}
    BY DEF Find, Restart, StartFails
  <2> QED BY <2>1, CallerType DEF CallOK, ZombiePCs
<1>2. CallsOK(call) /\ EntriesOK(registry) /\ BoxesOK(box)
  BY DEF IInv
<1>3. \A pc \in PC : Goto(c, pc) \/ About(c, pc) => CallsOK(call')
  BY <1>1, <1>2, GotoType
<1>4. Ends(c) => CallsOK(call')
  BY <1>2, EndsType DEF Ends
<1>5. SetStatus(call[c].ticket, "RUNNING") => EntriesOK(registry')
  BY <1>1, <1>2, EntryTypes DEF Status
<1>6. CASE Find(c)
  BY <1>2, <1>3, <1>4, <1>5, <1>6 DEF Find, IInv, PC
<1>7. CASE Restart(c)
  <2>1. BoxesOK(box')
    BY <1>1, <1>2, <1>7, BoxTypes DEF Restart, In
  <2> QED BY <1>4, <1>5, <1>7, <2>1 DEF Restart, IInv
<1>8. CASE StartFails(c)
  <2>1. faults' \in 0 .. MaxFaults
    BY <1>8, CallerType DEF StartFails
  <2>2. BoxesOK(box')
    BY <1>1, <1>2, <1>8, BoxTypes DEF StartFails, Strays, In
  <2> QED BY <1>4, <1>8, <2>1, <2>2 DEF StartFails, IInv
<1> QED BY <1>6, <1>7, <1>8

LEMMA SpawnInv ==
  ASSUME IInv, NEW c \in Callers,
         Room(c) \/ Create(c) \/ CreateFails(c) \/ Launch(c) \/ LaunchFails(c)
  PROVE  IInv'
<1>1. /\ call[c].pc \in {"room", "create", "launch"} /\ c # "zombies"
      /\ call[c].ticket \in Tickets /\ call[c].ticket # None
  <2>1. call[c].pc \in {"room", "create", "launch"}
    BY DEF Room, Create, CreateFails, Launch, LaunchFails
  <2> QED BY <2>1, CallerType DEF CallOK, ZombiePCs
<1>2. CallsOK(call) /\ EntriesOK(registry) /\ BoxesOK(box)
  BY DEF IInv
<1>3. \A pc \in PC : Goto(c, pc) \/ About(c, pc) => CallsOK(call')
  BY <1>1, <1>2, GotoType
<1>4. Ends(c) => CallsOK(call')
  BY <1>2, EndsType DEF Ends
<1>5. SpawnThrows(c) => EntriesOK(registry')
  BY <1>1, <1>2, EntryTypes DEF SpawnThrows, Status
<1>6. Fault \/ NoFault => faults' \in 0 .. MaxFaults
  BY CallerType
<1>7. CASE Room(c)
  BY <1>2, <1>3, <1>4, <1>5, <1>6, <1>7 DEF Room, SpawnFails, IInv, PC
<1>8. CASE Create(c)
  BY <1>1, <1>2, <1>3, <1>8, BoxTypes DEF Create, Created, IInv, PC
<1>9. CASE CreateFails(c)
  <2>1. BoxesOK(box')
    BY <1>1, <1>2, <1>9, BoxTypes DEF CreateFails, Created
  <2> QED BY <1>4, <1>5, <1>6, <1>9, <2>1 DEF CreateFails, SpawnFails, IInv
<1>10. CASE Launch(c)
  <2>1. EntriesOK(registry')
    <3>1. [status |-> "RUNNING", id |-> "live", quiet |-> FALSE] \in Entry
      BY DEF Entry, Status, Id
    <3>2. call[c].op = "up" /\ Spawned(c) => EntriesOK(registry')
      BY <1>1, <1>2, <3>1 DEF Spawned, EntriesOK
    <3> QED BY <1>1, <1>2, <1>10, <3>2, EntryTypes DEF Launch, Spawned, Status
  <2>2. BoxesOK(box')
    BY <1>1, <1>2, <1>10, BoxTypes DEF Launch, In
  <2> QED BY <1>4, <1>10, <2>1, <2>2 DEF Launch, IInv
<1>11. CASE LaunchFails(c)
  <2>1. BoxesOK(box')
    BY <1>1, <1>2, <1>11, BoxTypes DEF LaunchFails, Strays, In
  <2>2. CallsOK(call')
    <3>1. EndsIn(Lost(call[c].ticket), c) => CallsOK(call')
      BY <1>1, <1>2, LostType, EndsType
    <3> QED BY <1>4, <1>11, <3>1 DEF LaunchFails
  <2>3. faults' \in 0 .. MaxFaults
    BY <1>6, <1>11 DEF LaunchFails
  <2> QED BY <1>5, <1>11, <2>1, <2>2, <2>3 DEF LaunchFails, IInv
<1> QED BY <1>7, <1>8, <1>9, <1>10, <1>11

LEMMA DeleteInv ==
  ASSUME IInv, NEW c \in Callers, Look(c) \/ Halted(c) \/ Remove(c) \/ DeleteFails(c)
  PROVE  IInv'
<1>1. /\ call[c].pc \in {"look", "halting", "remove"}
      /\ call[c].ticket \in Tickets /\ call[c].ticket # None
  <2>1. call[c].pc \in {"look", "halting", "remove"}
    BY DEF Look, Halted, Remove, DeleteFails
  <2> QED BY <2>1, CallerType
<1>2. CallsOK(call) /\ EntriesOK(registry) /\ BoxesOK(box)
  BY DEF IInv
<1>3. \A pc \in {"halting", "remove"} : About(c, pc) => CallsOK(call')
  BY <1>1, <1>2, GotoType DEF PC, ZombiePCs
<1>4. Ends(c) => CallsOK(call')
  BY <1>2, EndsType DEF Ends
<1>5. /\ Forgotten(c, registry) => EntriesOK(registry')
      /\ Forgotten(c, Disowned(call[c].ticket)) => EntriesOK(registry')
  BY <1>1, <1>2, EntryTypes
<1>6. Fault \/ NoFault => faults' \in 0 .. MaxFaults
  BY CallerType
<1>11. EndsIn(Lost(call[c].ticket), c) => CallsOK(call')
  BY <1>1, <1>2, LostType, EndsType
<1>7. CASE Look(c)
  BY <1>2, <1>3, <1>4, <1>5, <1>7 DEF Look, IInv
<1>8. CASE Halted(c)
  <2> DEFINE r == [call[c] EXCEPT !.pc = "remove"]
  <2>1. CallOK(c, r)
    BY <1>1, CallerType DEF CallOK, Call, PC, ZombiePCs
  <2>2. call' = [call EXCEPT ![c] = r]
    BY <1>2, <1>8 DEF Halted, CallsOK
  <2> HIDE DEF r
  <2>3. CallsOK(call')
    BY <1>2, <2>1, <2>2, CallType
  <2> QED BY <1>6, <1>8, <2>3 DEF Halted, IInv
<1>9. CASE Remove(c)
  <2>1. BoxesOK(box')
    BY <1>1, <1>2, <1>9, BoxTypes DEF Remove, Removed
  <2>2. CallsOK(call')
    BY <1>4, <1>9, <1>11 DEF Remove, Removed
  <2>3. EntriesOK(registry')
    BY <1>5, <1>9 DEF Remove
  <2> QED BY <1>9, <2>1, <2>2, <2>3 DEF Remove, IInv
<1>10. CASE DeleteFails(c)
  <2>1. BoxesOK(box') /\ CallsOK(call')
    BY <1>1, <1>2, <1>4, <1>10, <1>11, BoxTypes DEF DeleteFails, Removed
  <2>2. EntriesOK(registry')
    BY <1>1, <1>2, <1>10, EntryTypes DEF DeleteFails
  <2> QED BY <1>6, <1>10, <2>1, <2>2 DEF DeleteFails, IInv
<1> QED BY <1>7, <1>8, <1>9, <1>10

LEMMA StepInv ==
  ASSUME IInv, NEW c \in Callers, Steps(c)
  PROVE  IInv'
<1>1. CASE LoopEnds(c)
  <2>1. CallsOK(call')
    BY <1>1, CallType, IdleType DEF IInv, LoopEnds
  <2> QED BY <1>1, <2>1 DEF IInv, LoopEnds
<1> QED BY <1>1, StopInv, StartInv, SpawnInv, DeleteInv DEF Steps, Proceeds, Fails

LEMMA NextInv == IInv /\ [Next]_vars => IInv'
<1> SUFFICES ASSUME IInv, [Next]_vars PROVE IInv'
  OBVIOUS
<1>1. CASE UNCHANGED vars
  BY <1>1 DEF vars, IInv
<1>2. CASE Next
  BY <1>2, WorldInv, RequestInv, TimerInv, StepInv DEF Next
<1> QED BY <1>1, <1>2

-----------------------------------------------------------------------------
(* What strays is running: whatever stops or removes a container knows.       *)
LEMMA StraysFrame ==
  ASSUME IInv, StraysRun, NEW t \in Tickets, NEW b, box' = [box EXCEPT ![t] = b],
         strays' \subseteq strays \cup {t}, t \in strays' => b # None /\ b.state = "running"
  PROVE  StraysRun'
<1>1. box'[t] = b /\ \A u \in Tickets \ {t} : box'[u] = box[u]
  BY DEF IInv, BoxesOK
<1>2. ASSUME NEW u \in strays'
      PROVE  u \in Tickets /\ In(u, "running")'
  <2>1. CASE u = t
    BY <1>1, <1>2, <2>1 DEF In
  <2>2. CASE u # t
    BY <1>1, <1>2, <2>2 DEF StraysRun, Up, In
  <2> QED BY <2>1, <2>2
<1> QED BY <1>2 DEF StraysRun, Up

LEMMA StraysSame ==
  ASSUME StraysRun, box' = box, strays' \subseteq strays
  PROVE  StraysRun'
BY DEF StraysRun, Up, In

LEMMA StraysWorld ==
  ASSUME IInv, StraysRun, NEW t \in Tickets,
         Exit(t) \/ Reap(t) \/ Ages(t) \/ Heartbeat(t) \/ FallsQuiet(t)
  PROVE  StraysRun'
<1>1. t \in strays => In(t, "running")
  BY DEF StraysRun, Up
<1>2. CASE Exit(t) \/ Reap(t)
  <2>1. PICK b : box' = [box EXCEPT ![t] = b]
    BY <1>2 DEF Exit, Reap
  <2>2. strays' \subseteq strays /\ t \notin strays'
    BY <1>1, <1>2 DEF Exit, Reap, In
  <2> QED BY <2>1, <2>2, StraysFrame
<1>3. CASE Ages(t)
  <2> DEFINE b == [box[t] EXCEPT !.old = TRUE]
  <2>1. box' = [box EXCEPT ![t] = b] /\ strays' = strays /\ box[t] \in Box
    BY <1>3 DEF Ages, IInv, BoxesOK
  <2>2. b \in Box /\ b.state = box[t].state
    BY <2>1 DEF Box
  <2> HIDE DEF b
  <2> QED BY <1>1, <2>1, <2>2, StraysFrame, NoneAssumption DEF In
<1>4. CASE Heartbeat(t) \/ FallsQuiet(t)
  BY <1>4, StraysSame DEF Heartbeat, FallsQuiet
<1> QED BY <1>2, <1>3, <1>4

LEMMA StraysStep ==
  ASSUME IInv, StraysRun, NEW c \in Callers, Steps(c)
  PROVE  StraysRun'
<1> DEFINE t == call[c].ticket
<1>1. t \in strays => In(t, "running")
  BY DEF StraysRun, Up
<1>2. call[c].pc \notin {"idle", "next", "reconcile"} => t \in Tickets
  BY CallerType
<1>3. t \in Tickets /\ In(t, "created") /\ box' = [box EXCEPT ![t].state = "running"] =>
         \E b : box' = [box EXCEPT ![t] = b] /\ b # None /\ b.state = "running"
  <2> SUFFICES ASSUME t \in Tickets, In(t, "created"), box' = [box EXCEPT ![t].state = "running"]
               PROVE  \E b : box' = [box EXCEPT ![t] = b] /\ b # None /\ b.state = "running"
    OBVIOUS
  <2> DEFINE b == [box[t] EXCEPT !.state = "running"]
  <2>1. b \in Box /\ b.state = "running" /\ box' = [box EXCEPT ![t] = b]
    BY DEF In, IInv, BoxesOK, Box
  <2> QED BY <2>1, NoneAssumption
<1> HIDE DEF t
<1>4. CASE StopFinds(c) \/ StopReturns(c) \/ StopFails(c) \/ Find(c) \/ Room(c)
           \/ Look(c) \/ Halted(c) \/ LoopEnds(c)
  <2>1. box' = box /\ strays' \subseteq strays
    BY <1>4 DEF StopFinds, StopReturns, StopFails, Find, Room, Look, Halted, LoopEnds
  <2> QED BY <2>1, StraysSame
<1>5. ASSUME t \in Tickets, In(t, "created"), box' = [box EXCEPT ![t].state = "running"],
             strays' \subseteq strays \cup {t}
      PROVE  StraysRun'
  BY <1>3, <1>5, StraysFrame
<1>6. ASSUME t \in Tickets, box[t] = None \/ ~ In(t, "running") \/ t \notin strays', NEW b, box' = [box EXCEPT ![t] = b],
             strays' \subseteq strays
      PROVE  StraysRun'
  <2>1. t \notin strays'
    BY <1>1, <1>6 DEF In
  <2> QED BY <1>6, <2>1, StraysFrame
<1>7. CASE Restart(c) \/ Launch(c)
  <2>1. t \in Tickets /\ strays' = strays
    BY <1>2, <1>7 DEF Restart, Launch
  <2> QED BY <1>5, <1>7, <2>1, StraysSame DEF Restart, Launch, t
<1>8. CASE StartFails(c)
  <2>1. t \in Tickets
    BY <1>2, <1>8 DEF StartFails
  <2> QED BY <1>5, <1>8, <2>1, StraysSame DEF StartFails, Strays, t
<1>9. CASE Create(c) \/ CreateFails(c)
  <2>1. t \in Tickets
    BY <1>2, <1>9 DEF Create, CreateFails
  <2> QED BY <1>6, <1>9, <2>1, StraysSame DEF Create, CreateFails, Created, t
<1>10. CASE LaunchFails(c)
  <2>1. t \in Tickets
    BY <1>2, <1>10 DEF LaunchFails
  <2>2. CASE UNCHANGED <<box, strays>>
    BY <2>2, StraysSame
  <2>3. CASE Strays(c)
    BY <1>5, <2>1, <2>3 DEF Strays, t
  <2>4. CASE In(t, "created") /\ UNCHANGED strays /\ box' = [box EXCEPT ![t] = None]
    BY <1>6, <2>1, <2>4 DEF In
  <2> QED BY <1>10, <2>2, <2>3, <2>4 DEF LaunchFails, t
<1>11. CASE Remove(c) \/ DeleteFails(c)
  <2>1. CASE Removed(c)
    <3>1. t \in Tickets
      BY <1>2, <1>11 DEF Remove, DeleteFails
    <3> QED BY <1>6, <2>1, <3>1 DEF Removed, t
  <2> QED BY <1>11, <2>1, StraysSame DEF Remove, DeleteFails
<1> QED BY <1>4, <1>7, <1>8, <1>9, <1>10, <1>11 DEF Steps, Proceeds, Fails

LEMMA StraysNext == IInv /\ StraysRun /\ [Next]_vars => StraysRun'
<1> SUFFICES ASSUME IInv, StraysRun, [Next]_vars PROVE StraysRun'
  OBVIOUS
<1>1. CASE \/ UNCHANGED vars \/ Zombie \/ Check
           \/ \E c \in Admins, t \in Tickets : Admin(c, t)
           \/ \E t \in Tickets : ScaleUp(t) \/ ScaleDown(t) \/ BootNext(t)
  <2>1. box' = box /\ strays' = strays
    BY <1>1 DEF vars, Zombie, Check, ZombiesStart, ZombiesNext, CheckLists, Reconcile, Begin,
                Admin, Stop, Delete, Start, Recover, Unblock, ScaleUp, ScaleDown, BootNext
  <2> QED BY <2>1, StraysSame
<1> QED BY <1>1, StraysWorld, StraysStep DEF Next

-----------------------------------------------------------------------------
(* The registry, the containers and the calls have their types, for any       *)
(* number of tickets and admins and any interleaving of their requests: no    *)
(* step of a call is about no ticket, and the timer of the zombies never      *)
(* starts a worker.                                                           *)
THEOREM TypeCorrect == Spec => []TypeOK
<1>1. Init => StraysRun
  BY DEF Init, StraysRun
<1> QED BY <1>1, InitInv, NextInv, StraysNext, InvType, PTL DEF Spec

-----------------------------------------------------------------------------
(* What the steps leave of the entry of a ticket that is STOPPED.             *)
Kept(t) == registry'[t] # None /\ registry'[t].status = "STOPPED"

LEMMA KeptByOthers ==
  ASSUME IInv, NEW t \in Tickets, Has(t, "STOPPED"), NEW u, u # t
  PROVE  /\ \A s : SetStatus(u, s) => Kept(t)
         /\ SetRunning(u) => Kept(t)
         /\ \A e : registry' = [registry EXCEPT ![u] = e] => Kept(t)
BY DEF IInv, EntriesOK, Has, SetStatus, SetRunning, Kept

LEMMA KeptById ==
  ASSUME IInv, NEW t \in Tickets, Has(t, "STOPPED"), NEW u \in Tickets
  PROVE  /\ registry' = registry => Kept(t)
         /\ registry' = Disowned(u) => Kept(t)
         /\ u # t => \A e : registry' = [Disowned(u) EXCEPT ![u] = e] => Kept(t)
<1>1. DOMAIN Disowned(u) = Tickets
  BY DEF IInv, EntriesOK, Disowned
<1>2. Disowned(u)[t] # None /\ Disowned(u)[t].status = "STOPPED"
  <2>1. registry[t] \in Entry /\ registry[t] # None /\ registry[t].status = "STOPPED"
    BY DEF IInv, EntriesOK, Has
  <2>2. CASE u = t
    <3>1. Disowned(u)[t] = [registry[t] EXCEPT !.id = Dead(@)]
      BY <2>1, <2>2 DEF IInv, EntriesOK, Disowned
    <3>2. [registry[t] EXCEPT !.id = Dead(@)] \in Entry
      BY <2>1 DEF Entry, Id, Dead
    <3> QED BY <2>1, <3>1, <3>2, NoneAssumption DEF Entry
  <2>3. CASE u # t
    BY <2>1, <2>3 DEF IInv, EntriesOK, Disowned
  <2> QED BY <2>2, <2>3
<1>3. registry' = registry => Kept(t)
  BY DEF Has, Kept
<1> QED BY <1>1, <1>2, <1>3 DEF Kept

(* A step of a call about another ticket, or of the timer of the zombies.     *)
LEMMA KeptByCalls ==
  ASSUME IInv, NEW t \in Tickets, Has(t, "STOPPED"), ~ Handled(t), NEW c \in Callers, Steps(c)
  PROVE  Kept(t)
<1> DEFINE u == call[c].ticket
<1>1. c # "zombies" => u # t
  BY DEF Handled
<1>2. call[c].pc \notin {"idle", "next", "reconcile"} => u \in Tickets
  BY CallerType
<1>3. c = "zombies" => call[c].op # "delete" /\ call[c].pc \in ZombiePCs
  BY CallerType DEF CallOK
<1>4. registry' = registry => Kept(t)
  BY DEF Has, Kept
<1>5. u # t => \A s : SetStatus(u, s) => Kept(t)
  BY KeptByOthers
<1> HIDE DEF u
<1>6. CASE StopFinds(c) \/ StopReturns(c) \/ StopFails(c)
  <2>1. u # t
    BY <1>1, <1>3, <1>6 DEF StopFinds, StopReturns, StopFails, ZombiePCs
  <2> QED BY <1>4, <1>5, <1>6, <2>1 DEF StopFinds, StopReturns, StopFails, Stopped, StopThrows, u
<1>7. CASE Find(c) \/ Restart(c) \/ StartFails(c)
  <2>1. u # t
    BY <1>1, <1>3, <1>7 DEF Find, Restart, StartFails, ZombiePCs
  <2> QED BY <1>4, <1>5, <1>7, <2>1 DEF Find, Restart, StartFails, u
<1>8. CASE Room(c) \/ Create(c) \/ CreateFails(c) \/ LaunchFails(c)
  <2>1. u # t
    BY <1>1, <1>3, <1>8 DEF Room, Create, CreateFails, LaunchFails, ZombiePCs
  <2> QED BY <1>4, <1>5, <1>8, <2>1
          DEF Room, Create, CreateFails, LaunchFails, SpawnFails, SpawnThrows, u
<1>9. CASE Launch(c)
  <2>1. u # t
    BY <1>1, <1>3, <1>9 DEF Launch, ZombiePCs
  <2> QED BY <1>9, <2>1, KeptByOthers DEF Launch, Spawned, u
<1>10. CASE Look(c) \/ Halted(c) \/ Remove(c) \/ DeleteFails(c)
  <2>1. u \in Tickets
    BY <1>2, <1>10 DEF Look, Halted, Remove, DeleteFails
  <2>2. Forgotten(c, registry) => Kept(t)
    BY <1>1, <1>3, <1>4, KeptByOthers DEF Forgotten, u
  <2>3. Forgotten(c, Disowned(u)) => Kept(t)
    BY <1>1, <1>3, <2>1, KeptById DEF Forgotten, u
  <2>4. registry' = Disowned(u) => Kept(t)
    BY <2>1, KeptById
  <2> QED BY <1>4, <1>10, <2>2, <2>3, <2>4 DEF Look, Halted, Remove, DeleteFails, u
<1>11. CASE LoopEnds(c)
  BY <1>4, <1>11 DEF LoopEnds
<1> QED BY <1>6, <1>7, <1>8, <1>9, <1>10, <1>11 DEF Steps, Proceeds, Fails

LEMMA KeptByNext ==
  ASSUME IInv, [Next]_vars, NEW t \in Tickets, Has(t, "STOPPED"), ~ Handled(t), ~ Handled(t)'
  PROVE  Kept(t)
<1>1. registry' = registry => Kept(t)
  BY DEF Has, Kept
<1>2. ASSUME NEW u \in Tickets, Exit(u) \/ Reap(u) \/ Ages(u) \/ Heartbeat(u) \/ FallsQuiet(u)
      PROVE  Kept(t)
  <2>1. CASE Reap(u)
    BY <2>1, KeptById DEF Reap
  <2>2. CASE Heartbeat(u) \/ FallsQuiet(u)
    <3>1. /\ registry[t] \in Entry /\ registry[t].status = "STOPPED"
          /\ registry \in [Tickets -> Entry \cup {None}]
      BY DEF IInv, EntriesOK, Has
    <3>2. PICK q \in BOOLEAN : registry' = [registry EXCEPT ![u].quiet = q]
      BY <2>2 DEF Heartbeat, FallsQuiet
    <3>3. CASE u = t
      <4>1. registry'[t] = [registry[t] EXCEPT !.quiet = q]
        BY <3>1, <3>2, <3>3
      <4> QED BY <3>1, <4>1, NoneAssumption DEF Entry, Kept
    <3>4. CASE u # t
      BY <3>1, <3>2, <3>4, NoneAssumption DEF Kept
    <3> QED BY <3>3, <3>4
  <2>3. CASE Exit(u) \/ Ages(u)
    BY <1>1, <2>3 DEF Exit, Ages
  <2> QED BY <1>2, <2>1, <2>2, <2>3
<1>3. ASSUME NEW c \in Admins, NEW u \in Tickets, Admin(c, u)
      PROVE  Kept(t)
  <2>1. CASE Unblock(c, u)
    <3>1. c \in Callers \ {"zombies"}
      BY DEF Callers
    <3>2. call' = [call EXCEPT ![c] = [Idle EXCEPT !.op = "unblock", !.pc = "stop", !.ticket = u]]
      BY <2>1 DEF Unblock, Begin
    <3>3. call'[c].ticket = u
      BY <3>1, <3>2 DEF Idle, IInv, CallsOK
    <3>4. u # t
      BY <3>1, <3>3 DEF Handled
    <3> QED BY <2>1, <3>4, KeptByOthers DEF Unblock
  <2>2. CASE Stop(c, u) \/ Delete(c, u) \/ Start(c, u) \/ Recover(c, u)
    BY <1>1, <2>2 DEF Stop, Delete, Start, Recover
  <2> QED BY <1>3, <2>1, <2>2 DEF Admin
<1>4. ASSUME NEW u \in Tickets, BootNext(u)
      PROVE  Kept(t)
  <2>1. CASE u = t
    <3>1. ~ (registry[t] = None \/ Has(t, "PENDING"))
      BY DEF Has
    <3> QED BY <1>1, <1>4, <2>1, <3>1 DEF BootNext
  <2>2. CASE u # t
    BY <1>1, <1>4, <2>2, KeptByOthers DEF BootNext
  <2> QED BY <2>1, <2>2
<1>5. CASE Reconcile
  BY <1>5 DEF Reconcile, Phantom, Has, Kept
<1>6. CASE CheckLists \/ Zombie \/ (\E u \in Tickets : ScaleUp(u) \/ ScaleDown(u)) \/ UNCHANGED vars
  BY <1>1, <1>6 DEF CheckLists, Zombie, ZombiesStart, ZombiesNext, ScaleUp, ScaleDown, vars
<1> QED BY <1>2, <1>3, <1>4, <1>5, <1>6, KeptByCalls DEF Next, Check

(* No timer prunes a STOPPED worker: its entry stays STOPPED until the step   *)
(* that begins a request about it, or a step of one.                          *)
THEOREM StoppedAlwaysKept == Spec => StoppedKept
<1>1. IInv /\ [Next]_vars =>
        [\A t \in Tickets : Has(t, "STOPPED") /\ ~ Has(t, "STOPPED")' => Handled(t) \/ Handled(t)']_vars
  BY KeptByNext DEF Kept, Has
<1> QED BY InitInv, NextInv, <1>1, PTL DEF Spec, StoppedKept

-----------------------------------------------------------------------------
(***************************************************************************)
(* Nothing runs that the registry shows as stopped.  That a stop was about *)
(* a container that is gone says nothing of the one that has taken its     *)
(* name since, unless nobody else could create it: the invariant says that *)
(* a ticket never mixed has one request at a time, and that while it is    *)
(* being stopped and its container is gone, no other runs.                 *)
(***************************************************************************)
Requesters == Callers \ {"zombies"}
About1(t) == \A c, d \in Requesters : call[c].ticket = t /\ call[d].ticket = t => c = d
Gone(c) == call[c].pc = "stopping" /\ ~ Same(c)
GoneIsDown(t) == \A c \in Requesters : call[c].ticket = t /\ Gone(c) => ~ In(t, "running")
ShownDown(t) == Has(t, "STOPPED") /\ t \notin strays => ~ In(t, "running")

DownInv == \A t \in Tickets \ mixed : About1(t) /\ GoneIsDown(t) /\ ShownDown(t)

(* A step of a call moves that call only, and never to another ticket; other  *)
(* calls only learn that a container is gone.                                 *)
Turn(k, c, r) ==
    /\ call' = [k EXCEPT ![c] = r]
    /\ r.ticket \in {call[c].ticket, None}
    /\ r.pc = "stopping" => r.id = "live"

LEMMA TurnMoves ==
  ASSUME IInv, NEW c \in Callers
  PROVE  /\ \A pc : Goto(c, pc) /\ pc # "stopping" => \E r : Turn(call, c, r)
         /\ \A pc : About(c, pc) => \E r : Turn(call, c, r)
         /\ \A k : EndsIn(k, c) /\ k[c] \in Call =>
                       \E r : Turn(k, c, r) /\ r.ticket = None
<1>0. call[c] \in Call /\ call = [d \in Callers |-> call[d]]
  BY DEF IInv, CallsOK, CallOK
<1>1. ASSUME NEW pc, NEW id, id = "live" \/ pc # "stopping",
             call' = [call EXCEPT ![c].pc = pc, ![c].id = id]
      PROVE  \E r : Turn(call, c, r)
  <2> DEFINE r == [call[c] EXCEPT !.pc = pc, !.id = id]
  <2>1. call' = [call EXCEPT ![c] = r]
    BY <1>0, <1>1
  <2>2. r.ticket = call[c].ticket /\ r.pc = pc /\ r.id = id
    BY <1>0 DEF Call
  <2> HIDE DEF r
  <2> QED BY <1>1, <2>1, <2>2 DEF Turn
<1>2. ASSUME NEW k, EndsIn(k, c), k[c] \in Call
      PROVE  \E r : Turn(k, c, r) /\ r.ticket = None
  <2>1. CASE k[c].op \in {"boot", "zombies"}
    <3> DEFINE r == [k[c] EXCEPT !.pc = "next", !.ticket = None, !.id = None]
    <3>1. call' = [k EXCEPT ![c] = r]
      BY <1>2, <2>1 DEF EndsIn
    <3>2. r.ticket = None /\ r.pc # "stopping"
      BY <1>2 DEF Call
    <3> HIDE DEF r
    <3> QED BY <3>1, <3>2 DEF Turn
  <2>2. CASE k[c].op \notin {"boot", "zombies"}
    <3>1. call' = [k EXCEPT ![c] = Idle]
      BY <1>2, <2>2 DEF EndsIn
    <3>2. Idle.ticket = None /\ Idle.pc # "stopping"
      BY DEF Idle
    <3> QED BY <3>1, <3>2 DEF Turn
  <2> QED BY <2>1, <2>2
<1> QED BY <1>1, <1>2 DEF Goto, About

LEMMA LostCalls ==
  ASSUME IInv, NEW t \in Tickets
  PROVE  /\ Lost(t) = [d \in Callers |-> Lost(t)[d]]
         /\ \A d \in Callers :
              /\ Lost(t)[d] \in Call
              /\ Lost(t)[d].pc = call[d].pc /\ Lost(t)[d].ticket = call[d].ticket
              /\ call[d].ticket # t => Lost(t)[d].id = call[d].id
<1>1. CallsOK(Lost(t))
  BY LostType DEF IInv
<1>2. \A d \in Callers : call[d] \in Call
  BY DEF IInv, CallsOK, CallOK
<1>3. ASSUME NEW d \in Callers
      PROVE  /\ Lost(t)[d].pc = call[d].pc /\ Lost(t)[d].ticket = call[d].ticket
             /\ call[d].ticket # t => Lost(t)[d].id = call[d].id
  BY <1>2 DEF Lost, Call
<1> QED BY <1>1, <1>3 DEF CallsOK, CallOK

(* The containers that start, and the entries that become STOPPED.            *)
NoneStarts == \A t \in Tickets : In(t, "running")' => In(t, "running")
NoneStopped == \A t \in Tickets : Has(t, "STOPPED")' => Has(t, "STOPPED")
OnlyStarts(u) ==
    /\ registry'[u] = None \/ registry'[u].status # "STOPPED" \/ u \in strays'
    /\ \A t \in Tickets \ {u} :
         (In(t, "running")' => In(t, "running")) /\ (t \in strays => t \in strays')

(* Nothing that strays is found; it may stop.                                 *)
NoneFound == \A t \in Tickets : t \in strays => t \in strays' \/ ~ In(t, "running")'

LEMMA BoxSteps ==
  ASSUME IInv, NEW u \in Tickets
  PROVE  /\ box' = box => NoneStarts
         /\ box' = [box EXCEPT ![u] = None] => NoneStarts /\ ~ In(u, "running")'
         /\ box' = [box EXCEPT ![u] = [state |-> "created", old |-> FALSE]] => NoneStarts
         /\ box[u] # None /\ box' = [box EXCEPT ![u].state = "exited"] => NoneStarts
         /\ box[u] # None /\ box' = [box EXCEPT ![u].old = TRUE] => NoneStarts
<1> USE DEF NoneStarts, In, IInv, BoxesOK, Box
<1>1. box' = box => NoneStarts
  OBVIOUS
<1>2. box' = [box EXCEPT ![u] = None] => NoneStarts /\ ~ In(u, "running")'
  OBVIOUS
<1>3. box' = [box EXCEPT ![u] = [state |-> "created", old |-> FALSE]] => NoneStarts
  OBVIOUS
<1>4. box[u] # None /\ box' = [box EXCEPT ![u].state = "exited"] => NoneStarts
  OBVIOUS
<1>5. box[u] # None /\ box' = [box EXCEPT ![u].old = TRUE] => NoneStarts
  OBVIOUS
<1> QED BY <1>1, <1>2, <1>3, <1>4, <1>5

LEMMA EntrySteps ==
  ASSUME IInv, NEW u \in Tickets
  PROVE  /\ registry' = registry => NoneStopped
         /\ registry' = Disowned(u) => NoneStopped
         /\ \A s \in Status \ {"STOPPED"} : SetStatus(u, s) => NoneStopped
         /\ SetRunning(u) => NoneStopped
         /\ \A c \in Callers : call[c].ticket = u =>
              /\ Forgotten(c, registry) => NoneStopped
              /\ Forgotten(c, Disowned(u)) => NoneStopped
<1> USE DEF NoneStopped, Has, IInv, EntriesOK, Entry
<1>1. registry' = registry => NoneStopped
  OBVIOUS
<1>2. \A t \in Tickets : Disowned(u)[t] # None /\ Disowned(u)[t].status = "STOPPED" => Has(t, "STOPPED")
  BY DEF Disowned
<1>3. DOMAIN Disowned(u) = Tickets
  BY DEF Disowned
<1>4. \A s \in Status \ {"STOPPED"} : SetStatus(u, s) => NoneStopped
  BY DEF SetStatus
<1>5. SetRunning(u) => NoneStopped
  BY DEF SetRunning
<1>6. registry' = Disowned(u) => NoneStopped
  BY <1>2
<1>7. \A c \in Callers : call[c].ticket = u /\ Forgotten(c, registry) => NoneStopped
  BY DEF Forgotten
<1>8. \A c \in Callers : call[c].ticket = u /\ Forgotten(c, Disowned(u)) => NoneStopped
  BY <1>2, <1>3 DEF Forgotten
<1> QED BY <1>1, <1>4, <1>5, <1>6, <1>7, <1>8

(* What a step of a call can do that bears on the invariant: it ends a stop   *)
(* that has found nothing running, it starts a container and ends, or it does *)
(* neither.                                                                   *)
StopsIt(c) ==
    /\ UNCHANGED <<box, strays>> /\ (~ In(call[c].ticket, "running") \/ Gone(c))
    /\ \A t \in Tickets \ {call[c].ticket} : Has(t, "STOPPED")' => Has(t, "STOPPED")
    /\ \E r : Turn(call, c, r)

StartsIt(c) == OnlyStarts(call[c].ticket) /\ NoneStopped /\ \E r : Turn(call, c, r) /\ r.ticket = None

Harmless(c) ==
    /\ NoneStarts /\ NoneStopped /\ NoneFound
    /\ \/ \E r : Turn(call, c, r)
       \/ \E t \in Tickets : /\ t = call[c].ticket /\ ~ In(t, "running")'
                             /\ \E r : Turn(Lost(t), c, r)

LEMMA StepKinds ==
  ASSUME IInv, NEW c \in Callers, Steps(c)
  PROVE  /\ mixed' = mixed
         /\ \/ c # "zombies" /\ call[c].ticket \in Tickets /\ (StopsIt(c) \/ StartsIt(c))
            \/ Harmless(c)
<1> DEFINE u == call[c].ticket
<1>1. call[c].pc \notin {"idle", "next", "reconcile"} => u \in Tickets
  BY CallerType
<1>2. call[c] \in Call /\ (c = "zombies" => call[c].pc \in ZombiePCs)
  BY CallerType DEF CallOK
<1>3. /\ \A pc : Goto(c, pc) /\ pc # "stopping" => \E r : Turn(call, c, r)
      /\ \A pc : About(c, pc) => \E r : Turn(call, c, r)
      /\ Ends(c) => \E r : Turn(call, c, r) /\ r.ticket = None
  BY <1>2, TurnMoves DEF Ends
<1>4. u \in Tickets /\ EndsIn(Lost(u), c) => \E r : Turn(Lost(u), c, r)
  BY TurnMoves, LostCalls
<1> HIDE DEF u
<1>5. CASE StopFinds(c) \/ StopReturns(c) \/ StopFails(c)
  <2>1. c # "zombies" /\ u \in Tickets
    BY <1>1, <1>2, <1>5 DEF StopFinds, StopReturns, StopFails, ZombiePCs
  <2>2. UNCHANGED <<box, mixed, strays>>
    BY <1>5 DEF StopFinds, StopReturns, StopFails
  <2>3. NoneStarts /\ NoneFound
    BY <2>1, <2>2, BoxSteps DEF NoneFound
  <2>4. registry' = registry => NoneStopped
    BY <2>1, EntrySteps
  <2>5. CASE StopFinds(c)
    BY <1>3, <2>2, <2>3, <2>4, <2>5 DEF StopFinds, Harmless
  <2>6. CASE StopFails(c)
    BY <1>3, <2>2, <2>3, <2>4, <2>6 DEF StopFails, StopThrows, Harmless
  <2>7. CASE StopReturns(c)
    <3>1. \A t \in Tickets \ {u} : SetStatus(u, "STOPPED") /\ Has(t, "STOPPED")' => Has(t, "STOPPED")
      BY DEF IInv, EntriesOK, SetStatus, Has
    <3>2. CASE call[c].op \in {"stop", "down"} /\ SetStatus(u, "STOPPED") /\ Ends(c)
      <4>1. ~ In(u, "running") \/ Gone(c)
        BY <2>7 DEF StopReturns, Still, Gone, u
      <4> QED BY <1>3, <2>1, <2>2, <3>1, <3>2, <4>1 DEF StopsIt, u
    <3>3. CASE registry' = registry /\ (Goto(c, "find") \/ Goto(c, "room"))
      BY <1>3, <2>2, <2>3, <2>4, <3>3 DEF Harmless
    <3> QED BY <2>7, <3>2, <3>3 DEF StopReturns, Stopped, u
  <2> QED BY <1>5, <2>5, <2>6, <2>7
<1>6. CASE (Find(c) /\ ~ In(u, "running")) \/ (StartFails(c) /\ ~ Strays(c)) \/ Room(c) \/ Create(c) \/ CreateFails(c)
  <2>1. u \in Tickets
    BY <1>1, <1>6 DEF Find, StartFails, Room, Create, CreateFails
  <2>2. NoneStarts /\ mixed' = mixed
    BY <1>6, <2>1, BoxSteps DEF Find, StartFails, Room, Create, CreateFails, Created, u
  <2>3. NoneStopped
    BY <1>6, <2>1, EntrySteps
       DEF Find, StartFails, Room, Create, CreateFails, SpawnFails, SpawnThrows, Status, u
  <2>4. \E r : Turn(call, c, r)
    BY <1>3, <1>6 DEF Find, StartFails, Room, Create, CreateFails, SpawnFails
  <2>5. NoneFound
    BY <1>6 DEF Find, StartFails, Room, Create, CreateFails, NoneFound, u
  <2> QED BY <2>2, <2>3, <2>4, <2>5 DEF Harmless
<1>7. CASE LaunchFails(c) /\ ~ Strays(c)
  <2>1. u \in Tickets /\ mixed' = mixed /\ NoneFound
    BY <1>1, <1>7 DEF LaunchFails, NoneFound
  <2>2. NoneStopped
    BY <1>7, <2>1, EntrySteps DEF LaunchFails, SpawnThrows, Status, u
  <2>3. CASE UNCHANGED box /\ Ends(c)
    BY <1>3, <2>1, <2>2, <2>3, BoxSteps DEF Harmless
  <2>4. CASE box' = [box EXCEPT ![u] = None] /\ EndsIn(Lost(u), c)
    <3>1. PICK t \in Tickets : t = u
      BY <2>1
    <3>2. NoneStarts /\ ~ In(t, "running")'
      BY <2>4, <3>1, BoxSteps
    <3>3. \E r : Turn(Lost(t), c, r)
      BY <1>4, <2>4, <3>1
    <3> QED BY <2>1, <2>2, <3>1, <3>2, <3>3 DEF Harmless, u
  <2> QED BY <1>7, <2>3, <2>4 DEF LaunchFails, u
<1>8. CASE Restart(c) \/ Launch(c) \/ (Find(c) /\ In(u, "running"))
  <2>1. c # "zombies" /\ u \in Tickets /\ mixed' = mixed
    BY <1>1, <1>2, <1>8 DEF Restart, Launch, Find, ZombiePCs
  <2>2. \E r : Turn(call, c, r) /\ r.ticket = None
    BY <1>3, <1>8 DEF Restart, Launch, Find, In, Down, u
  <2>3. /\ \A t \in Tickets \ {u} : In(t, "running")' => In(t, "running")
        /\ \A t \in Tickets \ {u} : t \in strays => t \in strays'
    BY <1>8, <2>1 DEF Restart, Launch, Find, In, IInv, BoxesOK, u
  <2> DEFINE e == [status |-> "RUNNING", id |-> "live", quiet |-> FALSE]
  <2>4. SetStatus(u, "RUNNING") \/ SetRunning(u) \/ registry' = [registry EXCEPT ![u] = e]
    BY <1>8 DEF Restart, Launch, Find, In, Down, Spawned, u
  <2>5. SetStatus(u, "RUNNING") \/ SetRunning(u) =>
            registry'[u] = None \/ registry'[u].status # "STOPPED"
    BY <2>1 DEF SetStatus, SetRunning, IInv, EntriesOK, Entry
  <2>6. registry' = [registry EXCEPT ![u] = e] => registry'[u].status # "STOPPED" /\ NoneStopped
    BY <2>1 DEF IInv, EntriesOK, NoneStopped, Has
  <2>7. NoneStopped
    BY <2>1, <2>4, <2>6, EntrySteps DEF Status
  <2> HIDE DEF e
  <2> QED BY <2>1, <2>2, <2>3, <2>4, <2>5, <2>6, <2>7 DEF StartsIt, OnlyStarts, u
<1>12. CASE (StartFails(c) \/ LaunchFails(c)) /\ Strays(c)
  <2>1. c # "zombies" /\ u \in Tickets /\ mixed' = mixed
    BY <1>1, <1>2, <1>12 DEF StartFails, LaunchFails, ZombiePCs
  <2>2. In(u, "created") /\ box' = [box EXCEPT ![u].state = "running"] /\ strays' = strays \cup {u}
    BY <1>12 DEF Strays, u
  <2>3. box'[u] # None
    BY <2>1, <2>2, NoneAssumption DEF In, IInv, BoxesOK, Box
  <2>4. \E r : Turn(call, c, r) /\ r.ticket = None
    <3>1. box' # [box EXCEPT ![u] = None]
      BY <2>1, <2>3 DEF IInv, BoxesOK
    <3> QED BY <1>3, <1>12, <3>1 DEF StartFails, LaunchFails, u
  <2>5. \A t \in Tickets \ {u} : In(t, "running")' => In(t, "running")
    BY <2>1, <2>2 DEF In, IInv, BoxesOK
  <2>6. NoneStopped
    BY <1>12, <2>1, EntrySteps DEF StartFails, LaunchFails, SpawnThrows, Status, u
  <2> QED BY <2>1, <2>2, <2>4, <2>5, <2>6 DEF StartsIt, OnlyStarts, u
<1>9. CASE Look(c) \/ Halted(c) \/ (DeleteFails(c) /\ ~ Removed(c))
  <2>1. u \in Tickets /\ UNCHANGED <<box, mixed, strays>>
    BY <1>1, <1>9 DEF Look, Halted, DeleteFails
  <2>2. NoneStopped
    BY <1>9, <2>1, EntrySteps DEF Look, Halted, DeleteFails, u
  <2>3. \E r : Turn(call, c, r)
    <3>1. CASE Halted(c)
      <4> DEFINE r == [call[c] EXCEPT !.pc = "remove"]
      <4>1. call' = [call EXCEPT ![c] = r]
        BY <3>1 DEF Halted
      <4>2. r.ticket = call[c].ticket /\ r.pc # "stopping"
        BY <1>2 DEF Call
      <4> HIDE DEF r
      <4> QED BY <4>1, <4>2 DEF Turn
    <3> QED BY <1>3, <1>9, <3>1 DEF Look, DeleteFails
  <2> QED BY <2>1, <2>2, <2>3, BoxSteps DEF Harmless, NoneFound
<1>10. CASE Remove(c) \/ (DeleteFails(c) /\ Removed(c))
  <2>1. u \in Tickets /\ mixed' = mixed
    BY <1>1, <1>10 DEF Remove, DeleteFails
  <2>2. NoneStopped
    BY <1>10, <2>1, EntrySteps DEF Remove, DeleteFails, u
  <2>3. CASE UNCHANGED <<box, strays>> /\ Ends(c)
    BY <1>3, <2>1, <2>2, <2>3, BoxSteps DEF Harmless, NoneFound
  <2>4. CASE Removed(c)
    <3>1. PICK t \in Tickets : t = u
      BY <2>1
    <3>2. NoneStarts /\ ~ In(t, "running")'
      BY <2>4, <3>1, BoxSteps DEF Removed, u
    <3>3. \E r : Turn(Lost(t), c, r)
      BY <1>4, <2>4, <3>1 DEF Removed, u
    <3>4. NoneFound
      BY <2>4, <3>1, <3>2 DEF Removed, NoneFound, u
    <3> QED BY <2>1, <2>2, <3>1, <3>2, <3>3, <3>4 DEF Harmless, u
  <2> QED BY <1>10, <2>3, <2>4 DEF Remove, u
<1>11. CASE LoopEnds(c)
  <2>1. NoneStarts /\ NoneStopped /\ NoneFound /\ mixed' = mixed
    BY <1>11 DEF LoopEnds, NoneStarts, NoneStopped, NoneFound, In, Has
  <2>2. Idle.ticket = None /\ Idle.pc # "stopping"
    BY DEF Idle
  <2>3. Turn(call, c, Idle)
    BY <1>11, <2>2 DEF LoopEnds, Turn
  <2> QED BY <2>1, <2>3 DEF Harmless
<1> QED BY <1>5, <1>6, <1>7, <1>8, <1>9, <1>10, <1>11, <1>12 DEF Steps, Proceeds, Fails

-----------------------------------------------------------------------------
(* The invariant is kept by each kind of step.                                *)
LEMMA DownFrame ==
  ASSUME IInv, DownInv, mixed \subseteq mixed', NoneStarts, NoneStopped, NoneFound,
         \A d \in Requesters :
            /\ call'[d].ticket \in {call[d].ticket, None}
            /\ \A t \in Tickets : call[d].ticket = t /\ call'[d].ticket = t /\ Gone(d)' =>
                                      Gone(d) \/ ~ In(t, "running")'
  PROVE  DownInv'
<1> SUFFICES ASSUME NEW t \in Tickets \ mixed'
             PROVE  (About1(t) /\ GoneIsDown(t) /\ ShownDown(t))'
  BY DEF DownInv
<1>1. About1(t) /\ GoneIsDown(t) /\ ShownDown(t) /\ t # None
  BY TicketsAssumption DEF DownInv
<1>2. About1(t)'
  BY <1>1 DEF About1
<1>3. GoneIsDown(t)'
  BY <1>1 DEF GoneIsDown, NoneStarts
<1>4. ShownDown(t)'
  BY <1>1 DEF ShownDown, NoneStarts, NoneStopped, NoneFound
<1> QED BY <1>2, <1>3, <1>4

LEMMA StepDown ==
  ASSUME IInv, DownInv, NEW c \in Callers, Steps(c)
  PROVE  DownInv'
<1>1. mixed' = mixed
  BY StepKinds
<1>2. call = [d \in Callers |-> call[d]]
  BY DEF IInv, CallsOK
<1>3. ASSUME NEW r, Turn(call, c, r)
      PROVE  \A d \in Callers :
                /\ call'[d].ticket \in {call[d].ticket, None}
                /\ d # c => call'[d] = call[d]
                /\ call'[c] = r
                /\ Gone(d)' => d # c /\ Gone(d)
  BY <1>2, <1>3 DEF Turn, Gone, Same
<1>4. CASE Harmless(c)
  <2>1. CASE \E r : Turn(call, c, r)
    BY <1>1, <1>3, <1>4, <2>1, DownFrame DEF Harmless, Requesters
  <2>2. ASSUME NEW u \in Tickets, u = call[c].ticket, ~ In(u, "running")', NEW r, Turn(Lost(u), c, r)
        PROVE  DownInv'
    <3>1. ASSUME NEW d \in Requesters
          PROVE  /\ call'[d].ticket \in {call[d].ticket, None}
                 /\ \A t \in Tickets : call[d].ticket = t /\ call'[d].ticket = t /\ Gone(d)' =>
                                           Gone(d) \/ ~ In(t, "running")'
      <4>1. CASE d = c
        <5>1. call'[d] = r
          BY <2>2, <4>1, LostCalls DEF Turn, Requesters
        <5> QED BY <2>2, <4>1, <5>1 DEF Turn, Gone, Same
      <4>2. CASE d # c
        <5>1. call'[d] = Lost(u)[d] /\ d \in Callers
          BY <2>2, <4>2, LostCalls DEF Turn, Requesters
        <5> QED BY <2>2, <5>1, LostCalls DEF Gone, Same
      <4> QED BY <4>1, <4>2
    <3> QED BY <1>1, <1>4, <3>1, DownFrame DEF Harmless
  <2> QED BY <1>4, <2>1, <2>2 DEF Harmless
<1>5. CASE c # "zombies" /\ call[c].ticket \in Tickets /\ StopsIt(c)
  <2>1. PICK r : Turn(call, c, r)
    BY <1>5 DEF StopsIt
  <2>2. NoneStarts
    BY <1>5 DEF StopsIt, NoneStarts, In
  <2>3. ASSUME NEW t \in Tickets \ mixed'
        PROVE  (About1(t) /\ GoneIsDown(t) /\ ShownDown(t))'
    <3>1. About1(t) /\ GoneIsDown(t) /\ ShownDown(t) /\ t # None
      BY <1>1, <2>3, TicketsAssumption DEF DownInv
    <3>2. About1(t)'
      BY <1>3, <2>1, <3>1 DEF About1, Requesters
    <3>3. GoneIsDown(t)'
      BY <1>3, <2>1, <2>2, <3>1 DEF GoneIsDown, NoneStarts, Requesters
    <3>4. ShownDown(t)'
      <4>1. CASE call[c].ticket = t
        <5>1. ~ In(t, "running")
          BY <1>5, <3>1, <4>1 DEF StopsIt, GoneIsDown, Requesters
        <5> QED BY <2>2, <5>1 DEF ShownDown, NoneStarts
      <4>2. CASE call[c].ticket # t
        BY <1>5, <2>2, <3>1, <4>2 DEF StopsIt, NoneStarts, ShownDown
      <4> QED BY <4>1, <4>2
    <3> QED BY <3>2, <3>3, <3>4
  <2> QED BY <2>3 DEF DownInv
<1>6. CASE c # "zombies" /\ call[c].ticket \in Tickets /\ StartsIt(c)
  <2>1. PICK r : Turn(call, c, r) /\ r.ticket = None
    BY <1>6 DEF StartsIt
  <2>2. ASSUME NEW t \in Tickets \ mixed'
        PROVE  (About1(t) /\ GoneIsDown(t) /\ ShownDown(t))'
    <3>1. About1(t) /\ GoneIsDown(t) /\ ShownDown(t) /\ t # None
      BY <1>1, <2>2, TicketsAssumption DEF DownInv
    <3>2. About1(t)'
      BY <1>3, <2>1, <3>1 DEF About1, Requesters
    <3>3. CASE call[c].ticket = t
      <4>1. \A d \in Requesters : call'[d].ticket # t
        BY <1>3, <1>6, <2>1, <3>1, <3>3 DEF About1, Requesters
      <4>2. Has(t, "STOPPED")' => t \in strays'
        BY <1>6, <3>3 DEF StartsIt, OnlyStarts, Has
      <4> QED BY <3>2, <4>1, <4>2 DEF GoneIsDown, ShownDown
    <3>4. CASE call[c].ticket # t
      <4>1. /\ In(t, "running")' => In(t, "running")
            /\ Has(t, "STOPPED")' => Has(t, "STOPPED")
            /\ t \in strays => t \in strays'
        BY <1>6, <3>4 DEF StartsIt, OnlyStarts, NoneStopped
      <4>2. GoneIsDown(t)'
        BY <1>3, <2>1, <3>1, <4>1 DEF GoneIsDown, Requesters
      <4> QED BY <3>1, <3>2, <4>1, <4>2 DEF ShownDown
    <3> QED BY <3>3, <3>4
  <2> QED BY <2>2 DEF DownInv
<1> QED BY <1>4, <1>5, <1>6, StepKinds

(* The engine stops and removes containers; the time passes.                  *)
LEMMA WorldDown ==
  ASSUME IInv, DownInv, NEW t \in Tickets,
         Exit(t) \/ Reap(t) \/ Ages(t) \/ Heartbeat(t) \/ FallsQuiet(t)
  PROVE  DownInv'
<1>1. mixed' = mixed
  BY DEF Exit, Reap, Ages, Heartbeat, FallsQuiet
<1>2. NoneStopped
  <2>1. CASE Heartbeat(t) \/ FallsQuiet(t)
    BY <2>1 DEF Heartbeat, FallsQuiet, NoneStopped, Has, IInv, EntriesOK, Entry
  <2>2. CASE Exit(t) \/ Reap(t) \/ Ages(t)
    BY <2>2, EntrySteps DEF Exit, Reap, Ages
  <2> QED BY <2>1, <2>2
<1>3. NoneStarts
  BY BoxSteps DEF Exit, Reap, Ages, Heartbeat, FallsQuiet, In
<1>6. NoneFound
  BY DEF Exit, Reap, Ages, Heartbeat, FallsQuiet, In, NoneFound, IInv, BoxesOK, Box
<1>4. CASE call' = call
  BY <1>1, <1>2, <1>3, <1>4, <1>6, DownFrame DEF Gone, Same
<1>5. CASE Reap(t)
  <2>1. ~ In(t, "running")' /\ call' = Lost(t)
    BY <1>5, BoxSteps DEF Reap
  <2>2. ASSUME NEW d \in Requesters
        PROVE  /\ call'[d].ticket = call[d].ticket /\ call'[d].pc = call[d].pc
               /\ call[d].ticket # t => call'[d].id = call[d].id
    BY <2>1, LostCalls DEF Requesters
  <2> QED BY <1>1, <1>2, <1>3, <1>6, <2>1, <2>2, DownFrame DEF Gone, Same
<1> QED BY <1>4, <1>5 DEF Exit, Ages, Heartbeat, FallsQuiet

(* A step of a timer that is about no ticket.                                 *)
LEMMA TimerDown ==
  ASSUME IInv, DownInv, Zombie \/ Check
  PROVE  DownInv'
<1>1. UNCHANGED <<mixed, box, strays>>
  BY DEF Zombie, Check, ZombiesStart, ZombiesNext, CheckLists, Reconcile
<1>2. NoneStarts /\ NoneFound
  BY <1>1 DEF NoneStarts, NoneFound, In
<1>3. NoneStopped
  BY DEF Zombie, Check, ZombiesStart, ZombiesNext, CheckLists, Reconcile, NoneStopped, Has
<1>4. \A d \in Requesters \ {"check"} : call'[d] = call[d]
  BY DEF Zombie, Check, ZombiesStart, ZombiesNext, CheckLists, Reconcile, IInv, CallsOK, Requesters
<1>5. call'["check"] = call["check"] \/ (call'["check"].ticket = None /\ call'["check"].pc # "stopping")
  <2>1. "check" \in Callers /\ call = [c \in Callers |-> call[c]]
    BY DEF IInv, CallsOK, Callers, Timers
  <2>2. CASE Zombie
    BY <2>1, <2>2 DEF Zombie, ZombiesStart, ZombiesNext
  <2>3. CASE Check
    <3> DEFINE r == [Idle EXCEPT !.op = "check", !.pc = "reconcile", !.listed = Boxed]
    <3>1. r.ticket = None /\ r.pc = "reconcile" /\ Idle.ticket = None /\ Idle.pc = "idle"
      BY DEF Idle
    <3>2. call' = [call EXCEPT !["check"] = r] \/ call' = [call EXCEPT !["check"] = Idle]
      BY <2>3 DEF Check, CheckLists, Reconcile
    <3> HIDE DEF r
    <3>3. call'["check"] = r \/ call'["check"] = Idle
      BY <2>1, <3>2
    <3> QED BY <3>1, <3>3
  <2> QED BY <2>2, <2>3
<1> QED BY <1>1, <1>2, <1>3, <1>4, <1>5, DownFrame DEF Gone, Same

(* A request begins, or the auto-start takes up a role: the ticket is mixed   *)
(* from here on unless no other call is about it.                             *)
LEMMA BeginDown ==
  ASSUME IInv, DownInv, NEW c \in Requesters, NEW u \in Tickets, Mix(u), UNCHANGED <<box, strays>>, NoneStopped,
         NEW r, call' = [call EXCEPT ![c] = r], r.ticket = u, r.pc # "stopping"
  PROVE  DownInv'
<1> SUFFICES ASSUME NEW t \in Tickets \ mixed'
             PROVE  (About1(t) /\ GoneIsDown(t) /\ ShownDown(t))'
  BY DEF DownInv
<1>1. About1(t) /\ GoneIsDown(t) /\ ShownDown(t)
  BY DEF DownInv, Mix
<1>2. \A d \in Requesters : call'[d] = IF d = c THEN r ELSE call[d]
  BY DEF IInv, CallsOK, Requesters
<1>3. NoneStarts
  BY DEF NoneStarts, In
<1>4. u = t => ~ Handled(t)
  BY DEF Mix
<1>5. About1(t)'
  BY <1>1, <1>2, <1>4 DEF About1, Handled, Requesters
<1>6. GoneIsDown(t)'
  BY <1>1, <1>2, <1>3 DEF GoneIsDown, NoneStarts, Gone, Same
<1>7. ShownDown(t)'
  BY <1>1, <1>3 DEF ShownDown, NoneStarts, NoneStopped
<1> QED BY <1>5, <1>6, <1>7

LEMMA RequestDown ==
  ASSUME IInv, DownInv, NEW t \in Tickets,
         (\E c \in Admins : Admin(c, t)) \/ ScaleUp(t) \/ ScaleDown(t)
  PROVE  DownInv'
<1>1. ASSUME NEW c \in Requesters, NEW op, NEW pc, pc # "stopping", Begin(c, op, pc, t), NoneStopped
      PROVE  DownInv'
  <2> DEFINE r == [Idle EXCEPT !.op = op, !.pc = pc, !.ticket = t]
  <2>1. r.ticket = t /\ r.pc = pc
    BY DEF Idle
  <2>2. call' = [call EXCEPT ![c] = r] /\ Mix(t) /\ UNCHANGED <<box, strays>>
    BY <1>1 DEF Begin
  <2> HIDE DEF r
  <2> QED BY <1>1, <2>1, <2>2, BeginDown
<1>2. registry' = registry \/ SetStatus(t, "PENDING") => NoneStopped
  BY EntrySteps DEF Status
<1>3. "scale" \in Requesters /\ Admins \subseteq Requesters
  BY DEF Requesters, Callers, Timers
<1>4. ASSUME NEW c \in Admins, Admin(c, t)
      PROVE  DownInv'
  BY <1>1, <1>2, <1>3, <1>4 DEF Admin, Stop, Delete, Start, Recover, Unblock
<1>5. CASE ScaleUp(t) \/ ScaleDown(t)
  BY <1>1, <1>2, <1>3, <1>5 DEF ScaleUp, ScaleDown
<1> QED BY <1>4, <1>5

LEMMA BootDown ==
  ASSUME IInv, DownInv, NEW t \in Tickets, BootNext(t)
  PROVE  DownInv'
<1>1. "boot" \in Requesters /\ call["boot"] \in Call
  BY CallerType DEF Requesters, Callers, Timers, CallOK
<1>2. CASE registry[t] = None \/ Has(t, "PENDING")
  <2> DEFINE r == [call["boot"] EXCEPT !.pc = "room", !.ticket = t, !.todo = @ \ {t}]
             e == IF registry[t] = None THEN [status |-> "BOOTING", id |-> None, quiet |-> FALSE]
                  ELSE [registry[t] EXCEPT !.status = "BOOTING"]
  <2>1. /\ call' = [call EXCEPT !["boot"] = r] /\ Mix(t) /\ UNCHANGED <<box, strays>>
        /\ registry' = [registry EXCEPT ![t] = e]
    BY <1>2 DEF BootNext, Has
  <2>2. r.ticket = t /\ r.pc # "stopping"
    BY <1>1 DEF Call
  <2>3. e.status # "STOPPED"
    BY DEF IInv, EntriesOK, Entry
  <2> HIDE DEF r, e
  <2>4. NoneStopped
    BY <2>1, <2>3 DEF NoneStopped, Has, IInv, EntriesOK
  <2> QED BY <1>1, <2>1, <2>2, <2>4, BeginDown
<1>3. CASE registry[t] # None /\ ~ Has(t, "PENDING")
  <2> DEFINE r == [call["boot"] EXCEPT !.todo = @ \ {t}]
  <2>1. call' = [call EXCEPT !["boot"] = r] /\ UNCHANGED <<registry, mixed, box, strays>>
    BY <1>3 DEF BootNext, Has
  <2>2. r.ticket = call["boot"].ticket /\ r.pc = call["boot"].pc /\ r.id = call["boot"].id
    BY <1>1 DEF Call
  <2> HIDE DEF r
  <2>3. NoneStarts /\ NoneStopped /\ NoneFound
    BY <2>1 DEF NoneStarts, NoneStopped, NoneFound, In, Has
  <2>4. \A d \in Requesters : call'[d] = IF d = "boot" THEN r ELSE call[d]
    BY <2>1 DEF IInv, CallsOK, Requesters
  <2> QED BY <2>1, <2>2, <2>3, <2>4, DownFrame DEF Gone, Same
<1> QED BY <1>2, <1>3

LEMMA DownInit == Init => DownInv
<1> SUFFICES ASSUME Init PROVE DownInv
  OBVIOUS
<1>1. \A c \in Callers : call[c].ticket = None
  BY DEF Init, Idle
<1>2. \A t \in Tickets : t # None /\ ~ Has(t, "STOPPED")
  BY TicketsAssumption DEF Init, Has
<1> QED BY <1>1, <1>2 DEF DownInv, About1, GoneIsDown, ShownDown, Requesters

LEMMA DownStep == IInv /\ DownInv /\ [Next]_vars => DownInv'
<1> SUFFICES ASSUME IInv, DownInv, [Next]_vars PROVE DownInv'
  OBVIOUS
<1>1. CASE UNCHANGED vars
  BY <1>1 DEF vars, DownInv, About1, GoneIsDown, ShownDown, Gone, Same, Has, In
<1>2. CASE Next
  BY <1>2, WorldDown, RequestDown, BootDown, TimerDown, StepDown DEF Next
<1> QED BY <1>1, <1>2

(* With its requests made one at a time, no worker runs that the registry     *)
(* shows as STOPPED, however the timers, the crashes and the faults of the    *)
(* engine fall between their steps: except one whose start took effect and    *)
(* threw, while nobody has found it.                                          *)
THEOREM StoppedIsAlwaysDown == Spec => []StoppedIsDown
<1>1. IInv /\ DownInv => StoppedIsDown
  BY DEF DownInv, ShownDown, StoppedIsDown
<1> QED BY InitInv, NextInv, DownInit, DownStep, <1>1, PTL DEF Spec
=============================================================================
