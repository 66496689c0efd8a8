--------------------------- MODULE SupervisionProofs ---------------------------
(***************************************************************************)
(* Proofs about Supervision, for any number of tickets, containers and     *)
(* checks in progress at once, and for all failures: how often a ticket is *)
(* respawned, and who owns the Doctor's containers.                        *)
(***************************************************************************)
EXTENDS Supervision, SequenceTheorems, FiniteSetTheorems, WellFoundedInduction, TLAPS

(* The steps of a recovery.                                                     *)
Recovery == {"flapping", "kill", "doctor", "diagnose", "respawn"}

(* The deaths counted pay for the respawns of a ticket, those done and those on *)
(* their way.                                                                   *)
BoundInv ==
    \A t \in Tickets :
        /\ respawned[t] + Cardinality(Recovering(t)) <= deaths[t]
        /\ respawned[t] + Cardinality(Recovering(t)) < FlappingThreshold

(* Only the check that waits for a diagnosis holds a Doctor.                    *)
DoctorInv == DoctorOwned /\ \A s \in Slots : call[s].pc # "diagnose" => call[s].doctor = None

-----------------------------------------------------------------------------
(* The parts of the type.                                                       *)
RegistryTyped == registry \in [Tickets -> Entry \cup {None}] /\ order \in Seq(Tickets)
BoxTyped == box \in [Ids -> Box \cup {None}] /\ strays \subseteq Ids
CountsTyped ==
    /\ misses \in [Tickets -> 0 .. 3] /\ deaths \in [Tickets -> 0 .. FlappingThreshold]
    /\ respawned \in [Tickets -> 0 .. FlappingThreshold]
CallTyped ==
    /\ call \in [Slots -> Call]
    /\ \A s \in Slots : call[s].pc \in Recovery => call[s].ticket # None
HistoryTyped == due \in BOOLEAN /\ submitted \subseteq Tickets /\ done \subseteq Tickets

LEMMA TypeParts ==
    TypeOK <=> RegistryTyped /\ BoxTyped /\ CountsTyped /\ CallTyped /\ HistoryTyped
  BY DEF TypeOK, RegistryTyped, BoxTyped, CountsTyped, CallTyped, HistoryTyped, Recovery

LEMMA Numbers ==
    /\ FlappingThreshold \in Nat /\ FlappingThreshold > 0 /\ DoctorTime \in Nat
    /\ HeartbeatInterval \in Nat /\ DeadThreshold \in Nat
  BY NumbersAssumption DEF DeadThreshold

(* A set of numbers that is not empty has a first.                              *)
LEMMA FirstExists ==
    ASSUME NEW S \in SUBSET Nat, S # {}
    PROVE  \E m \in S : \A n \in S : m <= n
  <1>1. PICK m \in S : \A n \in S : ~ <<n, m>> \in OpToRel(<, Nat)
    BY NatLessThanWellFounded, WFMin
  <1>2. ASSUME NEW n \in S, n < m PROVE FALSE
    <2>1. <<n, m>> \in OpToRel(<, Nat)
      BY <1>2 DEF OpToRel
    <2> QED BY <1>1, <2>1
  <1> QED BY <1>2

(* A new container gets an id that is in nobody's memory.                       *)
LEMMA NewIdFree == ASSUME Ids \ InUse # {} PROVE NewId \in Ids \ InUse
  <1>1. \E i \in Ids \ InUse : \A j \in Ids \ InUse : i <= j
    BY IdsAssumption, FirstExists
  <1> QED BY <1>1 DEF NewId

LEMMA SpawnTyped ==
    ASSUME BoxTyped, NEW t \in Tickets \cup {Doctor}, NEW role \in Roles, Spawn(t, role)
    PROVE  /\ NewId \in Ids \ InUse /\ box' \in [Ids -> Box \cup {None}]
           /\ box' = [box EXCEPT ![NewId] = [ticket |-> t, role |-> role]]
  BY NewIdFree DEF Spawn, BoxTyped, Box

(* The order in which the registry lists its entries.                           *)
LEMMA OrderTyped ==
    ASSUME NEW seq \in Seq(Tickets)
    PROVE  /\ \A t \in Tickets : Enter(seq, t) \in Seq(Tickets) /\ Leave(seq, t) \in Seq(Tickets)
           /\ \A ts : Without(seq, ts) \subseteq Seq(Tickets)
  <1>1. Len(seq) \in Nat /\ \A i \in 1 .. Len(seq) : seq[i] \in Tickets
    BY LenProperties, ElementOfSeq
  <1>2. ASSUME NEW t \in Tickets PROVE Enter(seq, t) \in Seq(Tickets)
    BY AppendProperties DEF Enter
  <1>3. ASSUME NEW t \in Tickets PROVE Leave(seq, t) \in Seq(Tickets)
    <2>1. ASSUME NEW i \in 1 .. Len(seq), seq[i] = t PROVE Leave(seq, t) \in Seq(Tickets)
      <3> DEFINE k == CHOOSE i1 \in 1 .. Len(seq) : seq[i1] = t
                 less == [i1 \in 1 .. Len(seq) - 1 |-> IF i1 < k THEN seq[i1] ELSE seq[i1 + 1]]
      <3>1. Leave(seq, t) = less
        BY <2>1 DEF Leave
      <3>2. Len(seq) - 1 \in Nat
        BY <1>1, <2>1
      <3>3. \A i1 \in 1 .. Len(seq) - 1 : i1 \in 1 .. Len(seq) /\ i1 + 1 \in 1 .. Len(seq)
        BY <1>1
      <3>4. less \in [1 .. Len(seq) - 1 -> Tickets]
        BY <1>1, <3>3
      <3> HIDE DEF less
      <3> QED BY <3>1, <3>2, <3>4, SeqDef
    <2>2. CASE ~ \E i \in 1 .. Len(seq) : seq[i] = t
      BY <2>2 DEF Leave
    <2> QED BY <2>1, <2>2
  <1>4. ASSUME NEW ts, NEW rest \in Without(seq, ts) PROVE rest \in Seq(Tickets)
    <2> DEFINE kept == {i \in 1 .. Len(seq) : seq[i] \notin ts}
    <2>1. Cardinality(kept) \in Nat
      <3>1. IsFiniteSet(1 .. Len(seq))
        BY <1>1, FS_Interval
      <3>2. IsFiniteSet(kept)
        BY <3>1, FS_Subset
      <3> QED BY <3>2, FS_CardinalityType
    <2>2. PICK f \in [1 .. Cardinality(kept) -> kept] : rest = [i \in DOMAIN f |-> seq[f[i]]]
      BY <1>4 DEF Without
    <2>3. rest \in [1 .. Cardinality(kept) -> Tickets]
      <3>1. \A i \in 1 .. Cardinality(kept) : f[i] \in 1 .. Len(seq)
        OBVIOUS
      <3> HIDE DEF kept
      <3> QED BY <1>1, <2>2, <3>1
    <2> HIDE DEF kept
    <2> QED BY <2>1, <2>3, SeqDef
  <1> QED BY <1>2, <1>3, <1>4

(* A check that loses an entry keeps everything but its link to it.             *)
LEMMA DetachTyped ==
    ASSUME NEW c \in Call, NEW t \in Tickets
    PROVE  /\ Detach(c, t) \in Call
           /\ Detach(c, t).pc = c.pc /\ Detach(c, t).ticket = c.ticket /\ Detach(c, t).doctor = c.doctor
  <1>1. CASE t \in c.live
    <2> DEFINE look == IF registry[t].status = "RUNNING" THEN c.look[t] ELSE "gone"
               looks == [c.look EXCEPT ![t] = look]
               live == c.live \ {t}
    <2>1. Detach(c, t) = [c EXCEPT !.live = live, !.look = looks]
      BY <1>1 DEF Detach, Call
    <2>2. c.look \in [Tickets -> Looks] /\ look \in Looks /\ live \in SUBSET Tickets
      BY DEF Call, Looks
    <2>3. looks \in [Tickets -> Looks]
      BY <2>2
    <2> HIDE DEF looks, live
    <2> QED BY <2>1, <2>2, <2>3 DEF Call
  <1>2. CASE t \notin c.live
    BY <1>2 DEF Detach
  <1> QED BY <1>1, <1>2

(* The loop of a check stops at the first worker to recover, or at the end.     *)
LEMMA StopAtExists ==
    ASSUME NEW c \in Call
    PROVE  /\ Len(c.todo) \in Nat /\ StopAt(c) \in 1 .. Len(c.todo) + 1
           /\ StopAt(c) = Len(c.todo) + 1 \/ Stops(c, StopAt(c))
  <1> DEFINE end == Len(c.todo) + 1
             stops == {k \in 1 .. end : k = end \/ Stops(c, k)}
  <1>1. Len(c.todo) \in Nat /\ end \in Nat
    BY LenProperties DEF Call
  <1>2. end \in stops /\ stops \subseteq Nat
    BY <1>1
  <1>3. PICK k \in stops : \A n \in stops : k <= n
    BY <1>2, FirstExists
  <1>4. ASSUME NEW j \in 1 .. k - 1 PROVE ~ Stops(c, j)
    <2>1. j \in 1 .. end /\ j < k
      BY <1>1, <1>2, <1>3
    <2>2. j \notin stops
      BY <1>2, <1>3, <2>1
    <2> QED BY <2>1, <2>2
  <1> QED BY <1>1, <1>3, <1>4 DEF StopAt

(* What the loop leaves: the check at its end, or at the worker t to recover.   *)
LEMMA Visited ==
    ASSUME TypeOK, NEW s \in Slots, NEW c \in Call, Visit(s, c)
    PROVE  /\ misses' \in [Tickets -> 0 .. 3]
           /\ \/ deaths' = deaths /\ call' = [call EXCEPT ![s] = [Idle EXCEPT !.pc = "list"]]
              \/ \E t \in Tickets, d \in Call :
                    /\ deaths' = [deaths EXCEPT ![t] = IF @ < FlappingThreshold THEN @ + 1 ELSE @]
                    /\ call' = [call EXCEPT ![s] = d]
                    /\ d.ticket = t /\ d.pc = (IF Flaps(t) THEN "flapping" ELSE "kill")
                    /\ d.doctor = c.doctor
  <1> DEFINE k == StopAt(c)
             seen == {c.todo[j] : j \in {j \in 1 .. Len(c.todo) : j <= k}}
  <1>1. /\ Len(c.todo) \in Nat /\ k \in 1 .. Len(c.todo) + 1
        /\ \A j \in 1 .. Len(c.todo) : c.todo[j] \in Tickets
    BY StopAtExists, ElementOfSeq, LenProperties DEF Call
  <1>2. misses' \in [Tickets -> 0 .. 3]
    <2>1. misses' = [t \in Tickets |-> IF t \in seen /\ Watched(c, t) THEN Counted(c, t) ELSE misses[t]]
      BY DEF Visit
    <2>2. \A t \in Tickets : misses[t] \in 0 .. 3
      BY DEF TypeOK
    <2>3. ASSUME NEW t \in Tickets PROVE Counted(c, t) \in 0 .. 3
      BY <2>2 DEF Counted, CountsTo
    <2> HIDE DEF seen
    <2> QED BY <2>1, <2>2, <2>3
  <1>3. CASE k = Len(c.todo) + 1
    BY <1>1, <1>2, <1>3 DEF Visit
  <1>4. CASE k <= Len(c.todo)
    <2> DEFINE t == c.todo[k]
               rest == SubSeq(c.todo, k + 1, Len(c.todo))
               look == [u \in Tickets |-> IF u \in seen THEN "gone" ELSE c.look[u]]
               live == c.live \ seen
               pc == IF Flaps(t) THEN "flapping" ELSE "kill"
               role == RoleOf(t)
               d == [c EXCEPT !.pc = pc, !.todo = rest, !.look = look, !.live = live,
                              !.ticket = t, !.role = role]
    <2>1. t \in Tickets
      BY <1>1, <1>4
    <2>2. rest \in Seq(Tickets)
      BY <1>1, <1>4, SubSeqProperties DEF Call
    <2>3. look \in [Tickets -> Looks] /\ live \in SUBSET Tickets /\ pc \in {"flapping", "kill"} /\ pc \in PC
      BY DEF Call, Looks, PC
    <2>4. role \in Roles
      BY <2>1 DEF RoleOf, TypeOK, Entry, Roles
    <2>5. /\ deaths' = [deaths EXCEPT ![t] = IF @ < FlappingThreshold THEN @ + 1 ELSE @]
          /\ call' = [call EXCEPT ![s] = d]
      BY <1>1, <1>4 DEF Visit
    <2>6. d \in Call /\ d.ticket = t /\ d.pc = pc /\ d.doctor = c.doctor
      <3> HIDE DEF t, rest, look, live, pc, role
      <3> QED BY <2>1, <2>2, <2>3, <2>4 DEF Call
    <2> HIDE DEF d
    <2> QED BY <1>2, <2>1, <2>5, <2>6
  <1> QED BY <1>1, <1>3, <1>4

LEMMA IdleTyped ==
    /\ Idle \in Call /\ Idle.ticket = None /\ Idle.doctor = None /\ Idle.pc = "idle"
    /\ [Idle EXCEPT !.pc = "list"] \in Call
  <1>1. << >> \in Seq(Tickets) /\ 0 \in 0 .. DoctorTime
    BY EmptySeq, Numbers
  <1> QED BY <1>1 DEF Idle, Call, PC, Looks, Roles

(* A check that another one's step leaves where it is.                          *)
Kept(r) ==
    call'[r].pc = call[r].pc /\ call'[r].ticket = call[r].ticket /\ call'[r].doctor = call[r].doctor

LEMMA CallSet ==
    ASSUME CallTyped, NEW s \in Slots, NEW d \in Call, d.pc \in Recovery => d.ticket # None,
           call' = [call EXCEPT ![s] = d]
    PROVE  CallTyped' /\ call'[s] = d /\ \A r \in Slots \ {s} : Kept(r)
  BY DEF CallTyped, Kept

(* The steps of a check that run its loop.                                      *)
Loops(s) == CheckStarts(s) \/ CheckGoesOn(s) \/ KillFails(s) \/ RespawnFails(s) \/ RespawnLost(s)

LEMMA LoopStep ==
    ASSUME TypeOK, NEW s \in Slots, Loops(s)
    PROVE  /\ CallTyped' /\ misses' \in [Tickets -> 0 .. 3] /\ \A r \in Slots \ {s} : Kept(r)
           /\ call[s].pc \notin {"doctor", "diagnose"}
           /\ UNCHANGED <<registry, order, submitted, done, strays>>
           /\ UNCHANGED respawned \/ RespawnLost(s)
           /\ \/ deaths' = deaths /\ call'[s].pc = "list" /\ call'[s].ticket = None /\ call'[s].doctor = None
              \/ \E t \in Tickets :
                    /\ deaths' = [deaths EXCEPT ![t] = IF @ < FlappingThreshold THEN @ + 1 ELSE @]
                    /\ call'[s].ticket = t /\ call'[s].pc = (IF Flaps(t) THEN "flapping" ELSE "kill")
                    /\ call'[s].doctor \in {None, call[s].doctor}
  <1>0. CallTyped /\ call[s] \in Call
    BY TypeParts DEF CallTyped
  <1>1. PICK c \in Call : Visit(s, c) /\ c.doctor \in {None, call[s].doctor}
    <2>1. CASE CheckStarts(s)
      <3> DEFINE look == [t \in Tickets |-> IF registry[t] = None THEN "gone" ELSE Look(registry[t].age)]
                 c == [Idle EXCEPT !.todo = order, !.live = Registered, !.look = look]
      <3>1. look \in [Tickets -> Looks]
        BY DEF Look, Looks
      <3>2. order \in Seq(Tickets) /\ Registered \in SUBSET Tickets
        BY DEF TypeOK, Registered
      <3>3. c \in Call /\ c.doctor = None
        <4> HIDE DEF look
        <4> QED BY <3>1, <3>2, IdleTyped DEF Call
      <3>4. Visit(s, c)
        BY <2>1 DEF CheckStarts
      <3> HIDE DEF c
      <3> QED BY <3>3, <3>4
    <2>2. CASE CheckGoesOn(s) \/ KillFails(s) \/ RespawnFails(s) \/ RespawnLost(s)
      <3> DEFINE c == [call[s] EXCEPT !.pc = "check", !.ticket = None, !.role = "own"]
      <3>1. c \in Call /\ c.doctor = call[s].doctor
        BY <1>0 DEF Call, PC, Roles
      <3>2. Visit(s, c)
        BY <2>2 DEF CheckGoesOn, KillFails, RespawnFails, RespawnLost, GoOn
      <3> HIDE DEF c
      <3> QED BY <3>1, <3>2
    <2> QED BY <2>1, <2>2 DEF Loops
  <1>2. /\ call[s].pc \notin {"doctor", "diagnose"}
        /\ UNCHANGED <<registry, order, submitted, done, strays>>
        /\ UNCHANGED respawned \/ RespawnLost(s)
    BY DEF Loops, CheckStarts, CheckGoesOn, KillFails, RespawnFails, RespawnLost
  <1>3. CASE deaths' = deaths /\ call' = [call EXCEPT ![s] = [Idle EXCEPT !.pc = "list"]]
    <2> DEFINE d == [Idle EXCEPT !.pc = "list"]
    <2>1. d \in Call /\ d.pc = "list" /\ d.ticket = None /\ d.doctor = None
      BY IdleTyped DEF Idle
    <2> HIDE DEF d
    <2>2. call' = [call EXCEPT ![s] = d]
      BY <1>3 DEF d
    <2>3. CallTyped' /\ call'[s] = d /\ \A r \in Slots \ {s} : Kept(r)
      BY <1>0, <2>1, <2>2, CallSet DEF Recovery
    <2> QED BY <1>1, <1>2, <1>3, <2>1, <2>3, Visited
  <1>4. ASSUME NEW t \in Tickets, NEW d \in Call,
               deaths' = [deaths EXCEPT ![t] = IF @ < FlappingThreshold THEN @ + 1 ELSE @],
               call' = [call EXCEPT ![s] = d], d.ticket = t,
               d.pc = (IF Flaps(t) THEN "flapping" ELSE "kill"), d.doctor = c.doctor
        PROVE  /\ CallTyped' /\ \A r \in Slots \ {s} : Kept(r)
               /\ call'[s].ticket = t /\ call'[s].pc = (IF Flaps(t) THEN "flapping" ELSE "kill")
               /\ call'[s].doctor \in {None, call[s].doctor}
    <2>1. CallTyped' /\ call'[s] = d /\ \A r \in Slots \ {s} : Kept(r)
      BY <1>0, <1>4, NoneAssumption, CallSet
    <2> QED BY <1>1, <1>4, <2>1
  <1> QED BY <1>1, <1>2, <1>3, <1>4, Visited

(* The other steps of a check, one by one.                                      *)
LEMMA KillDeadStep ==
    ASSUME TypeOK, NEW s \in Slots, KillDead(s)
    PROVE  /\ CallTyped' /\ \A r \in Slots \ {s} : Kept(r)
           /\ call[s].pc = "kill" /\ call[s].ticket \in Tickets
           /\ call'[s].pc = "doctor" /\ call'[s].ticket = call[s].ticket /\ call'[s].doctor = call[s].doctor
  <1> DEFINE t == call[s].ticket
             left == [r \in Slots |-> Detach(call[r], t)]
  <1>1. CallTyped /\ call[s].pc = "kill" /\ t \in Tickets
    BY TypeParts DEF KillDead, CallTyped, Call, Recovery
  <1>2. left \in [Slots -> Call] /\ \A r \in Slots :
            left[r].pc = call[r].pc /\ left[r].ticket = call[r].ticket /\ left[r].doctor = call[r].doctor
    BY <1>1, DetachTyped DEF CallTyped
  <1>3. call' = [left EXCEPT ![s].pc = "doctor"]
    BY DEF KillDead
  <1> HIDE DEF left
  <1>4. [left[s] EXCEPT !.pc = "doctor"] \in Call
    BY <1>2 DEF Call, PC
  <1>5. call' \in [Slots -> Call] /\ call'[s] = [left[s] EXCEPT !.pc = "doctor"]
        /\ \A r \in Slots \ {s} : call'[r] = left[r]
    BY <1>2, <1>3, <1>4
  <1>6. call'[s].pc = "doctor" /\ call'[s].ticket = t /\ call'[s].doctor = call[s].doctor
    BY <1>2, <1>5 DEF Call
  <1>7. \A r \in Slots \ {s} : Kept(r)
    BY <1>2, <1>5 DEF Kept
  <1>8. \A r \in Slots : call'[r].pc \in Recovery => call'[r].ticket # None
    BY <1>1, <1>6, <1>7, NoneAssumption DEF CallTyped, Kept
  <1> QED BY <1>1, <1>5, <1>6, <1>7, <1>8 DEF CallTyped

LEMMA DoctorStartsStep ==
    ASSUME TypeOK, NEW s \in Slots, DoctorStarts(s)
    PROVE  /\ CallTyped' /\ \A r \in Slots \ {s} : Kept(r)
           /\ call[s].pc = "doctor" /\ call'[s].pc = "diagnose" /\ call'[s].ticket = call[s].ticket
           /\ call'[s].doctor = NewId /\ NewId \in Ids \ InUse
           /\ box' = [box EXCEPT ![NewId] = [ticket |-> Doctor, role |-> "own"]]
  <1> DEFINE d == [call[s] EXCEPT !.pc = "diagnose", !.doctor = NewId, !.wait = DoctorTime]
  <1>0. CallTyped /\ BoxTyped /\ call[s] \in Call /\ "own" \in Roles
    BY TypeParts DEF CallTyped, Roles
  <1>1. NewId \in Ids \ InUse /\ box' = [box EXCEPT ![NewId] = [ticket |-> Doctor, role |-> "own"]]
    BY <1>0, SpawnTyped DEF DoctorStarts
  <1>2. DoctorTime \in 0 .. DoctorTime
    BY Numbers
  <1>3. d \in Call /\ d.pc = "diagnose" /\ d.ticket = call[s].ticket /\ d.doctor = NewId
    BY <1>0, <1>1, <1>2 DEF Call, PC
  <1>4. call' = [call EXCEPT ![s] = d] /\ call[s].pc = "doctor"
    BY <1>0 DEF DoctorStarts, CallTyped
  <1> HIDE DEF d
  <1>5. CallTyped' /\ call'[s] = d /\ \A r \in Slots \ {s} : Kept(r)
    BY <1>0, <1>3, <1>4, CallSet DEF CallTyped, Recovery
  <1> QED BY <1>1, <1>3, <1>4, <1>5

LEMMA DoctorLeavesStep ==
    ASSUME TypeOK, NEW s \in Slots, DoctorFails(s) \/ DoctorEnds(s)
    PROVE  /\ CallTyped' /\ \A r \in Slots \ {s} : Kept(r)
           /\ call[s].pc \in {"doctor", "diagnose"} /\ call'[s].pc = "respawn"
           /\ call'[s].ticket = call[s].ticket
           /\ call'[s].doctor = IF call[s].pc = "doctor" THEN call[s].doctor ELSE None
  <1> DEFINE doctor == IF call[s].pc = "doctor" THEN call[s].doctor ELSE None
             d == [call[s] EXCEPT !.pc = "respawn", !.doctor = doctor]
  <1>0. CallTyped /\ call[s] \in Call /\ doctor \in Ids \cup {None}
    BY TypeParts DEF CallTyped, Call
  <1>1. call' = [call EXCEPT ![s] = d] /\ call[s].pc \in {"doctor", "diagnose"}
    BY <1>0 DEF DoctorFails, DoctorEnds, CallTyped, Call
  <1>2. d \in Call /\ d.pc = "respawn" /\ d.ticket = call[s].ticket /\ d.doctor = doctor
    <2> HIDE DEF doctor
    <2> QED BY <1>0 DEF Call, PC
  <1> HIDE DEF d
  <1>3. CallTyped' /\ call'[s] = d /\ \A r \in Slots \ {s} : Kept(r)
    BY <1>0, <1>1, <1>2, CallSet DEF CallTyped, Recovery
  <1> QED BY <1>1, <1>2, <1>3

LEMMA RespawnStep ==
    ASSUME TypeOK, NEW s \in Slots, Respawn(s)
    PROVE  /\ CallTyped' /\ \A r \in Slots \ {s} : Kept(r)
           /\ call[s].pc = "respawn" /\ call[s].ticket \in Tickets
           /\ call'[s].pc = "check" /\ call'[s].ticket = None /\ call'[s].doctor = call[s].doctor
           /\ NewId \in Ids \ InUse
           /\ box' = [box EXCEPT ![NewId] = [ticket |-> call[s].ticket, role |-> call[s].role]]
  <1> DEFINE t == call[s].ticket
             left == [r \in Slots |-> Detach(call[r], t)]
             d == [left[s] EXCEPT !.pc = "check", !.ticket = None, !.role = "own"]
  <1>1. /\ CallTyped /\ BoxTyped /\ call[s].pc = "respawn" /\ t \in Tickets /\ call[s].role \in Roles
    BY TypeParts DEF Respawn, CallTyped, Call, Recovery
  <1>2. left \in [Slots -> Call] /\ \A r \in Slots :
            left[r].pc = call[r].pc /\ left[r].ticket = call[r].ticket /\ left[r].doctor = call[r].doctor
    BY <1>1, DetachTyped DEF CallTyped
  <1>3. call' = [left EXCEPT ![s].pc = "check", ![s].ticket = None, ![s].role = "own"]
    BY DEF Respawn
  <1>4. NewId \in Ids \ InUse /\ box' = [box EXCEPT ![NewId] = [ticket |-> t, role |-> call[s].role]]
    BY <1>1, SpawnTyped DEF Respawn
  <1> HIDE DEF left
  <1>5. d \in Call /\ d.pc = "check" /\ d.ticket = None /\ d.doctor = call[s].doctor
    <2>1. left[s] \in Call /\ left[s].doctor = call[s].doctor
      BY <1>2
    <2> QED BY <2>1 DEF Call, PC, Roles
  <1>6. call' \in [Slots -> Call] /\ call'[s] = d /\ \A r \in Slots \ {s} : call'[r] = left[r]
    BY <1>2, <1>3, <1>5
  <1>7. \A r \in Slots \ {s} : Kept(r)
    BY <1>2, <1>6 DEF Kept
  <1> HIDE DEF d
  <1>8. \A r \in Slots : call'[r].pc \in Recovery => call'[r].ticket # None
    BY <1>1, <1>5, <1>6, <1>7 DEF CallTyped, Kept, Recovery
  <1> QED BY <1>1, <1>4, <1>5, <1>6, <1>7, <1>8 DEF CallTyped

(* A respawn that is lost has put a worker up, and is counted.                  *)
LEMMA LostStep ==
    ASSUME TypeOK, NEW s \in Slots, RespawnLost(s)
    PROVE  /\ call[s].pc = "respawn" /\ call[s].ticket \in Tickets /\ call[s].role \in Roles
           /\ Spawn(call[s].ticket, call[s].role) /\ Respawned(call[s].ticket) /\ UNCHANGED strays
  <1>1. CallTyped
    BY TypeParts
  <1> QED BY <1>1 DEF RespawnLost, LostSpawn, CallTyped, Call, Recovery

LEMMA ListStep ==
    ASSUME TypeOK, NEW s \in Slots, ListBoxes(s) \/ ListFails(s) \/ Reconcile(s)
    PROVE  /\ CallTyped' /\ \A r \in Slots \ {s} : Kept(r)
           /\ call[s].pc \in {"list", "reconcile"} /\ call'[s].pc \in {"idle", "reconcile"}
           /\ call'[s].ticket \in {None, call[s].ticket} /\ call'[s].doctor \in {None, call[s].doctor}
  <1>0. CallTyped /\ call \in [Slots -> Call]
    BY TypeParts DEF CallTyped
  <1>1. CASE ListBoxes(s)
    <2> DEFINE d == [call[s] EXCEPT !.pc = "reconcile", !.listed = Up]
    <2>1. d \in Call /\ d.pc = "reconcile" /\ d.ticket = call[s].ticket /\ d.doctor = call[s].doctor
      BY <1>0 DEF Call, PC, Up
    <2>2. call' = [call EXCEPT ![s] = d] /\ call[s].pc = "list"
      BY <1>0, <1>1 DEF ListBoxes
    <2> HIDE DEF d
    <2>3. CallTyped' /\ call'[s] = d /\ \A r \in Slots \ {s} : Kept(r)
      BY <1>0, <2>1, <2>2, CallSet DEF Recovery
    <2> QED BY <2>1, <2>2, <2>3
  <1>2. CASE ListFails(s)
    <2>1. CallTyped' /\ call'[s] = Idle /\ \A r \in Slots \ {s} : Kept(r)
      BY <1>0, <1>2, IdleTyped, CallSet DEF ListFails, Recovery
    <2> QED BY <1>2, <2>1, IdleTyped DEF ListFails
  <1>3. CASE Reconcile(s)
    <2> DEFINE lost == {t \in Tickets : Phantom(s, t)}
    <2>1. /\ call[s].pc = "reconcile"
          /\ call' = [r \in Slots |-> IF r = s THEN Idle ELSE [call[r] EXCEPT !.live = @ \ lost]]
      BY <1>3 DEF Reconcile
    <2> HIDE DEF lost
    <2>2. ASSUME NEW r \in Slots
          PROVE  [call[r] EXCEPT !.live = @ \ lost] \in Call
      BY <1>0 DEF Call
    <2>3. call' \in [Slots -> Call] /\ call'[s] = Idle
      BY <2>1, <2>2, IdleTyped
    <2>4. ASSUME NEW r \in Slots \ {s} PROVE Kept(r)
      BY <1>0, <2>1 DEF Kept, Call
    <2>5. \A r \in Slots : call'[r].pc \in Recovery => call'[r].ticket # None
      BY <1>0, <2>3, <2>4, IdleTyped DEF CallTyped, Kept, Recovery
    <2> QED BY <2>1, <2>3, <2>4, <2>5, IdleTyped DEF CallTyped
  <1> QED BY <1>1, <1>2, <1>3

(* The world and the clock move no check, but may detach an entry of one.       *)
LEMMA WorldStep ==
    ASSUME TypeOK, World \/ Tick
    PROVE  CallTyped' /\ (\A r \in Slots : Kept(r)) /\ UNCHANGED <<deaths, respawned>>
  <1>0. CallTyped /\ call \in [Slots -> Call]
    BY TypeParts DEF CallTyped
  <1>1. ASSUME call' \in [Slots -> Call], \A r \in Slots : Kept(r), UNCHANGED <<deaths, respawned>>
        PROVE  CallTyped' /\ (\A r \in Slots : Kept(r)) /\ UNCHANGED <<deaths, respawned>>
    BY <1>0, <1>1 DEF CallTyped, Kept
  <1>2. ASSUME UNCHANGED <<call, deaths, respawned>>
        PROVE  CallTyped' /\ (\A r \in Slots : Kept(r)) /\ UNCHANGED <<deaths, respawned>>
    BY <1>0, <1>2 DEF CallTyped, Kept
  <1>3. ASSUME NEW t \in Tickets, call' = [s \in Slots |-> Detach(call[s], t)]
        PROVE  call' \in [Slots -> Call] /\ \A r \in Slots : Kept(r)
    <2>1. ASSUME NEW r \in Slots PROVE Detach(call[r], t) \in Call /\ Kept(r)
      BY <1>0, <1>3, DetachTyped DEF Kept
    <2> QED BY <1>3, <2>1
  <1>4. ASSUME NEW t \in Tickets, Plane(t) \/ PlaneStarts(t)
        PROVE  UNCHANGED <<call, deaths, respawned>>
    BY <1>4 DEF Plane, PlaneStarts
  <1>5. ASSUME NEW t \in Tickets, PlaneFails(t)
        PROVE  call' = [s \in Slots |-> Detach(call[s], t)] /\ UNCHANGED <<deaths, respawned>>
    BY <1>5 DEF PlaneFails
  <1>6. ASSUME NEW t \in Tickets, Heartbeat(t)
        PROVE  call' \in [Slots -> Call] /\ (\A r \in Slots : Kept(r)) /\ UNCHANGED <<deaths, respawned>>
    <2> DEFINE beat(c) == IF t \in c.live THEN [c EXCEPT !.look[t] = "healthy"] ELSE c
    <2>1. ASSUME NEW c \in Call
          PROVE  beat(c) \in Call /\ beat(c).pc = c.pc /\ beat(c).ticket = c.ticket /\ beat(c).doctor = c.doctor
      <3> DEFINE looks == [c.look EXCEPT ![t] = "healthy"]
      <3>1. c.look \in [Tickets -> Looks] /\ looks \in [Tickets -> Looks]
        BY DEF Call, Looks
      <3>2. beat(c) = c \/ beat(c) = [c EXCEPT !.look = looks]
        BY DEF Call
      <3> HIDE DEF looks, beat
      <3> QED BY <3>1, <3>2 DEF Call
    <2>2. call' = [s \in Slots |-> beat(call[s])] /\ UNCHANGED <<deaths, respawned>>
      BY <1>6 DEF Heartbeat
    <2> HIDE DEF beat
    <2> QED BY <1>0, <2>1, <2>2 DEF Kept
  <1>7. ASSUME NEW i \in Ids, Completes(i)
        PROVE  \E t \in Tickets : call' = [s \in Slots |-> Detach(call[s], t)] /\ UNCHANGED <<deaths, respawned>>
    BY <1>7 DEF Completes
  <1>8. ASSUME NEW i \in Ids, Exits(i) PROVE UNCHANGED <<call, deaths, respawned>>
    BY <1>8 DEF Exits
  <1>9. ASSUME Tick
        PROVE  call' \in [Slots -> Call] /\ (\A r \in Slots : Kept(r)) /\ UNCHANGED <<deaths, respawned>>
    <2>1. ASSUME NEW c \in Call
          PROVE  /\ [c EXCEPT !.wait = IF @ > 0 THEN @ - 1 ELSE 0] \in Call
                 /\ [c EXCEPT !.wait = IF @ > 0 THEN @ - 1 ELSE 0].pc = c.pc
                 /\ [c EXCEPT !.wait = IF @ > 0 THEN @ - 1 ELSE 0].ticket = c.ticket
                 /\ [c EXCEPT !.wait = IF @ > 0 THEN @ - 1 ELSE 0].doctor = c.doctor
      <3> DEFINE wait == IF c.wait > 0 THEN c.wait - 1 ELSE 0
      <3>1. wait \in 0 .. DoctorTime
        BY Numbers DEF Call
      <3> HIDE DEF wait
      <3>2. [c EXCEPT !.wait = IF @ > 0 THEN @ - 1 ELSE 0] = [c EXCEPT !.wait = wait]
        BY DEF wait, Call
      <3>3. [c EXCEPT !.wait = wait] \in Call
        BY <3>1 DEF Call
      <3> QED BY <3>2, <3>3 DEF Call
    <2>2. call' = [s \in Slots |-> [call[s] EXCEPT !.wait = IF @ > 0 THEN @ - 1 ELSE 0]]
      BY <1>9 DEF Tick
    <2>3. UNCHANGED <<deaths, respawned>>
      BY <1>9 DEF Tick
    <2> QED BY <1>0, <2>1, <2>2, <2>3 DEF Kept
  <1> QED BY <1>1, <1>2, <1>3, <1>4, <1>5, <1>6, <1>7, <1>8, <1>9 DEF World, Starting

-----------------------------------------------------------------------------
(* The registry: its entries and their order.                                   *)
LEMMA EntriesTyped ==
    ASSUME TypeOK
    PROVE  /\ 0 \in Age /\ Age \subseteq Nat /\ Roles = {"own", "default"}
           /\ \A ts : Forget(ts) \in [Tickets -> Entry \cup {None}]
           /\ \A t \in Tickets : registry[t] # None => registry[t] \in Entry
           /\ \A e \in Entry : [e EXCEPT !.age = 0] \in Entry /\ [e EXCEPT !.age = Older(e.age)] \in Entry
           /\ \A e \in Entry, i \in Ids : [e EXCEPT !.id = i, !.status = "RUNNING"] \in Entry
  <1>1. 0 \in Age /\ Age \subseteq Nat /\ Roles = {"own", "default"}
    BY Numbers DEF Age, Roles
  <1>2. \A ts : Forget(ts) \in [Tickets -> Entry \cup {None}]
    BY DEF Forget, TypeOK
  <1>3. \A t \in Tickets : registry[t] # None => registry[t] \in Entry
    BY DEF TypeOK
  <1>4. ASSUME NEW e \in Entry PROVE [e EXCEPT !.age = 0] \in Entry /\ [e EXCEPT !.age = Older(e.age)] \in Entry
    <2> DEFINE older == Older(e.age)
    <2>1. older \in Age
      BY Numbers DEF Older, Age, Entry
    <2> HIDE DEF older
    <2>2. [e EXCEPT !.age = older] \in Entry
      BY <2>1 DEF Entry
    <2>3. [e EXCEPT !.age = 0] \in Entry
      BY <1>1 DEF Entry
    <2> QED BY <2>2, <2>3 DEF older
  <1>5. ASSUME NEW e \in Entry, NEW i \in Ids PROVE [e EXCEPT !.id = i, !.status = "RUNNING"] \in Entry
    BY DEF Entry
  <1> QED BY <1>1, <1>2, <1>3, <1>4, <1>5

LEMMA StepRegistry == TypeOK /\ [Next]_vars => RegistryTyped'
  <1> SUFFICES ASSUME TypeOK, RegistryTyped, BoxTyped, CallTyped, [Next]_vars PROVE RegistryTyped'
    BY TypeParts
  <1>0. order \in Seq(Tickets) /\ registry \in [Tickets -> Entry \cup {None}]
    BY DEF RegistryTyped
  <1>1. ASSUME UNCHANGED <<registry, order>> PROVE RegistryTyped'
    BY <1>0, <1>1 DEF RegistryTyped
  <1>2. ASSUME NEW t \in Tickets, registry' = Forget({t}), order' = Leave(order, t) PROVE RegistryTyped'
    BY <1>0, <1>2, EntriesTyped, OrderTyped DEF RegistryTyped
  <1>3. CASE World
    <2>1. ASSUME NEW t \in Tickets, Plane(t) PROVE RegistryTyped'
      <3> DEFINE new == [status |-> "BOOTING", id |-> None, role |-> "own", age |-> 0]
      <3>1. new \in Entry
        BY EntriesTyped DEF Entry
      <3>2. registry' = [registry EXCEPT ![t] = new] /\ order' = Enter(order, t)
        BY <2>1 DEF Plane
      <3> HIDE DEF new
      <3> QED BY <1>0, <3>1, <3>2, OrderTyped DEF RegistryTyped
    <2>2. ASSUME NEW t \in Tickets, PlaneStarts(t) PROVE RegistryTyped'
      <3>1. NewId \in Ids
        BY <2>2, SpawnTyped DEF PlaneStarts, Roles
      <3>2. registry[t] \in Entry /\ order' = order
        BY <2>2, EntriesTyped DEF PlaneStarts, Booting
      <3>3. registry' = [registry EXCEPT ![t] = [registry[t] EXCEPT !.id = NewId, !.status = "RUNNING"]]
        BY <1>0, <2>2 DEF PlaneStarts
      <3>4. [registry[t] EXCEPT !.id = NewId, !.status = "RUNNING"] \in Entry
        BY <3>1, <3>2, EntriesTyped
      <3> QED BY <1>0, <3>2, <3>3, <3>4 DEF RegistryTyped
    <2>3. ASSUME NEW t \in Tickets, PlaneFails(t) PROVE RegistryTyped'
      BY <1>2, <2>3 DEF PlaneFails
    <2>4. ASSUME NEW t \in Tickets, Heartbeat(t) PROVE RegistryTyped'
      <3>1. order' = order /\ (registry' = registry \/
              (registry[t] # None /\ registry' = [registry EXCEPT ![t] = [registry[t] EXCEPT !.age = 0]]))
        BY <1>0, <2>4 DEF Heartbeat
      <3>2. registry[t] # None => [registry[t] EXCEPT !.age = 0] \in Entry
        BY EntriesTyped
      <3> QED BY <1>0, <3>1, <3>2 DEF RegistryTyped
    <2>5. ASSUME NEW i \in Ids, Completes(i) PROVE RegistryTyped'
      BY <1>2, <2>5 DEF Completes
    <2>6. ASSUME NEW i \in Ids, Exits(i) PROVE RegistryTyped'
      BY <1>1, <2>6 DEF Exits
    <2> QED BY <1>3, <2>1, <2>2, <2>3, <2>4, <2>5, <2>6 DEF World, Starting
  <1>4. CASE Tick
    <2>1. order' = order /\ registry' = [t \in Tickets |-> IF registry[t] = None THEN None
                                            ELSE [registry[t] EXCEPT !.age = Older(registry[t].age)]]
      BY <1>4 DEF Tick
    <2>2. \A t \in Tickets : registry[t] # None => [registry[t] EXCEPT !.age = Older(registry[t].age)] \in Entry
      BY EntriesTyped
    <2> QED BY <1>0, <2>1, <2>2 DEF RegistryTyped
  <1>5. ASSUME NEW s \in Slots, Checks(s) PROVE RegistryTyped'
    <2>1. CASE Loops(s)
      BY <1>1, <2>1, LoopStep
    <2>2. CASE KillDead(s)
      BY <1>2, <2>2, KillDeadStep DEF KillDead
    <2>3. CASE DoctorStarts(s) \/ DoctorFails(s) \/ DoctorEnds(s) \/ ListBoxes(s) \/ ListFails(s)
      BY <1>1, <2>3 DEF DoctorStarts, DoctorFails, DoctorEnds, ListBoxes, ListFails
    <2>4. CASE Respawn(s)
      <3> DEFINE t == call[s].ticket
                 new == [status |-> "RUNNING", id |-> NewId, role |-> call[s].role, age |-> 0]
      <3>1. t \in Tickets /\ NewId \in Ids /\ call[s].role \in Roles
        BY <2>4, RespawnStep DEF CallTyped, Call
      <3>2. new \in Entry
        BY <3>1, EntriesTyped DEF Entry
      <3>3. registry' = [registry EXCEPT ![t] = new] /\ order' = Enter(order, t)
        BY <2>4 DEF Respawn
      <3> HIDE DEF new, t
      <3> QED BY <1>0, <3>1, <3>2, <3>3, OrderTyped DEF RegistryTyped
    <2>5. CASE Reconcile(s)
      BY <1>0, <2>5, EntriesTyped, OrderTyped DEF Reconcile, RegistryTyped
    <2> QED BY <1>5, <2>1, <2>2, <2>3, <2>4, <2>5 DEF Checks, Loops
  <1>6. CASE UNCHANGED vars
    BY <1>1, <1>6 DEF vars
  <1> QED BY <1>3, <1>4, <1>5, <1>6 DEF Next

(* The containers, and the Doctors left up by calls that failed.                *)
LEMMA StepBox == TypeOK /\ [Next]_vars => BoxTyped'
  <1> SUFFICES ASSUME TypeOK, BoxTyped, CallTyped, [Next]_vars PROVE BoxTyped'
    BY TypeParts
  <1>1. ASSUME UNCHANGED box \/ (\E ids : Gone(ids)), strays' \subseteq Ids PROVE BoxTyped'
    BY <1>1 DEF BoxTyped, Gone
  <1>2. ASSUME NEW t \in Tickets \cup {Doctor}, NEW role \in Roles, Spawn(t, role),
               strays' \subseteq strays \cup {NewId}
        PROVE  BoxTyped'
    BY <1>2, SpawnTyped DEF BoxTyped
  <1>3. strays \subseteq Ids /\ "own" \in Roles
    BY DEF BoxTyped, Roles
  <1>4. CASE World
    <2>1. ASSUME NEW t \in Tickets, Plane(t) \/ Heartbeat(t) PROVE BoxTyped'
      BY <1>1, <1>3, <2>1 DEF Plane, Heartbeat
    <2>2. ASSUME NEW t \in Tickets, PlaneStarts(t) \/ PlaneFails(t) PROVE BoxTyped'
      <3>1. Spawn(t, "own") \/ UNCHANGED box
        BY <2>2 DEF PlaneStarts, PlaneFails, NotSpawned, LostSpawn
      <3>2. UNCHANGED strays
        BY <2>2 DEF PlaneStarts, PlaneFails
      <3> QED BY <1>1, <1>2, <1>3, <3>1, <3>2
    <2>3. ASSUME NEW i \in Ids, Completes(i) \/ Exits(i) PROVE BoxTyped'
      BY <1>1, <1>3, <2>3 DEF Completes, Exits
    <2> QED BY <1>4, <2>1, <2>2, <2>3 DEF World, Starting
  <1>5. CASE Tick
    BY <1>1, <1>3, <1>5 DEF Tick
  <1>6. ASSUME NEW s \in Slots, Checks(s) PROVE BoxTyped'
    <2>1. CASE CheckStarts(s) \/ CheckGoesOn(s) \/ RespawnFails(s)
      BY <1>1, <1>3, <2>1 DEF CheckStarts, CheckGoesOn, RespawnFails, NotSpawned
    <2>2. CASE KillDead(s) \/ KillFails(s)
      BY <1>1, <1>3, <2>2 DEF KillDead, KillFails
    <2>3. CASE DoctorStarts(s)
      BY <1>2, <1>3, <2>3 DEF DoctorStarts
    <2>4. CASE DoctorEnds(s)
      BY <1>1, <1>3, <2>4 DEF DoctorEnds, StopDoctor, Up
    <2>5. CASE Respawn(s)
      <3>1. call[s].ticket \in Tickets /\ call[s].role \in Roles
        BY <2>5, RespawnStep DEF CallTyped, Call
      <3> QED BY <1>2, <2>5, <3>1 DEF Respawn
    <2>6. CASE ListBoxes(s) \/ ListFails(s) \/ Reconcile(s)
      BY <1>1, <1>3, <2>6 DEF ListBoxes, ListFails, Reconcile
    <2>7. CASE DoctorFails(s)
      BY <1>1, <1>2, <1>3, <2>7 DEF DoctorFails, NotSpawned, LostSpawn
    <2>8. CASE RespawnLost(s)
      BY <1>2, <2>8, LostStep
    <2> QED BY <1>6, <2>1, <2>2, <2>3, <2>4, <2>5, <2>6, <2>7, <2>8 DEF Checks
  <1>7. CASE UNCHANGED vars
    BY <1>1, <1>3, <1>7 DEF vars
  <1> QED BY <1>4, <1>5, <1>6, <1>7 DEF Next

(* Misses, deaths and respawns stay within their bounds.                        *)
LEMMA StepCounts == TypeOK /\ [Next]_vars => CountsTyped'
  <1> SUFFICES ASSUME TypeOK, CountsTyped, CallTyped, [Next]_vars PROVE CountsTyped'
    BY TypeParts
  <1> USE Numbers DEF CountsTyped
  <1>1. CASE World
    <2>1. ASSUME NEW t \in Tickets, Plane(t) \/ PlaneStarts(t) \/ PlaneFails(t) \/ Heartbeat(t)
          PROVE  CountsTyped'
      BY <2>1 DEF Plane, PlaneStarts, PlaneFails, Heartbeat
    <2>2. ASSUME NEW i \in Ids, Completes(i) \/ Exits(i) PROVE CountsTyped'
      BY <2>2 DEF Completes, Exits
    <2> QED BY <1>1, <2>1, <2>2 DEF World, Starting
  <1>2. CASE Tick
    BY <1>2 DEF Tick
  <1>3. ASSUME NEW s \in Slots, Checks(s) PROVE CountsTyped'
    <2>1. CASE Loops(s) /\ UNCHANGED respawned
      BY <2>1, LoopStep
    <2>2. CASE Respawn(s) \/ RespawnLost(s)
      <3> DEFINE t == call[s].ticket
                 more == IF respawned[t] < FlappingThreshold THEN respawned[t] + 1 ELSE respawned[t]
      <3>1. t \in Tickets /\ respawned[t] \in 0 .. FlappingThreshold
        BY <2>2, RespawnStep, LostStep
      <3>2. more \in 0 .. FlappingThreshold
        BY <3>1
      <3>3. respawned' = [respawned EXCEPT ![t] = more]
        BY <2>2, <3>1 DEF Respawn, RespawnLost, Respawned
      <3>4. misses' \in [Tickets -> 0 .. 3] /\ deaths' \in [Tickets -> 0 .. FlappingThreshold]
        BY <2>2, LoopStep DEF Respawn, Loops
      <3> HIDE DEF more, t
      <3> QED BY <3>2, <3>3, <3>4
    <2>3. CASE KillDead(s) \/ DoctorStarts(s) \/ DoctorFails(s) \/ DoctorEnds(s)
      BY <2>3 DEF KillDead, DoctorStarts, DoctorFails, DoctorEnds
    <2>4. CASE ListBoxes(s) \/ ListFails(s) \/ Reconcile(s)
      BY <2>4 DEF ListBoxes, ListFails, Reconcile
    <2> QED BY <1>3, <2>1, <2>2, <2>3, <2>4, LoopStep DEF Checks, Loops
  <1>4. CASE UNCHANGED vars
    BY <1>4 DEF vars
  <1> QED BY <1>1, <1>2, <1>3, <1>4 DEF Next

LEMMA StepCall == TypeOK /\ [Next]_vars => CallTyped'
  <1> SUFFICES ASSUME TypeOK, CallTyped, [Next]_vars PROVE CallTyped'
    BY TypeParts
  <1>1. ASSUME NEW s \in Slots, Checks(s) PROVE CallTyped'
    BY <1>1, LoopStep, KillDeadStep, DoctorStartsStep, DoctorLeavesStep, RespawnStep, ListStep
       DEF Checks, Loops
  <1>2. CASE UNCHANGED vars
    BY <1>2 DEF vars, CallTyped
  <1> QED BY <1>1, <1>2, WorldStep DEF Next

LEMMA StepHistory == TypeOK /\ [Next]_vars => HistoryTyped'
  <1> SUFFICES ASSUME TypeOK, HistoryTyped, BoxTyped, CallTyped, [Next]_vars PROVE HistoryTyped'
    BY TypeParts
  <1>1. ASSUME due' \in BOOLEAN, submitted' = submitted, done' = done PROVE HistoryTyped'
    BY <1>1 DEF HistoryTyped
  <1>2. due \in BOOLEAN /\ submitted \subseteq Tickets /\ done \subseteq Tickets
    BY DEF HistoryTyped
  <1>3. CASE World
    <2>1. ASSUME NEW t \in Tickets, Plane(t) PROVE HistoryTyped'
      BY <1>2, <2>1 DEF Plane, HistoryTyped
    <2>2. ASSUME NEW t \in Tickets, PlaneStarts(t) \/ PlaneFails(t) \/ Heartbeat(t) PROVE HistoryTyped'
      BY <1>1, <1>2, <2>2 DEF PlaneStarts, PlaneFails, Heartbeat
    <2>3. ASSUME NEW i \in Ids, Completes(i) PROVE HistoryTyped'
      BY <1>2, <2>3 DEF Completes, HistoryTyped
    <2>4. ASSUME NEW i \in Ids, Exits(i) PROVE HistoryTyped'
      BY <1>1, <1>2, <2>4 DEF Exits
    <2> QED BY <1>3, <2>1, <2>2, <2>3, <2>4 DEF World, Starting
  <1>4. CASE Tick
    BY <1>1, <1>4 DEF Tick
  <1>5. ASSUME NEW s \in Slots, Checks(s) PROVE HistoryTyped'
    <2>1. CASE CheckStarts(s)
      BY <1>1, <2>1 DEF CheckStarts
    <2>2. CASE CheckGoesOn(s) \/ KillDead(s) \/ KillFails(s) \/ DoctorStarts(s) \/ DoctorFails(s)
      BY <1>1, <1>2, <2>2 DEF CheckGoesOn, KillDead, KillFails, DoctorStarts, DoctorFails
    <2>3. CASE DoctorEnds(s) \/ Respawn(s) \/ RespawnFails(s) \/ RespawnLost(s)
      BY <1>1, <1>2, <2>3 DEF DoctorEnds, Respawn, RespawnFails, RespawnLost
    <2>4. CASE ListBoxes(s) \/ ListFails(s) \/ Reconcile(s)
      BY <1>1, <1>2, <2>4 DEF ListBoxes, ListFails, Reconcile
    <2> QED BY <1>5, <2>1, <2>2, <2>3, <2>4 DEF Checks
  <1>6. CASE UNCHANGED vars
    BY <1>1, <1>2, <1>6 DEF vars
  <1> QED BY <1>3, <1>4, <1>5, <1>6 DEF Next

LEMMA TypeInitial == Init => TypeOK
  <1> SUFFICES ASSUME Init PROVE TypeOK
    OBVIOUS
  <1>1. RegistryTyped
    BY EmptySeq DEF Init, RegistryTyped
  <1>2. BoxTyped
    BY DEF Init, BoxTyped
  <1>3. CountsTyped
    BY Numbers DEF Init, CountsTyped
  <1>4. CallTyped
    BY IdleTyped DEF Init, CallTyped, Recovery
  <1>5. HistoryTyped
    <2>1. due = FALSE /\ submitted = {} /\ done = {}
      BY DEF Init
    <2> QED BY <2>1, Zenon DEF HistoryTyped
  <1> QED BY <1>1, <1>2, <1>3, <1>4, <1>5, TypeParts

LEMMA TypeStep == TypeOK /\ [Next]_vars => TypeOK'
  <1> SUFFICES ASSUME TypeOK, [Next]_vars PROVE TypeOK'
    OBVIOUS
  <1>1. RegistryTyped' /\ BoxTyped' /\ CountsTyped' /\ CallTyped' /\ HistoryTyped'
    BY StepRegistry, StepBox, StepCounts, StepCall, StepHistory
  <1> QED BY <1>1 DEF TypeOK, RegistryTyped, BoxTyped, CountsTyped, CallTyped, HistoryTyped, Recovery

(* Every variable keeps its type, however many checks overlap; in particular a  *)
(* check that recovers a worker always knows which.                             *)
THEOREM SupervisionTypeCorrect == Spec => []TypeOK
  BY TypeInitial, TypeStep, PTL DEF Spec

-----------------------------------------------------------------------------
(* The checks that recover a ticket, flapping ones aside, are finitely many.    *)
LEMMA RecoveringFinite ==
    \A t \in Tickets : IsFiniteSet(Recovering(t)) /\ Cardinality(Recovering(t)) \in Nat
  <1> SUFFICES ASSUME NEW t \in Tickets
               PROVE  IsFiniteSet(Recovering(t)) /\ Cardinality(Recovering(t)) \in Nat
    OBVIOUS
  <1>1. Recovering(t) \in SUBSET Slots
    BY DEF Recovering
  <1>2. IsFiniteSet(Recovering(t))
    BY <1>1, SlotsAssumption, FS_Subset
  <1> QED BY <1>2, FS_CardinalityType

(* One more check at most, or one less, changes their number by one.            *)
LEMMA CardinalityStep ==
    ASSUME NEW S, IsFiniteSet(S), NEW T
    PROVE  /\ T \subseteq S => Cardinality(T) \in Nat /\ Cardinality(T) <= Cardinality(S)
           /\ \A s : T \subseteq S \cup {s} => Cardinality(T) \in Nat /\ Cardinality(T) <= Cardinality(S) + 1
           /\ \A s \in S : T \subseteq S \ {s} => Cardinality(T) \in Nat /\ Cardinality(T) + 1 <= Cardinality(S)
  <1>0. Cardinality(S) \in Nat
    BY FS_CardinalityType
  <1>1. ASSUME NEW U, IsFiniteSet(U), T \subseteq U
        PROVE  Cardinality(T) \in Nat /\ Cardinality(T) <= Cardinality(U) /\ Cardinality(U) \in Nat
    BY <1>1, FS_Subset, FS_CardinalityType
  <1>2. ASSUME NEW s, T \subseteq S \cup {s}
        PROVE  Cardinality(T) \in Nat /\ Cardinality(T) <= Cardinality(S) + 1
    <2>1. IsFiniteSet(S \cup {s}) /\ Cardinality(S \cup {s}) <= Cardinality(S) + 1
      BY <1>0, FS_AddElement
    <2> QED BY <1>0, <1>1, <1>2, <2>1
  <1>3. ASSUME NEW s \in S, T \subseteq S \ {s}
        PROVE  Cardinality(T) \in Nat /\ Cardinality(T) + 1 <= Cardinality(S)
    <2>1. IsFiniteSet(S \ {s}) /\ Cardinality(S \ {s}) = Cardinality(S) - 1
      BY <1>0, FS_RemoveElement
    <2> QED BY <1>0, <1>1, <1>3, <2>1
  <1> QED BY <1>1, <1>2, <1>3

(* What a check leaves when its loop goes on, it has not taken from a ticket:   *)
(* a respawn that was lost is paid for by the recovery it ends.                 *)
LEMMA LoopSpends ==
    ASSUME TypeOK, CountsTyped, CallTyped, BoundInv, NEW s \in Slots, Loops(s), NEW u \in Tickets
    PROVE  /\ Cardinality(Recovering(u) \ {s}) \in Nat /\ IsFiniteSet(Recovering(u) \ {s})
           /\ respawned'[u] \in Nat
           /\ respawned'[u] + Cardinality(Recovering(u) \ {s}) <= respawned[u] + Cardinality(Recovering(u))
  <1>0. /\ IsFiniteSet(Recovering(u)) /\ Cardinality(Recovering(u)) \in Nat
        /\ respawned[u] \in Nat /\ respawned[u] < FlappingThreshold /\ FlappingThreshold \in Nat
    BY RecoveringFinite, Numbers DEF BoundInv, CountsTyped
  <1>1. /\ IsFiniteSet(Recovering(u) \ {s}) /\ Cardinality(Recovering(u) \ {s}) \in Nat
        /\ Cardinality(Recovering(u) \ {s}) <= Cardinality(Recovering(u))
    BY <1>0, CardinalityStep, FS_Subset
  <1>2. CASE UNCHANGED respawned
    BY <1>0, <1>1, <1>2
  <1>3. CASE RespawnLost(s)
    <2>1. /\ call[s].pc = "respawn" /\ call[s].ticket \in Tickets
          /\ respawned' = [respawned EXCEPT ![call[s].ticket] = IF @ < FlappingThreshold THEN @ + 1 ELSE @]
      BY <1>3, LostStep DEF Respawned
    <2>2. CASE u # call[s].ticket
      BY <1>0, <1>1, <2>1, <2>2 DEF CountsTyped
    <2>3. CASE u = call[s].ticket
      <3>1. s \in Recovering(u)
        BY <2>1, <2>3 DEF Recovering
      <3>2. Cardinality(Recovering(u) \ {s}) + 1 <= Cardinality(Recovering(u))
        BY <1>0, <3>1, CardinalityStep
      <3>3. respawned'[u] = respawned[u] + 1
        BY <1>0, <2>1, <2>3 DEF CountsTyped
      <3> QED BY <1>0, <1>1, <3>2, <3>3
    <2> QED BY <2>2, <2>3
  <1> QED BY <1>2, <1>3, LoopStep

(* Every death counted admits one recovery, and a recovery respawns once.       *)
LEMMA StepBound == TypeOK /\ BoundInv /\ [Next]_vars => BoundInv'
  <1> SUFFICES ASSUME TypeOK, CountsTyped, CallTyped, BoundInv, [Next]_vars PROVE BoundInv'
    BY TypeParts
  <1>0. /\ \A t \in Tickets : /\ respawned[t] \in Nat /\ deaths[t] \in Nat
                              /\ respawned[t] < FlappingThreshold /\ deaths[t] <= FlappingThreshold
                              /\ IsFiniteSet(Recovering(t)) /\ Cardinality(Recovering(t)) \in Nat
        /\ FlappingThreshold \in Nat
    BY RecoveringFinite, Numbers DEF BoundInv, CountsTyped
  <1>1. ASSUME UNCHANGED <<deaths, respawned>>, NEW s \in Slots, \A r \in Slots \ {s} : Kept(r),
               \/ Kept(s) \/ call'[s].ticket = None
               \/ call'[s].ticket = call[s].ticket /\ call[s].pc # "flapping"
        PROVE  BoundInv'
    <2> SUFFICES ASSUME NEW t \in Tickets
                 PROVE  /\ respawned[t] + Cardinality(Recovering(t)') <= deaths[t]
                        /\ respawned[t] + Cardinality(Recovering(t)') < FlappingThreshold
      BY <1>1 DEF BoundInv
    <2>1. Recovering(t)' \subseteq Recovering(t)
      BY <1>1, NoneAssumption DEF Recovering, Kept
    <2>2. Cardinality(Recovering(t)') \in Nat /\ Cardinality(Recovering(t)') <= Cardinality(Recovering(t))
      BY <1>0, <2>1, CardinalityStep
    <2> QED BY <1>0, <2>2 DEF BoundInv
  <1>2. ASSUME NEW s \in Slots, Checks(s) PROVE BoundInv'
    <2>1. CASE Loops(s)
      <3>0. /\ \A r \in Slots \ {s} : Kept(r)
            /\ \A u \in Tickets :
                 /\ Cardinality(Recovering(u) \ {s}) \in Nat /\ IsFiniteSet(Recovering(u) \ {s})
                 /\ respawned'[u] \in Nat
                 /\ respawned'[u] + Cardinality(Recovering(u) \ {s}) <= respawned[u] + Cardinality(Recovering(u))
        BY <2>1, LoopStep, LoopSpends
      <3>1. ASSUME NEW u \in Tickets, deaths'[u] = deaths[u], Recovering(u)' \subseteq Recovering(u) \ {s}
            PROVE  /\ respawned'[u] + Cardinality(Recovering(u)') <= deaths'[u]
                   /\ respawned'[u] + Cardinality(Recovering(u)') < FlappingThreshold
        <4>1. Cardinality(Recovering(u)') \in Nat /\ Cardinality(Recovering(u)') <= Cardinality(Recovering(u) \ {s})
          BY <3>0, <3>1, CardinalityStep
        <4> QED BY <1>0, <3>0, <3>1, <4>1 DEF BoundInv
      <3>2. CASE deaths' = deaths /\ call'[s].ticket = None
        <4>1. \A u \in Tickets : Recovering(u)' \subseteq Recovering(u) \ {s}
          BY <3>0, <3>2, NoneAssumption DEF Recovering, Kept
        <4> QED BY <3>1, <3>2, <4>1 DEF BoundInv
      <3>3. ASSUME NEW t \in Tickets,
                   deaths' = [deaths EXCEPT ![t] = IF @ < FlappingThreshold THEN @ + 1 ELSE @],
                   call'[s].ticket = t, call'[s].pc = (IF Flaps(t) THEN "flapping" ELSE "kill")
            PROVE  BoundInv'
        <4> SUFFICES ASSUME NEW u \in Tickets
                     PROVE  /\ respawned'[u] + Cardinality(Recovering(u)') <= deaths'[u]
                            /\ respawned'[u] + Cardinality(Recovering(u)') < FlappingThreshold
          BY DEF BoundInv
        <4>1. deaths'[u] \in Nat /\ deaths[u] <= deaths'[u]
          BY <1>0, <3>3 DEF CountsTyped
        <4>2. CASE u # t \/ Flaps(t)
          <5>1. Recovering(u)' \subseteq Recovering(u) \ {s}
            BY <3>0, <3>3, <4>2 DEF Recovering, Kept
          <5>2. Cardinality(Recovering(u)') \in Nat /\ Cardinality(Recovering(u)') <= Cardinality(Recovering(u) \ {s})
            BY <3>0, <5>1, CardinalityStep
          <5>3. /\ respawned[u] + Cardinality(Recovering(u)) <= deaths[u]
                /\ respawned[u] + Cardinality(Recovering(u)) < FlappingThreshold
            BY DEF BoundInv
          <5> QED BY <1>0, <3>0, <4>1, <5>2, <5>3
        <4>3. CASE u = t /\ ~ Flaps(t)
          <5>1. Recovering(u)' \subseteq (Recovering(u) \ {s}) \cup {s}
            BY <3>0 DEF Recovering, Kept
          <5>2. /\ Cardinality(Recovering(u)') \in Nat
                /\ Cardinality(Recovering(u)') <= Cardinality(Recovering(u) \ {s}) + 1
            BY <3>0, <5>1, CardinalityStep
          <5>3. deaths[u] + 1 < FlappingThreshold
            BY <1>0, <4>3 DEF Flaps
          <5>4. deaths'[u] = deaths[u] + 1
            BY <1>0, <3>3, <4>3, <5>3 DEF CountsTyped
          <5>5. respawned[u] + Cardinality(Recovering(u)) <= deaths[u]
            BY DEF BoundInv
          <5> QED BY <1>0, <3>0, <5>2, <5>3, <5>4, <5>5
        <4> QED BY <4>2, <4>3
      <3> QED BY <2>1, <3>2, <3>3, LoopStep
    <2>2. CASE KillDead(s)
      BY <1>1, <2>2, KillDeadStep DEF KillDead
    <2>3. CASE DoctorStarts(s)
      BY <1>1, <2>3, DoctorStartsStep DEF DoctorStarts
    <2>4. CASE DoctorFails(s) \/ DoctorEnds(s)
      <3>1. UNCHANGED <<deaths, respawned>>
        BY <2>4 DEF DoctorFails, DoctorEnds
      <3> QED BY <1>1, <2>4, <3>1, DoctorLeavesStep
    <2>5. CASE ListBoxes(s) \/ ListFails(s) \/ Reconcile(s)
      <3>1. UNCHANGED <<deaths, respawned>>
        BY <2>5 DEF ListBoxes, ListFails, Reconcile
      <3> QED BY <1>1, <2>5, <3>1, ListStep
    <2>6. CASE Respawn(s)
      <3> DEFINE t == call[s].ticket
      <3>1. /\ t \in Tickets /\ call[s].pc = "respawn" /\ call'[s].ticket = None
            /\ \A r \in Slots \ {s} : Kept(r)
        BY <2>6, RespawnStep
      <3>2. /\ deaths' = deaths
            /\ respawned' = [respawned EXCEPT ![t] = respawned[t] + 1]
        BY <1>0, <2>6, <3>1 DEF Respawn, Respawned, CountsTyped
      <3>3. s \in Recovering(t)
        BY <3>1 DEF Recovering
      <3> HIDE DEF t
      <3> SUFFICES ASSUME NEW u \in Tickets
                   PROVE  /\ respawned'[u] + Cardinality(Recovering(u)') <= deaths[u]
                          /\ respawned'[u] + Cardinality(Recovering(u)') < FlappingThreshold
        BY <3>2 DEF BoundInv
      <3>4. /\ respawned[u] + Cardinality(Recovering(u)) <= deaths[u]
            /\ respawned[u] + Cardinality(Recovering(u)) < FlappingThreshold
        BY DEF BoundInv
      <3>5. Recovering(u)' \subseteq Recovering(u) \ {s}
        BY <3>1, NoneAssumption DEF Recovering, Kept
      <3>6. CASE u = t
        <4>1. Cardinality(Recovering(u)') \in Nat /\ Cardinality(Recovering(u)') + 1 <= Cardinality(Recovering(u))
          BY <1>0, <3>3, <3>5, <3>6, CardinalityStep
        <4>2. respawned'[u] = respawned[u] + 1
          BY <3>2, <3>6 DEF CountsTyped
        <4> QED BY <1>0, <3>4, <4>1, <4>2
      <3>7. CASE u # t
        <4>1. Cardinality(Recovering(u)') \in Nat /\ Cardinality(Recovering(u)') <= Cardinality(Recovering(u))
          BY <1>0, <3>5, CardinalityStep
        <4>2. respawned'[u] = respawned[u]
          BY <3>2, <3>7 DEF CountsTyped
        <4> QED BY <1>0, <3>4, <4>1, <4>2
      <3> QED BY <3>6, <3>7
    <2> QED BY <1>2, <2>1, <2>2, <2>3, <2>4, <2>5, <2>6 DEF Checks, Loops
  <1>3. ASSUME UNCHANGED <<deaths, respawned>>, \A r \in Slots : Kept(r) PROVE BoundInv'
    <2>1. \A t \in Tickets : Recovering(t)' = Recovering(t)
      BY <1>3 DEF Recovering, Kept
    <2> QED BY <1>3, <2>1 DEF BoundInv
  <1>4. CASE UNCHANGED vars
    BY <1>3, <1>4 DEF vars, Kept
  <1> QED BY <1>2, <1>3, <1>4, WorldStep DEF Next

(* "3+ deaths in 60min = STOP", for any threshold: however many checks overlap, *)
(* a ticket is respawned less often than that, recoveries on their way counted. *)
THEOREM RespawnsAlwaysBounded == Spec => []RespawnsBounded
  <1>1. Init => BoundInv
    <2> SUFFICES ASSUME Init, NEW t \in Tickets
                 PROVE  /\ respawned[t] + Cardinality(Recovering(t)) <= deaths[t]
                        /\ respawned[t] + Cardinality(Recovering(t)) < FlappingThreshold
      BY DEF BoundInv
    <2>1. Recovering(t) = {}
      BY NoneAssumption, IdleTyped DEF Init, Recovering
    <2> QED BY <2>1, Numbers, FS_EmptySet DEF Init
  <1>2. TypeOK /\ BoundInv /\ [Next]_vars => BoundInv'
    BY StepBound
  <1>3. BoundInv => RespawnsBounded
    BY DEF BoundInv, RespawnsBounded
  <1> QED BY <1>1, <1>2, <1>3, SupervisionTypeCorrect, PTL DEF Spec

-----------------------------------------------------------------------------
(* The Doctor's containers as the engine stops and starts others.               *)
LEMMA DoctorBoxes ==
    ASSUME BoxTyped
    PROVE  /\ \A ids : Gone(ids) => Of(Doctor)' \subseteq Of(Doctor) \ ids
           /\ \A t \in Tickets, role \in Roles : Spawn(t, role) => Of(Doctor)' \subseteq Of(Doctor)
           /\ UNCHANGED box => Of(Doctor)' = Of(Doctor)
  <1>1. ASSUME NEW ids, Gone(ids) PROVE Of(Doctor)' \subseteq Of(Doctor) \ ids
    BY <1>1 DEF Gone, Of, Up
  <1>2. ASSUME NEW t \in Tickets, NEW role \in Roles, Spawn(t, role) PROVE Of(Doctor)' \subseteq Of(Doctor)
    <2>1. NewId \in Ids /\ box' = [box EXCEPT ![NewId] = [ticket |-> t, role |-> role]]
      BY <1>2, SpawnTyped
    <2>2. \A i \in Ids : box'[i] = IF i = NewId THEN [ticket |-> t, role |-> role] ELSE box[i]
      BY <2>1 DEF BoxTyped
    <2> QED BY <2>2, DoctorAssumption DEF Of, Up
  <1>3. UNCHANGED box => Of(Doctor)' = Of(Doctor)
    BY DEF Of, Up
  <1> QED BY <1>1, <1>2, <1>3

(* A Doctor's owner keeps it until it stops it, or the engine refuses.          *)
LEMMA StepDoctor == TypeOK /\ DoctorInv /\ [Next]_vars => DoctorInv'
  <1> SUFFICES ASSUME TypeOK, BoxTyped, CallTyped, DoctorInv, [Next]_vars PROVE DoctorInv'
    BY TypeParts
  <1>0. \A s \in Slots : call[s].pc # "diagnose" => call[s].doctor = None
    BY DEF DoctorInv
  <1>1. ASSUME Of(Doctor)' \ strays' \subseteq Of(Doctor) \ strays, \A r \in Slots : Kept(r) PROVE DoctorInv'
    BY <1>1 DEF DoctorInv, DoctorOwned, Kept
  <1>2. ASSUME Of(Doctor)' \ strays' \subseteq Of(Doctor) \ strays, NEW s \in Slots,
               \A r \in Slots \ {s} : Kept(r), call[s].doctor = None,
               call'[s].pc # "diagnose", call'[s].doctor = None
        PROVE  DoctorInv'
    <2>1. ASSUME NEW i \in Of(Doctor)' \ strays' PROVE \E r \in Slots : call'[r].doctor = i
      <3>1. i \in Ids /\ i # None /\ i \in Of(Doctor) \ strays
        BY <1>2, NoneAssumption DEF Of, Up
      <3>2. PICK r \in Slots : call[r].doctor = i
        BY <3>1 DEF DoctorInv, DoctorOwned
      <3> QED BY <1>2, <3>1, <3>2 DEF Kept
    <2>2. \A r \in Slots : call'[r].pc # "diagnose" => call'[r].doctor = None
      BY <1>0, <1>2 DEF Kept
    <2> QED BY <2>1, <2>2 DEF DoctorInv, DoctorOwned
  <1>3. CASE World
    <2>1. \A r \in Slots : Kept(r)
      BY <1>3, WorldStep
    <2>2. ASSUME NEW t \in Tickets, Plane(t) \/ Heartbeat(t) PROVE DoctorInv'
      BY <1>1, <2>1, <2>2, DoctorBoxes DEF Plane, Heartbeat
    <2>3. ASSUME NEW t \in Tickets, PlaneStarts(t) \/ PlaneFails(t) PROVE DoctorInv'
      <3>1. Spawn(t, "own") \/ UNCHANGED box
        BY <2>3 DEF PlaneStarts, PlaneFails, NotSpawned, LostSpawn
      <3>2. UNCHANGED strays
        BY <2>3 DEF PlaneStarts, PlaneFails
      <3> QED BY <1>1, <2>1, <3>1, <3>2, DoctorBoxes DEF Roles
    <2>4. ASSUME NEW i \in Ids, Completes(i) PROVE DoctorInv'
      <3>1. Of(Doctor)' \subseteq Of(Doctor) /\ strays' = strays
        BY <2>4, DoctorBoxes DEF Completes
      <3> QED BY <1>1, <2>1, <3>1
    <2>5. ASSUME NEW i \in Ids, Exits(i) PROVE DoctorInv'
      <3>1. Of(Doctor)' \subseteq Of(Doctor) \ {i} /\ strays' = strays \ {i}
        BY <2>5, DoctorBoxes DEF Exits
      <3> QED BY <1>1, <2>1, <3>1
    <2> QED BY <1>3, <2>2, <2>3, <2>4, <2>5 DEF World, Starting
  <1>4. CASE Tick
    BY <1>1, <1>4, WorldStep, DoctorBoxes DEF Tick
  <1>5. ASSUME NEW s \in Slots, Checks(s) PROVE DoctorInv'
    <2>1. CASE Loops(s)
      <3>1. Of(Doctor)' \subseteq Of(Doctor) /\ strays' = strays
        <4>1. CASE RespawnLost(s)
          BY <4>1, LostStep, DoctorBoxes
        <4> QED BY <2>1, <4>1, DoctorBoxes
                DEF Loops, CheckStarts, CheckGoesOn, KillFails, RespawnFails, NotSpawned
      <3>2. call[s].doctor = None /\ call'[s].doctor = None /\ call'[s].pc # "diagnose"
        BY <1>0, <2>1, LoopStep
      <3> QED BY <1>2, <2>1, <3>1, <3>2, LoopStep
    <2>2. CASE KillDead(s)
      <3>1. Of(Doctor)' \subseteq Of(Doctor) /\ strays' = strays
        BY <2>2, DoctorBoxes DEF KillDead
      <3> QED BY <1>0, <1>2, <2>2, <3>1, KillDeadStep
    <2>3. CASE DoctorStarts(s)
      <3>1. /\ \A r \in Slots \ {s} : Kept(r)
            /\ call[s].pc = "doctor" /\ call'[s].pc = "diagnose" /\ call'[s].doctor = NewId
            /\ NewId \in Ids /\ box' = [box EXCEPT ![NewId] = [ticket |-> Doctor, role |-> "own"]]
            /\ strays' = strays
        BY <2>3, DoctorStartsStep DEF DoctorStarts
      <3>2. ASSUME NEW i \in Of(Doctor)' \ strays' PROVE \E r \in Slots : call'[r].doctor = i
        <4>1. CASE i = NewId
          BY <3>1, <4>1
        <4>2. CASE i # NewId
          <5>1. i \in Of(Doctor) \ strays /\ i # None
            BY <3>1, <3>2, <4>2, NoneAssumption DEF Of, Up, BoxTyped
          <5>2. PICK r \in Slots : call[r].doctor = i
            BY <5>1 DEF DoctorInv, DoctorOwned
          <5> QED BY <1>0, <3>1, <5>1, <5>2 DEF Kept
        <4> QED BY <4>1, <4>2
      <3>3. \A r \in Slots : call'[r].pc # "diagnose" => call'[r].doctor = None
        BY <1>0, <3>1 DEF Kept
      <3> QED BY <3>2, <3>3 DEF DoctorInv, DoctorOwned
    <2>4. CASE DoctorFails(s)
      <3>1. call[s].doctor = None /\ call'[s].doctor = None /\ call'[s].pc # "diagnose"
        BY <1>0, <2>4, DoctorLeavesStep DEF DoctorFails
      <3>2. \A r \in Slots \ {s} : Kept(r)
        BY <2>4, DoctorLeavesStep
      <3>3. Of(Doctor)' \ strays' \subseteq Of(Doctor) \ strays
        <4>1. CASE UNCHANGED <<box, strays>>
          BY <4>1, DoctorBoxes
        <4>2. CASE Spawn(Doctor, "own") /\ strays' = strays \cup {NewId}
          <5>1. NewId \in Ids /\ box' = [box EXCEPT ![NewId] = [ticket |-> Doctor, role |-> "own"]]
            BY <4>2, SpawnTyped DEF Roles
          <5>2. \A i \in Ids \ {NewId} : box'[i] = box[i]
            BY <5>1 DEF BoxTyped
          <5> QED BY <4>2, <5>2 DEF Of, Up
        <4> QED BY <2>4, <4>1, <4>2 DEF DoctorFails, NotSpawned, LostSpawn
      <3> QED BY <1>2, <3>1, <3>2, <3>3
    <2>5. CASE DoctorEnds(s)
      <3>1. /\ \A r \in Slots \ {s} : Kept(r)
            /\ call'[s].pc = "respawn" /\ call'[s].doctor = None
        BY <2>5, DoctorLeavesStep DEF DoctorEnds
      <3>2. Of(Doctor)' \ strays' \subseteq (Of(Doctor) \ strays) \ {call[s].doctor}
        <4>1. CASE Gone({call[s].doctor}) /\ UNCHANGED strays
          BY <4>1, DoctorBoxes
        <4>2. CASE UNCHANGED box /\ strays' = strays \cup ({call[s].doctor} \cap Up)
          BY <4>2, DoctorBoxes DEF Of
        <4> QED BY <2>5, <4>1, <4>2 DEF DoctorEnds, StopDoctor
      <3>3. ASSUME NEW i \in Of(Doctor)' \ strays' PROVE \E r \in Slots : call'[r].doctor = i
        <4>1. i \in Of(Doctor) \ strays /\ i # call[s].doctor
          BY <3>2
        <4>2. PICK r \in Slots : call[r].doctor = i
          BY <4>1 DEF DoctorInv, DoctorOwned
        <4> QED BY <3>1, <4>1, <4>2 DEF Kept
      <3>4. \A r \in Slots : call'[r].pc # "diagnose" => call'[r].doctor = None
        BY <1>0, <3>1 DEF Kept
      <3> QED BY <3>3, <3>4 DEF DoctorInv, DoctorOwned
    <2>6. CASE Respawn(s)
      <3>1. call[s].ticket \in Tickets /\ call[s].role \in Roles
        BY <2>6, RespawnStep DEF CallTyped, Call
      <3>2. Of(Doctor)' \subseteq Of(Doctor) /\ strays' = strays
        BY <2>6, <3>1, DoctorBoxes DEF Respawn
      <3> QED BY <1>0, <1>2, <2>6, <3>2, RespawnStep
    <2>7. CASE ListBoxes(s) \/ ListFails(s) \/ Reconcile(s)
      <3>1. UNCHANGED <<box, strays>>
        BY <2>7 DEF ListBoxes, ListFails, Reconcile
      <3>2. call[s].doctor = None /\ call'[s].doctor = None /\ call'[s].pc # "diagnose"
        BY <1>0, <2>7, ListStep
      <3> QED BY <1>2, <2>7, <3>1, <3>2, ListStep, DoctorBoxes
    <2> QED BY <1>5, <2>1, <2>2, <2>3, <2>4, <2>5, <2>6, <2>7 DEF Checks, Loops
  <1>6. CASE UNCHANGED vars
    BY <1>1, <1>6, DoctorBoxes DEF vars, Kept
  <1> QED BY <1>3, <1>4, <1>5, <1>6 DEF Next

(* A Doctor's container that is up belongs to the recovery that waits for its   *)
(* diagnosis, or a call of the engine failed that was to stop it, or that had   *)
(* started it: none is forgotten otherwise.                                     *)
THEOREM DoctorAlwaysOwned == Spec => []DoctorOwned
  <1>1. Init => DoctorInv
    BY IdleTyped DEF Init, DoctorInv, DoctorOwned, Of, Up
  <1>2. TypeOK /\ DoctorInv /\ [Next]_vars => DoctorInv'
    BY StepDoctor
  <1>3. DoctorInv => DoctorOwned
    BY DEF DoctorInv
  <1> QED BY <1>1, <1>2, <1>3, SupervisionTypeCorrect, PTL DEF Spec
=============================================================================
