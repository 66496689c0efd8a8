------------------------- MODULE PriorityQueueProofs -------------------------
(***************************************************************************)
(* PriorityQueue for any tickets, submissions and bounds: its types, and   *)
(* that Redis keeps up with the memory; and PMState, which extends it: its *)
(* types, and that the injection of a saved queue merges.                  *)
(***************************************************************************)
EXTENDS PMState, QueueOpsProofs

USE SubmissionsAssumption, ReorderToAssumption, BoundsAssumption, NoneAssumption

Command == [op : {"set", "get"}, value : Memory]

-----------------------------------------------------------------------------
(* Setting one field of a memory keeps its type.                                *)
LEMMA MemoryFields ==
  ASSUME NEW m \in Memory
  PROVE  /\ m.queue \in Seq(Task) /\ m.running \in Task \cup {None} /\ m.paused \in SUBSET Task
         /\ \A q \in Seq(Task) : [m EXCEPT !.queue = q] \in Memory
         /\ \A r \in Task \cup {None} : [m EXCEPT !.running = r] \in Memory
         /\ \A p \in SUBSET Task : [m EXCEPT !.paused = p] \in Memory
         /\ \A q \in Seq(Task), p \in SUBSET Task : [m EXCEPT !.queue = q, !.paused = p] \in Memory
BY DEF Memory

LEMMA EmptyType == Empty \in Memory
BY DEF Empty, Memory

LEMMA StoppedType ==
  ASSUME NEW m \in Memory, NEW t
  PROVE  Stopped(m, t) \in Memory
BY MemoryFields DEF Stopped

(* completeTask() puts back a paused task, or none.                             *)
LEMMA ResumedType ==
  ASSUME NEW t, mem \in Memory
  PROVE  Resumed(t) \in Memory
<1> DEFINE back == Resumable(t)
           m == Stopped(mem, t)
           q == IF back = {} THEN m.queue ELSE <<CHOOSE task \in back : TRUE>> \o m.queue
<1>1. m \in Memory
  BY StoppedType
<1>2. back \in SUBSET Task
  BY MemoryFields DEF Resumable
<1>3. m.queue \in Seq(Task) /\ m.paused \ back \in SUBSET Task
  BY <1>1, MemoryFields
<1>4. q \in Seq(Task)
  <2>1. CASE back = {}
    BY <2>1, <1>3
  <2>2. CASE back # {}
    <3> DEFINE x == CHOOSE task \in back : TRUE
    <3>1. x \in Task
      BY <2>2, <1>2
    <3>2. <<x>> \in Seq(Task)
      BY <3>1
    <3> HIDE DEF x
    <3>3. <<x>> \o m.queue \in Seq(Task)
      BY <3>2, <1>3
    <3> QED BY <3>3, <2>2 DEF x
  <2> QED BY <2>1, <2>2
<1>5. Resumed(t) = [m EXCEPT !.paused = m.paused \ back, !.queue = q]
  BY DEF Resumed
<1> HIDE DEF back, m, q
<1> QED BY <1>1, <1>3, <1>4, <1>5 DEF Memory

(* What a save puts on the wire.                                                *)
LEMMA SavedType ==
  ASSUME NEW ms \in Seq(Memory), wire \in Seq(Command), linked
  PROVE  /\ Saved(ms) \in Seq(Command)
         /\ Len(Saved(ms)) = Len(wire) + Len(ms)
         /\ \A i \in 1 .. Len(wire) : Saved(ms)[i] = wire[i]
         /\ \A i \in 1 .. Len(ms) : Saved(ms)[Len(wire) + i] = Set(ms[i])
<1> DEFINE sets == [i \in DOMAIN ms |-> Set(ms[i])]
<1>1. DOMAIN ms = 1 .. Len(ms) /\ Len(ms) \in Nat
  OBVIOUS
<1>2. \A i \in 1 .. Len(ms) : Set(ms[i]) \in Command
  BY DEF Set, Command
<1>3. sets \in Seq(Command) /\ Len(sets) = Len(ms) /\ \A i \in 1 .. Len(ms) : sets[i] = Set(ms[i])
  BY <1>1, <1>2
<1>4. Saved(ms) = wire \o sets
  BY DEF Saved
<1> HIDE DEF sets
<1>5. /\ wire \o sets \in Seq(Command)
      /\ Len(wire \o sets) = Len(wire) + Len(sets)
      /\ \A i \in 1 .. Len(wire) : (wire \o sets)[i] = wire[i]
      /\ \A i \in 1 .. Len(sets) : (wire \o sets)[Len(wire) + i] = sets[i]
  BY <1>3
<1> HIDE DEF Command
<1> QED BY <1>3, <1>4, <1>5, ZenonT(30)

-----------------------------------------------------------------------------
(* A method that saves the states in ms, as far as the types of the memory and  *)
(* of the link go.                                                              *)
LinkTypeOK ==
    /\ mem \in Memory
    /\ up \in BOOLEAN /\ linked \in BOOLEAN /\ (up => linked)
    /\ wire \in Seq(Command) /\ Len(wire) <= MaxWire
    /\ replies \in Seq(Memory \cup {None})
    /\ store \in Memory \cup {None}
    /\ unsaved \in BOOLEAN /\ overlap \in BOOLEAN

LEMMA BecomesType ==
  ASSUME LinkTypeOK, NEW ms \in Seq(Memory), ms # << >>, Becomes(ms)
  PROVE  LinkTypeOK'
<1>1. mem' \in Memory
  <2>1. Len(ms) \in 1 .. Len(ms)
    OBVIOUS
  <2> QED BY <2>1 DEF Becomes
<1>2. wire' \in Seq(Command) /\ Len(wire') <= MaxWire
  <2>1. CASE linked
    BY <2>1, SavedType DEF Becomes, LinkTypeOK
  <2>2. CASE ~ linked
    BY <2>2 DEF Becomes, LinkTypeOK, Saved
  <2> QED BY <2>1, <2>2
<1>3. unsaved' \in BOOLEAN /\ overlap' \in BOOLEAN
  BY DEF Becomes, LinkTypeOK, Loading
<1> QED BY <1>1, <1>2, <1>3 DEF Becomes, LinkTypeOK

LEMMA TypeParts == TypeOK <=> /\ LinkTypeOK
                              /\ held \in SUBSET Task
                              /\ pausing \in Task \cup {None}
BY DEF TypeOK, LinkTypeOK, Command

(* Every method but the first half of interruptWithP0() saves one memory, or    *)
(* two.                                                                         *)
OneSave == \E m \in Memory : Becomes(<<m>>)
TwoSaves == \E m, n \in Memory : Becomes(<<m, n>>)
HolderTypeOK == held \in SUBSET Task /\ pausing \in Task \cup {None}

LEMMA MethodShape ==
  ASSUME TypeOK, Methods, \A task \in held : ~ Pause(task)
  PROVE  (OneSave \/ TwoSaves) /\ HolderTypeOK'
<1> USE DEF OneSave, HolderTypeOK
<1>1. mem \in Memory /\ held \in SUBSET Task /\ pausing \in Task \cup {None}
  BY DEF TypeOK
<1>2. mem.queue \in Seq(Task)
  BY <1>1, MemoryFields
<1>3. \A task \in Task : [mem EXCEPT !.queue = Enqueue(@, task)] \in Memory
  BY <1>1, <1>2, EnqueueProperties, MemoryFields
<1>4. ASSUME NEW task \in Submissions, Submit(task) PROVE OneSave /\ HolderTypeOK'
  BY <1>1, <1>3, <1>4 DEF Submit
<1>5. ASSUME NEW task \in held, PutBack(task) PROVE OneSave /\ HolderTypeOK'
  BY <1>1, <1>3, <1>5 DEF PutBack
<1>6. ASSUME Dequeue PROVE OneSave /\ HolderTypeOK'
  <2>1. mem.queue # << >>
    BY <1>6 DEF Dequeue
  <2>2. Head(mem.queue) \in Task /\ Tail(mem.queue) \in Seq(Task)
    BY <2>1, <1>2, TailProperties
  <2>3. [mem EXCEPT !.queue = Tail(@)] \in Memory
    BY <2>2, <1>1, MemoryFields
  <2> QED BY <2>2, <2>3, <1>1, <1>6 DEF Dequeue
<1>7. ASSUME NEW task \in Task, StartTask(task) PROVE OneSave /\ HolderTypeOK'
  <2>1. [mem EXCEPT !.running = task] \in Memory
    BY <1>1, MemoryFields
  <2> QED BY <2>1, <1>1, <1>7 DEF StartTask
<1>8. ASSUME NEW t \in Tickets, CompleteTask(t) PROVE (OneSave \/ TwoSaves) /\ HolderTypeOK'
  <2> DEFINE m == Resumed(t)
  <2>1. m \in Memory
    BY <1>1, ResumedType
  <2>2. m.queue \in Seq(Task)
    BY <2>1, MemoryFields
  <2>3. CASE m.queue = << >> /\ Becomes(<<m>>) /\ UNCHANGED held
    BY <2>1, <2>3, <1>1, <1>8 DEF CompleteTask
  <2>4. CASE /\ m.queue # << >>
             /\ Becomes(<<m, [m EXCEPT !.queue = Tail(@)]>>)
             /\ held' = held \cup {Head(m.queue)}
    <3>1. Head(m.queue) \in Task /\ Tail(m.queue) \in Seq(Task)
      BY <2>4, <2>2, TailProperties
    <3>2. [m EXCEPT !.queue = Tail(@)] \in Memory
      BY <3>1, <2>1, MemoryFields
    <3> HIDE DEF m
    <3>3. TwoSaves
      BY <3>2, <2>1, <2>4 DEF TwoSaves
    <3> QED BY <3>1, <3>3, <2>4, <1>1, <1>8 DEF CompleteTask
  <2> QED BY <2>3, <2>4, <1>8 DEF CompleteTask
<1>9. ASSUME NEW t \in Tickets, BlockTask(t) PROVE OneSave /\ HolderTypeOK'
  <2> DEFINE m == Stopped(mem, t)
  <2>1. m \in Memory
    BY <1>1, StoppedType
  <2>2. Without(m.queue, t) \in Seq(Task)
    BY <2>1, MemoryFields, WithoutProperties
  <2>3. [m EXCEPT !.queue = Without(@, t)] \in Memory
    BY <2>1, <2>2, MemoryFields
  <2> QED BY <2>3, <1>1, <1>9 DEF BlockTask
<1>10. ASSUME NEW t \in Tickets, Remove(t) PROVE OneSave /\ HolderTypeOK'
  <2> DEFINE m == Stopped(mem, t)
  <2>1. m \in Memory
    BY <1>1, StoppedType
  <2>2. Without(m.queue, t) \in Seq(Task) /\ m.paused \ Resumable(t) \in SUBSET Task
    BY <2>1, MemoryFields, WithoutProperties
  <2>3. [m EXCEPT !.queue = Without(@, t), !.paused = @ \ Resumable(t)] \in Memory
    BY <2>1, <2>2, MemoryFields
  <2> QED BY <2>3, <1>1, <1>10 DEF Remove
<1>11. ASSUME NEW t \in Tickets, NEW prio \in ReorderTo, Reorder(t, prio)
       PROVE  OneSave /\ HolderTypeOK'
  <2> DEFINE first == CHOOSE j \in 1 .. Len(mem.queue) :
                         /\ mem.queue[j].ticket = t
                         /\ \A k \in 1 .. j - 1 : mem.queue[k].ticket # t
             rest == Keep(mem.queue, (1 .. Len(mem.queue)) \ {first})
             task == [ticket |-> t, prio |-> prio]
  <2>1. rest \in Seq(Task)
    BY <1>2, KeepProperties
  <2>2. task \in Task
    BY DEF Task
  <2>3. Enqueue(rest, task) \in Seq(Task)
    BY <2>1, <2>2, EnqueueProperties
  <2>4. [mem EXCEPT !.queue = Enqueue(rest, task)] \in Memory
    BY <2>3, <1>1, MemoryFields
  <2>5. Becomes(<<[mem EXCEPT !.queue = Enqueue(rest, task)]>>) /\ UNCHANGED <<held, pausing>>
    BY <1>11 DEF Reorder
  <2> HIDE DEF rest, task
  <2> QED BY <2>4, <2>5, <1>1
<1>12. ASSUME Interrupt PROVE OneSave /\ HolderTypeOK'
  <2>1. [mem EXCEPT !.running = pausing] \in Memory
    BY <1>1, MemoryFields
  <2> QED BY <2>1, <1>1, <1>12 DEF Interrupt
<1> QED
  BY <1>4, <1>5, <1>6, <1>7, <1>8, <1>9, <1>10, <1>11, <1>12 DEF Methods, OtherMethods

-----------------------------------------------------------------------------
LEMMA NothingSent == /\ << >> \in Seq(Command) /\ Len(<< >>) = 0
                     /\ << >> \in Seq(Memory \cup {None})
OBVIOUS

LEMMA TypeInit == Init => TypeOK
<1> SUFFICES ASSUME Init PROVE LinkTypeOK /\ held = {} /\ pausing = None
  BY TypeParts
<1>1. wire \in Seq(Command) /\ Len(wire) <= MaxWire
  BY NothingSent, BoundsAssumption DEF Init
<1>2. replies \in Seq(Memory \cup {None})
  BY NothingSent DEF Init
<1> QED BY <1>1, <1>2, EmptyType DEF Init, LinkTypeOK

LEMMA MethodsType ==
  ASSUME TypeOK, Methods
  PROVE  TypeOK'
<1>1. LinkTypeOK /\ HolderTypeOK
  BY TypeParts DEF HolderTypeOK
<1>2. CASE \A task \in held : ~ Pause(task)
  <2>1. LinkTypeOK'
    <3>1. ASSUME NEW m \in Memory, Becomes(<<m>>) PROVE LinkTypeOK'
      <4>1. <<m>> \in Seq(Memory) /\ <<m>> # << >>
        OBVIOUS
      <4> QED BY <4>1, <3>1, <1>1, BecomesType
    <3>2. ASSUME NEW m \in Memory, NEW n \in Memory, Becomes(<<m, n>>) PROVE LinkTypeOK'
      <4>1. <<m, n>> \in Seq(Memory) /\ <<m, n>> # << >>
        OBVIOUS
      <4> QED BY <4>1, <3>2, <1>1, BecomesType
    <3> QED BY <3>1, <3>2, <1>2, MethodShape DEF OneSave, TwoSaves
  <2>2. HolderTypeOK'
    BY <1>2, MethodShape
  <2> QED BY <2>1, <2>2 DEF TypeOK, LinkTypeOK, HolderTypeOK, Command
<1>3. CASE \E task \in held : Pause(task)
  <2>1. PICK task \in held : Pause(task)
    BY <1>3
  <2>2. mem' \in Memory
    <3> DEFINE p == (mem.paused \ Resumable(mem.running.ticket)) \cup {mem.running}
    <3>1. mem \in Memory /\ mem.running # None
      BY <1>1, <2>1 DEF LinkTypeOK, Pause
    <3>2. p \in SUBSET Task
      BY <3>1, MemoryFields
    <3>3. mem' = [mem EXCEPT !.paused = p]
      BY <2>1 DEF Pause
    <3> HIDE DEF p
    <3> QED BY <3>1, <3>2, <3>3, MemoryFields
  <2>3. HolderTypeOK'
    BY <1>1, <2>1 DEF Pause, HolderTypeOK
  <2> QED BY <1>1, <2>1, <2>2, <2>3 DEF Pause, client, TypeOK, LinkTypeOK, HolderTypeOK, Command
<1> QED BY <1>2, <1>3

LEMMA RedisType ==
  ASSUME TypeOK, Redis
  PROVE  TypeOK'
<1> USE DEF LinkTypeOK, HolderTypeOK
<1>1. LinkTypeOK /\ HolderTypeOK
  BY TypeParts
<1> SUFFICES LinkTypeOK' /\ HolderTypeOK'
  BY DEF TypeOK, Command
<1>2. CASE Connect
  <2>1. Get \in Command
    BY EmptyType DEF Get, Command
  <2>2. wire' \in Seq(Command) /\ Len(wire') <= MaxWire
    BY <1>1, <1>2, <2>1 DEF Connect, LoadLast
  <2> QED BY <1>1, <1>2, <2>2 DEF Connect, Loading
<1>3. CASE Execute
  <2>1. wire # << >> /\ Head(wire) \in Command /\ wire' \in Seq(Command) /\ Len(wire') <= MaxWire
    BY <1>1, <1>3, TailProperties DEF Execute
  <2>2. Head(wire).value \in Memory
    BY <2>1 DEF Command
  <2>3. store' \in Memory \cup {None} /\ replies' \in Seq(Memory \cup {None})
    <3>1. Append(replies, store) \in Seq(Memory \cup {None})
      BY <1>1
    <3> QED BY <1>1, <1>3, <2>2, <3>1, Zenon DEF Execute
  <2> QED BY <1>1, <1>3, <2>1, <2>3 DEF Execute
<1>4. CASE Disconnect
  <2>1. PICK n \in 0 .. Len(wire) :
             /\ wire' = SubSeq(wire, n + 1, Len(wire))
             /\ unsaved' = (unsaved \/ (HasSet(wire) /\ ~ HasSet(wire')))
    BY <1>4 DEF Disconnect
  <2>2. wire' \in Seq(Command) /\ Len(wire') <= MaxWire
    BY <1>1, <2>1
  <2>3. unsaved' \in BOOLEAN
    BY <1>1, <2>1 DEF HasSet
  <2> QED BY <1>1, <1>4, <2>2, <2>3, NothingSent DEF Disconnect
<1>5. CASE Load
  <2>1. Head(replies) \in Memory \cup {None} /\ replies' \in Seq(Memory \cup {None})
    BY <1>1, <1>5 DEF Load
  <2> QED BY <1>1, <1>5, <2>1 DEF Load
<1>6. CASE Restart
  <2>1. wire' \in Seq(Command) /\ Len(wire') <= MaxWire
    BY <1>6, NothingSent, BoundsAssumption DEF Restart
  <2>2. replies' \in Seq(Memory \cup {None})
    BY <1>6, NothingSent DEF Restart
  <2> QED BY <1>1, <1>6, <2>1, <2>2, EmptyType DEF Restart
<1> QED BY <1>2, <1>3, <1>4, <1>5, <1>6 DEF Redis

LEMMA TypeStep == TypeOK /\ [Next]_vars => TypeOK'
<1>1. CASE UNCHANGED vars
  BY <1>1 DEF vars, client, TypeOK
<1> QED BY <1>1, MethodsType, RedisType DEF Next

(* TypeOK, for any tickets and bounds: the memory is well formed after any       *)
(* methods, outages, loads and restarts.                                        *)
THEOREM TypeCorrect == Spec => []TypeOK
BY TypeInit, TypeStep, PTL DEF Spec

-----------------------------------------------------------------------------
(***************************************************************************)
(* Why Redis keeps up: unless the last save is known to be lost or         *)
(* overtaken, the newest SET on the wire carries the memory, or Redis      *)
(* already holds it; and unless a SET was issued after the pending GET,    *)
(* what the GET will answer is what Redis holds when the answer arrives.   *)
(***************************************************************************)
IsNewest(m) ==
    \/ \E i \in 1 .. Len(wire) : /\ wire[i] = Set(m)
                                 /\ \A j \in i + 1 .. Len(wire) : ~ IsSet(wire[j])
    \/ ~ HasSet(wire) /\ store = m

LoadsWhatIsStored ==
    /\ \A i, j \in 1 .. Len(wire) : i < j /\ ~ IsSet(wire[i]) => ~ IsSet(wire[j])
    /\ replies # << >> => ~ HasSet(wire)
    /\ \A i \in 1 .. Len(replies) : replies[i] = store

StoreInv == (~ unsaved => IsNewest(mem)) /\ (~ overlap => LoadsWhatIsStored)

LEMMA SetIsSet == \A m : IsSet(Set(m)) /\ ~ IsSet(Get)
BY DEF IsSet, Set, Get

LEMMA BecomesStore ==
  ASSUME LinkTypeOK, StoreInv, NEW ms \in Seq(Memory), ms # << >>, Becomes(ms)
  PROVE  StoreInv'
<1>1. Len(ms) \in 1 .. Len(ms) /\ Len(wire) \in Nat /\ mem' = ms[Len(ms)]
  BY DEF LinkTypeOK, Becomes
<1>2. ASSUME linked PROVE IsNewest(mem)'
  <2>1. wire' = Saved(ms) /\ Len(wire') = Len(wire) + Len(ms)
    BY <1>2, SavedType DEF LinkTypeOK, Becomes
  <2>2. wire'[Len(wire) + Len(ms)] = Set(mem')
    BY <1>1, <1>2, <2>1, SavedType DEF LinkTypeOK
  <2>3. Len(wire') \in 1 .. Len(wire') /\ Len(wire') + 1 .. Len(wire') = {}
    BY <1>1, <2>1
  <2> QED BY <2>1, <2>2, <2>3 DEF IsNewest
<1>3. ASSUME ~ overlap' PROVE LoadsWhatIsStored'
  <2>1. replies' = << >> /\ \A i \in 1 .. Len(wire) : IsSet(wire[i])
    BY <1>3 DEF Becomes, Loading
  <2>2. \A i \in 1 .. Len(wire') : IsSet(wire'[i])
    <3>1. CASE linked
      <4>1. wire' = Saved(ms) /\ Len(wire') = Len(wire) + Len(ms)
        BY <3>1, SavedType DEF LinkTypeOK, Becomes
      <4>2. ASSUME NEW i \in 1 .. Len(wire'), i > Len(wire) PROVE IsSet(wire'[i])
        <5>1. i - Len(wire) \in 1 .. Len(ms) /\ Len(wire) + (i - Len(wire)) = i
          BY <1>1, <4>1, <4>2
        <5>2. wire'[i] = Set(ms[i - Len(wire)])
          BY <3>1, <4>1, <5>1, SavedType DEF LinkTypeOK
        <5> QED BY <5>2, SetIsSet
      <4>3. ASSUME NEW i \in 1 .. Len(wire) PROVE IsSet(wire'[i])
        BY <2>1, <3>1, <4>1, <4>3, SavedType DEF LinkTypeOK
      <4> QED BY <1>1, <4>1, <4>2, <4>3
    <3>2. CASE ~ linked
      BY <2>1, <3>2 DEF Becomes, Saved
    <3> QED BY <3>1, <3>2
  <2>3. Len(replies') = 0
    BY <2>1
  <2> QED BY <2>1, <2>2, <2>3 DEF LoadsWhatIsStored
<1> QED BY <1>2, <1>3 DEF StoreInv, Becomes

LEMMA MethodsStore ==
  ASSUME TypeOK, StoreInv, Methods
  PROVE  StoreInv'
<1>1. LinkTypeOK
  BY TypeParts
<1>2. CASE \A task \in held : ~ Pause(task)
  <2>1. ASSUME NEW m \in Memory, Becomes(<<m>>) PROVE StoreInv'
    <3>1. <<m>> \in Seq(Memory) /\ <<m>> # << >>
      OBVIOUS
    <3> QED BY <3>1, <2>1, <1>1, BecomesStore
  <2>2. ASSUME NEW m \in Memory, NEW n \in Memory, Becomes(<<m, n>>) PROVE StoreInv'
    <3>1. <<m, n>> \in Seq(Memory) /\ <<m, n>> # << >>
      OBVIOUS
    <3> QED BY <3>1, <2>2, <1>1, BecomesStore
  <2> QED BY <2>1, <2>2, <1>2, MethodShape DEF OneSave, TwoSaves
<1>3. CASE \E task \in held : Pause(task)
  <2>1. unsaved' /\ UNCHANGED <<wire, replies, store, overlap>>
    BY <1>3 DEF Pause, client
  <2> QED BY <2>1 DEF StoreInv, LoadsWhatIsStored, HasSet
<1> QED BY <1>2, <1>3

LEMMA ConnectStore ==
  ASSUME TypeOK, StoreInv, Connect
  PROVE  StoreInv'
<1>1. LinkTypeOK /\ Len(wire) \in Nat
  BY TypeParts DEF LinkTypeOK
<1>2. /\ Len(wire') = Len(wire) + 1
      /\ wire'[Len(wire) + 1] = Get
      /\ \A i \in 1 .. Len(wire) : wire'[i] = wire[i]
  <2>1. Get \in Command
    BY EmptyType DEF Get, Command
  <2> QED BY <1>1, <2>1 DEF LinkTypeOK, Connect, LoadLast
<1>3. HasSet(wire)' <=> HasSet(wire)
  BY <1>1, <1>2, SetIsSet DEF HasSet
<1>4. ASSUME IsNewest(mem) PROVE IsNewest(mem)'
  <2>1. ASSUME NEW i \in 1 .. Len(wire), wire[i] = Set(mem),
               \A j \in i + 1 .. Len(wire) : ~ IsSet(wire[j])
        PROVE  IsNewest(mem)'
    <3>1. \A j \in i + 1 .. Len(wire') : ~ IsSet(wire'[j])
      BY <1>1, <1>2, <2>1, SetIsSet
    <3>2. i \in 1 .. Len(wire') /\ wire'[i] = Set(mem')
      BY <1>1, <1>2, <2>1 DEF Connect
    <3> QED BY <3>1, <3>2 DEF IsNewest
  <2>2. ASSUME ~ HasSet(wire), store = mem PROVE IsNewest(mem)'
    BY <1>3, <2>2 DEF IsNewest, Connect
  <2> QED BY <1>4, <2>1, <2>2 DEF IsNewest
<1>5. ASSUME ~ overlap' PROVE LoadsWhatIsStored'
  <2>1. CASE ~ overlap
    <3>1. LoadsWhatIsStored
      BY <2>1 DEF StoreInv
    <3>2. \A i, j \in 1 .. Len(wire') : i < j /\ ~ IsSet(wire'[i]) => ~ IsSet(wire'[j])
      BY <1>1, <1>2, <3>1, SetIsSet DEF LoadsWhatIsStored
    <3> QED BY <1>3, <3>1, <3>2 DEF LoadsWhatIsStored, Connect
  <2>2. CASE ~ Loading
    <3>1. replies' = << >> /\ \A i \in 1 .. Len(wire) : IsSet(wire[i])
      BY <2>2 DEF Connect, Loading
    <3>2. \A i, j \in 1 .. Len(wire') : i < j => IsSet(wire'[i])
      BY <1>1, <1>2, <3>1
    <3>3. Len(replies') = 0
      BY <3>1
    <3> QED BY <3>1, <3>2, <3>3 DEF LoadsWhatIsStored
  <2> QED BY <1>5, <2>1, <2>2 DEF Connect
<1> QED BY <1>4, <1>5 DEF StoreInv, Connect

(* A command that leaves the front of the wire.                                 *)
LEMMA WireTail ==
  ASSUME TypeOK, NEW n \in 0 .. Len(wire), wire' = SubSeq(wire, n + 1, Len(wire))
  PROVE  /\ Len(wire) \in Nat /\ Len(wire') = Len(wire) - n
         /\ \A i \in 1 .. Len(wire') : wire'[i] = wire[i + n]
BY TypeParts DEF LinkTypeOK

LEMMA TailKeepsNewest ==
  ASSUME TypeOK, NEW n \in 0 .. Len(wire), wire' = SubSeq(wire, n + 1, Len(wire)), mem' = mem,
         NEW i \in n + 1 .. Len(wire), wire[i] = Set(mem),
         \A j \in i + 1 .. Len(wire) : ~ IsSet(wire[j])
  PROVE  IsNewest(mem)'
<1>1. /\ Len(wire) \in Nat /\ Len(wire') = Len(wire) - n
      /\ \A j \in 1 .. Len(wire') : wire'[j] = wire[j + n]
  BY WireTail
<1>2. i - n \in 1 .. Len(wire') /\ (i - n) + n = i
  BY <1>1
<1>3. wire'[i - n] = Set(mem')
  BY <1>1, <1>2
<1>4. ASSUME NEW j \in (i - n) + 1 .. Len(wire') PROVE ~ IsSet(wire'[j])
  <2>1. j \in 1 .. Len(wire') /\ j + n \in i + 1 .. Len(wire)
    BY <1>1, <1>2
  <2> QED BY <1>1, <2>1
<1> QED BY <1>2, <1>3, <1>4 DEF IsNewest

LEMMA DisconnectStore ==
  ASSUME TypeOK, StoreInv, Disconnect
  PROVE  StoreInv'
<1>1. PICK n \in 0 .. Len(wire) :
           /\ wire' = SubSeq(wire, n + 1, Len(wire))
           /\ unsaved' = (unsaved \/ (HasSet(wire) /\ ~ HasSet(wire')))
  BY DEF Disconnect
<1>2. /\ Len(wire) \in Nat /\ Len(wire') = Len(wire) - n
      /\ \A j \in 1 .. Len(wire') : wire'[j] = wire[j + n]
  BY <1>1, WireTail
<1>3. mem' = mem /\ store' = store /\ overlap' = overlap /\ replies' = << >> /\ Len(replies') = 0
  BY DEF Disconnect
<1>4. HasSet(wire') => \E i \in n + 1 .. Len(wire) : IsSet(wire[i])
  <2>1. ASSUME NEW j \in 1 .. Len(wire'), IsSet(wire'[j])
        PROVE  \E i \in n + 1 .. Len(wire) : IsSet(wire[i])
    <3>1. j + n \in n + 1 .. Len(wire)
      BY <1>2
    <3> QED BY <1>2, <2>1, <3>1
  <2> QED BY <2>1 DEF HasSet
<1>5. ASSUME ~ unsaved' PROVE IsNewest(mem)'
  <2>1. ~ unsaved /\ IsNewest(mem) /\ (HasSet(wire) => HasSet(wire'))
    BY <1>1, <1>5 DEF StoreInv
  <2>2. CASE HasSet(wire)
    <3>1. PICK i \in 1 .. Len(wire) : wire[i] = Set(mem) /\ \A j \in i + 1 .. Len(wire) : ~ IsSet(wire[j])
      BY <2>1, <2>2 DEF IsNewest
    <3>2. PICK k \in n + 1 .. Len(wire) : IsSet(wire[k])
      BY <1>4, <2>1, <2>2
    <3>3. i \in n + 1 .. Len(wire)
      BY <1>2, <3>1, <3>2
    <3> QED BY <1>1, <1>3, <3>1, <3>3, TailKeepsNewest
  <2>3. CASE ~ HasSet(wire)
    <3>1. store' = mem'
      BY <1>3, <2>1, <2>3, SetIsSet DEF IsNewest, HasSet
    <3>2. ~ HasSet(wire)'
      BY <1>2, <1>4, <2>3 DEF HasSet
    <3> QED BY <3>1, <3>2 DEF IsNewest
  <2> QED BY <2>2, <2>3
<1>6. ASSUME ~ overlap' PROVE LoadsWhatIsStored'
  <2>1. LoadsWhatIsStored
    BY <1>3, <1>6 DEF StoreInv
  <2>2. ASSUME NEW i \in 1 .. Len(wire'), NEW j \in 1 .. Len(wire'), i < j, ~ IsSet(wire'[i])
        PROVE  ~ IsSet(wire'[j])
    <3>1. i + n \in 1 .. Len(wire) /\ j + n \in 1 .. Len(wire) /\ i + n < j + n
      BY <1>2, <2>2
    <3> QED BY <1>2, <2>1, <2>2, <3>1 DEF LoadsWhatIsStored
  <2> QED BY <1>3, <2>2 DEF LoadsWhatIsStored
<1> QED BY <1>5, <1>6 DEF StoreInv

LEMMA ExecuteStore ==
  ASSUME TypeOK, StoreInv, Execute
  PROVE  StoreInv'
<1>1. /\ Len(wire) \in Nat /\ 1 \in 1 .. Len(wire) /\ Head(wire) = wire[1]
      /\ Len(wire') = Len(wire) - 1
      /\ \A i \in 1 .. Len(wire') : wire'[i] = wire[i + 1]
  BY TypeParts, TailProperties DEF LinkTypeOK, Execute
<1>2. mem' = mem /\ unsaved' = unsaved /\ overlap' = overlap
  BY DEF Execute
<1>3. HasSet(wire)' <=> \E i \in 2 .. Len(wire) : IsSet(wire[i])
  <2>1. ASSUME NEW i \in 1 .. Len(wire'), IsSet(wire'[i])
        PROVE  \E k \in 2 .. Len(wire) : IsSet(wire[k])
    <3>1. i + 1 \in 2 .. Len(wire) /\ IsSet(wire[i + 1])
      BY <1>1, <2>1
    <3> QED BY <3>1
  <2>2. ASSUME NEW k \in 2 .. Len(wire), IsSet(wire[k])
        PROVE  \E i \in 1 .. Len(wire') : IsSet(wire'[i])
    <3>1. k - 1 \in 1 .. Len(wire') /\ (k - 1) + 1 = k
      BY <1>1
    <3>2. IsSet(wire'[k - 1])
      BY <1>1, <2>2, <3>1
    <3> QED BY <3>1, <3>2
  <2> QED BY <2>1, <2>2 DEF HasSet
<1>4. ASSUME IsNewest(mem) PROVE IsNewest(mem)'
  <2>1. ASSUME NEW i \in 1 .. Len(wire), wire[i] = Set(mem),
               \A j \in i + 1 .. Len(wire) : ~ IsSet(wire[j])
        PROVE  IsNewest(mem)'
    <3>1. CASE i = 1
      <4>1. store' = mem'
        BY <1>1, <1>2, <2>1, <3>1, SetIsSet DEF Execute, Set
      <4>2. ~ HasSet(wire)'
        BY <1>3, <2>1, <3>1
      <4> QED BY <4>1, <4>2 DEF IsNewest
    <3>2. CASE i # 1
      <4>1. i - 1 \in 1 .. Len(wire') /\ (i - 1) + 1 = i
        BY <1>1, <3>2
      <4>2. wire'[i - 1] = Set(mem')
        BY <1>1, <1>2, <2>1, <4>1
      <4>3. ASSUME NEW j \in (i - 1) + 1 .. Len(wire') PROVE ~ IsSet(wire'[j])
        <5>1. j \in 1 .. Len(wire') /\ j + 1 \in i + 1 .. Len(wire)
          BY <1>1, <4>1
        <5> QED BY <1>1, <2>1, <5>1
      <4> QED BY <4>1, <4>2, <4>3 DEF IsNewest
    <3> QED BY <3>1, <3>2
  <2>2. ASSUME ~ HasSet(wire), store = mem PROVE IsNewest(mem)'
    <3>1. store' = mem'
      BY <1>1, <1>2, <2>2 DEF Execute, HasSet
    <3>2. ~ HasSet(wire)'
      BY <1>1, <1>3, <2>2 DEF HasSet
    <3> QED BY <3>1, <3>2 DEF IsNewest
  <2> QED BY <1>4, <2>1, <2>2 DEF IsNewest
<1>5. ASSUME ~ overlap' PROVE LoadsWhatIsStored'
  <2>1. LoadsWhatIsStored
    BY <1>2, <1>5 DEF StoreInv
  <2>2. ASSUME NEW i \in 1 .. Len(wire'), NEW j \in 1 .. Len(wire'), i < j, ~ IsSet(wire'[i])
        PROVE  ~ IsSet(wire'[j])
    <3>1. i + 1 \in 1 .. Len(wire) /\ j + 1 \in 1 .. Len(wire) /\ i + 1 < j + 1
      BY <1>1, <2>2
    <3> QED BY <1>1, <2>1, <2>2, <3>1 DEF LoadsWhatIsStored
  <2>3. CASE IsSet(Head(wire))
    <3>1. replies = << >>
      BY <1>1, <2>1, <2>3 DEF LoadsWhatIsStored, HasSet
    <3>2. replies' = << >> /\ Len(replies') = 0
      BY <2>3, <3>1 DEF Execute
    <3> QED BY <2>2, <3>2 DEF LoadsWhatIsStored
  <2>4. CASE ~ IsSet(Head(wire))
    <3>1. store' = store /\ replies' = Append(replies, store) /\ replies \in Seq(Memory \cup {None})
      BY <2>4, TypeParts DEF Execute, LinkTypeOK
    <3>2. \A i \in 1 .. Len(replies') : replies'[i] = store'
      BY <2>1, <3>1 DEF LoadsWhatIsStored
    <3>3. ~ HasSet(wire)'
      BY <1>1, <1>3, <2>1, <2>4 DEF LoadsWhatIsStored
    <3> QED BY <2>2, <3>2, <3>3 DEF LoadsWhatIsStored
  <2> QED BY <2>3, <2>4
<1> QED BY <1>2, <1>4, <1>5 DEF StoreInv

LEMMA LoadStore ==
  ASSUME TypeOK, StoreInv, Load
  PROVE  StoreInv'
<1>1. UNCHANGED <<wire, store, overlap>>
  BY DEF Load
<1>2. /\ Len(replies) \in Nat /\ 1 \in 1 .. Len(replies) /\ Head(replies) = replies[1]
      /\ Len(replies') = Len(replies) - 1
      /\ \A i \in 1 .. Len(replies') : replies'[i] = replies[i + 1]
  BY TypeParts, TailProperties DEF LinkTypeOK, Load
<1>3. ASSUME ~ overlap PROVE LoadsWhatIsStored'
  <2>1. LoadsWhatIsStored
    BY <1>3 DEF StoreInv
  <2>2. ASSUME NEW i \in 1 .. Len(replies') PROVE replies'[i] = store'
    <3>1. i + 1 \in 1 .. Len(replies)
      BY <1>2
    <3> QED BY <1>1, <1>2, <2>1, <3>1 DEF LoadsWhatIsStored
  <2>3. ~ HasSet(wire)'
    BY <1>1, <2>1 DEF LoadsWhatIsStored, HasSet, Load
  <2> QED BY <1>1, <2>1, <2>2, <2>3 DEF LoadsWhatIsStored
<1>4. ASSUME ~ unsaved' PROVE IsNewest(mem)'
  <2>1. CASE Head(replies) = None
    BY <1>1, <1>4, <2>1 DEF Load, StoreInv, IsNewest, HasSet
  <2>2. CASE Head(replies) # None
    <3>1. mem' = replies[1] /\ ~ overlap
      BY <1>2, <1>4, <2>2 DEF Load
    <3>2. LoadsWhatIsStored /\ replies # << >>
      BY <3>1 DEF StoreInv, Load
    <3>3. store' = mem' /\ ~ HasSet(wire)'
      BY <1>1, <1>2, <3>1, <3>2 DEF LoadsWhatIsStored, HasSet
    <3> QED BY <3>3 DEF IsNewest
  <2> QED BY <2>1, <2>2
<1> QED BY <1>1, <1>3, <1>4 DEF StoreInv

LEMMA StoreStep == TypeOK /\ StoreInv /\ [Next]_vars => StoreInv'
<1> SUFFICES ASSUME TypeOK, StoreInv, [Next]_vars PROVE StoreInv'
  OBVIOUS
<1>1. CASE Restart
  <2>1. unsaved' /\ ~ overlap' /\ wire' = << >> /\ replies' = << >>
    BY <1>1 DEF Restart
  <2>2. Len(wire') = 0 /\ Len(replies') = 0
    BY <2>1
  <2> QED BY <2>1, <2>2 DEF StoreInv, LoadsWhatIsStored
<1>2. CASE UNCHANGED vars
  BY <1>2 DEF vars, client, StoreInv, IsNewest, LoadsWhatIsStored, HasSet
<1> QED
  BY <1>1, <1>2, MethodsStore, ConnectStore, ExecuteStore, DisconnectStore, LoadStore
  DEF Next, Redis

LEMMA StoreInit == Init => StoreInv
<1> SUFFICES ASSUME Init PROVE StoreInv
  OBVIOUS
<1>1. unsaved /\ wire = << >> /\ replies = << >>
  BY DEF Init
<1>2. Len(wire) = 0 /\ Len(replies) = 0
  BY <1>1
<1> QED BY <1>1, <1>2 DEF StoreInv, LoadsWhatIsStored

LEMMA QuietStore == StoreInv => StoreKeepsUp
<1> SUFFICES ASSUME StoreInv, wire = << >>, ~ unsaved PROVE store = mem
  BY DEF StoreKeepsUp
<1>1. Len(wire) = 0
  OBVIOUS
<1> QED BY <1>1 DEF StoreInv, IsNewest

(* StoreKeepsUp, for any tickets and any number of commands on the wire: once   *)
(* the link is quiet Redis holds the memory, unless a save was lost or a load   *)
(* overtook one and no method has run since.                                    *)
THEOREM StoreAlwaysKeepsUp == Spec => []StoreKeepsUp
<1>1. Init => TypeOK /\ StoreInv
  BY TypeInit, StoreInit
<1>2. TypeOK /\ StoreInv /\ [Next]_vars => (TypeOK /\ StoreInv)'
  BY TypeStep, StoreStep
<1> QED BY <1>1, <1>2, QuietStore, PTL DEF Spec

(* On every queue the methods can build, and for every task and ticket, the     *)
(* closed forms the actions use are the loops of enqueue() and filter.          *)
THEOREM LoopsAlwaysAgree == Spec => []QueueOpsAreLoops
<1>1. TypeOK => QueueOpsAreLoops
  <2> SUFFICES ASSUME TypeOK PROVE QueueOpsAreLoops
    OBVIOUS
  <2>1. mem.queue \in Seq(Task)
    BY TypeParts, MemoryFields DEF LinkTypeOK
  <2> QED BY <2>1, EnqueueIsLoop, WithoutIsLoop DEF QueueOpsAreLoops
<1> QED BY <1>1, TypeCorrect, PTL

-----------------------------------------------------------------------------
(***************************************************************************)
(* The failover of the PM.  Induction over the saved queue is by UpTo.     *)
(***************************************************************************)
(* The function of the turns exists: it is what its definition says.            *)
IsTurns(f, m, tasks, n) == f = [i \in 0 .. n |-> IF i = 0 THEN m ELSE Add(f[i - 1], tasks[i])]

LEMMA TurnsExist ==
  ASSUME NEW m, NEW S, NEW tasks \in Seq(S)
  PROVE  IsTurns(Turns(m, tasks), m, tasks, Len(tasks))
<1> DEFINE N == Len(tasks)
           Good == {n \in 0 .. N : \E f : IsTurns(f, m, tasks, n)}
<1>1. N \in Nat
  OBVIOUS
<1> HIDE DEF N
<1>2. 0 \in Good
  <2>1. IsTurns([i \in 0 .. 0 |-> m], m, tasks, 0)
    BY DEF IsTurns
  <2> QED BY <1>1, <2>1
<1>3. ASSUME NEW n \in 1 .. N, n - 1 \in Good PROVE n \in Good
  <2>1. PICK f : IsTurns(f, m, tasks, n - 1)
    BY <1>3
  <2> DEFINE g == [i \in 0 .. n |-> IF i = n THEN Add(f[n - 1], tasks[n]) ELSE f[i]]
             h == [i \in 0 .. n |-> IF i = 0 THEN m ELSE Add(g[i - 1], tasks[i])]
  <2>2. ASSUME NEW i \in 0 .. n PROVE g[i] = h[i]
    <3>1. CASE i = n
      <4>1. g[n - 1] = f[n - 1] /\ n # 0
        BY <1>1
      <4> HIDE DEF g
      <4>2. h[n] = Add(g[n - 1], tasks[n])
        BY <1>1, <4>1
      <4> QED BY <1>1, <3>1, <4>1, <4>2 DEF g
    <3>2. CASE i # n /\ i = 0
      <4>1. f[0] = m
        BY <1>1, <2>1 DEF IsTurns
      <4> QED BY <1>1, <3>2, <4>1
    <3>3. CASE i # n /\ i # 0
      <4>1. i \in 0 .. n - 1 /\ i - 1 \in 0 .. n /\ i - 1 # n
        BY <1>1, <3>3
      <4>2. f[i] = Add(f[i - 1], tasks[i])
        BY <2>1, <3>3, <4>1 DEF IsTurns
      <4>3. g[i - 1] = f[i - 1] /\ g[i] = f[i]
        BY <3>3, <4>1
      <4> HIDE DEF g
      <4>4. h[i] = Add(g[i - 1], tasks[i])
        BY <3>3
      <4> QED BY <4>2, <4>3, <4>4
    <3> QED BY <3>1, <3>2, <3>3
  <2>3. g = h
    BY <2>2
  <2>4. IsTurns(g, m, tasks, n)
    BY <2>3 DEF IsTurns
  <2> HIDE DEF g
  <2> QED BY <1>1, <2>4
<1>4. N \in Good
  <2> HIDE DEF Good
  <2> QED BY <1>1, <1>2, <1>3, UpTo
<1>5. \E f : IsTurns(f, m, tasks, N)
  BY <1>4
<1> QED BY <1>5, Zenon DEF Turns, IsTurns, N

(* One turn: the saved task is known afterwards, and so is whatever was before. *)
Known(m, t) == Runs(m, t) \/ Queued(m.queue, t)

LEMMA AddProperties ==
  ASSUME NEW m \in Memory, NEW task \in Task
  PROVE  /\ Add(m, task) \in Memory
         /\ Once(m.queue) => Once(Add(m, task).queue)
         /\ Sorted(m.queue) => Sorted(Add(m, task).queue)
         /\ \A t : Known(m, t) => Known(Add(m, task), t)
         /\ Known(Add(m, task), task.ticket)
<1>1. CASE Known(m, task.ticket)
  BY <1>1 DEF Add, Known
<1>2. CASE ~ Known(m, task.ticket)
  <2> DEFINE q == Enqueue(m.queue, task)
             n == [m EXCEPT !.queue = q]
  <2>1. Add(m, task) = n
    BY <1>2 DEF Add, Known
  <2>2. m.queue \in Seq(Task)
    BY MemoryFields
  <2>3. /\ q \in Seq(Task)
        /\ Sorted(m.queue) => Sorted(q)
        /\ \A u : Queued(q, u) <=> Queued(m.queue, u) \/ u = task.ticket
    BY <2>2, EnqueueProperties
  <2>4. Once(m.queue) => Once(q)
    BY <1>2, <2>2, EnqueueOnce DEF Known
  <2> HIDE DEF q
  <2>5. n \in Memory /\ n.queue = q /\ n.running = m.running
    BY <2>3, MemoryFields DEF Memory
  <2> HIDE DEF n
  <2> QED BY <2>1, <2>3, <2>4, <2>5 DEF Known, Runs
<1> QED BY <1>1, <1>2

(* The loop: after its last turn every saved ticket is known; no ticket waits   *)
(* twice and no task waits behind a less urgent one, if that was so before.     *)
LEMMA TurnsProperties ==
  ASSUME NEW m \in Memory, NEW tasks \in Seq(Task)
  PROVE  LET f == Turns(m, tasks)
             n == Len(tasks)
         IN  /\ f[0] = m
             /\ \A i \in 0 .. n : f[i] \in Memory
             /\ Once(m.queue) => Once(f[n].queue)
             /\ Sorted(m.queue) => Sorted(f[n].queue)
             /\ \A j \in 1 .. n : Known(f[n], tasks[j].ticket)
<1> DEFINE f == Turns(m, tasks)
           n == Len(tasks)
<1>1. f = [i \in 0 .. n |-> IF i = 0 THEN m ELSE Add(f[i - 1], tasks[i])]
  BY TurnsExist DEF IsTurns
<1>2. n \in Nat /\ \A i \in 1 .. n : tasks[i] \in Task
  OBVIOUS
<1> HIDE DEF f, n
<1>3. f[0] = m
  BY <1>1, <1>2
<1>4. \A i \in 1 .. n : f[i] = Add(f[i - 1], tasks[i])
  <2> SUFFICES ASSUME NEW i \in 1 .. n PROVE f[i] = Add(f[i - 1], tasks[i])
    OBVIOUS
  <2>1. i \in 0 .. n /\ i # 0
    BY <1>2
  <2> QED BY <1>1, <2>1
<1> DEFINE Ok(x) == /\ x \in Memory
                    /\ Once(m.queue) => Once(x.queue)
                    /\ Sorted(m.queue) => Sorted(x.queue)
           Fine == {i \in 0 .. n : Ok(f[i])}
<1>5. Ok(m)
  OBVIOUS
<1>6. ASSUME NEW x, NEW task \in Task, Ok(x) PROVE Ok(Add(x, task))
  BY <1>6, AddProperties, Zenon
<1> HIDE DEF Ok
<1>7. \A i \in 0 .. n : Ok(f[i])
  <2>1. 0 \in Fine
    BY <1>2, <1>3, <1>5
  <2>2. ASSUME NEW i \in 1 .. n, i - 1 \in Fine PROVE i \in Fine
    <3>1. i \in 0 .. n /\ Ok(f[i - 1])
      BY <1>2, <2>2
    <3>2. Ok(f[i])
      BY <1>2, <1>4, <1>6, <3>1
    <3> QED BY <3>1, <3>2
  <2>3. \A i \in 0 .. n : i \in Fine
    <3> HIDE DEF Fine
    <3> QED BY <1>2, <2>1, <2>2, UpTo
  <2> QED BY <2>3
<1>8. ASSUME NEW j \in 1 .. n PROVE Known(f[n], tasks[j].ticket)
  <2> DEFINE From == {i \in 0 .. n : j <= i => Known(f[i], tasks[j].ticket)}
  <2>1. 0 \in From
    BY <1>2
  <2>2. ASSUME NEW i \in 1 .. n, i - 1 \in From PROVE i \in From
    <3>0. i \in 0 .. n /\ i - 1 \in 0 .. n
      BY <1>2
    <3>1. f[i - 1] \in Memory
      BY <1>7, <3>0 DEF Ok
    <3>2. /\ \A t : Known(f[i - 1], t) => Known(f[i], t)
          /\ Known(f[i], tasks[i].ticket)
      BY <1>2, <1>4, <3>1, AddProperties
    <3>3. CASE i = j
      BY <3>0, <3>2, <3>3
    <3>4. CASE i # j
      BY <1>2, <2>2, <3>0, <3>2, <3>4
    <3> QED BY <3>3, <3>4
  <2>3. \A i \in 0 .. n : i \in From
    <3> HIDE DEF From
    <3> QED BY <1>2, <2>1, <2>2, UpTo
  <2> QED BY <1>2, <2>3
<1>9. /\ \A i \in 0 .. n : f[i] \in Memory
      /\ Once(m.queue) => Once(f[n].queue)
      /\ Sorted(m.queue) => Sorted(f[n].queue)
  <2>1. n \in 0 .. n
    BY <1>2
  <2> QED BY <1>7, <2>1 DEF Ok
<1> QED BY <1>3, <1>8, <1>9 DEF f, n

(* What is saved along the way ends with the state after the last turn.         *)
LEMMA InjectedProperties ==
  ASSUME mem \in Memory, file \in Seq(Task)
  PROVE  /\ Injected \in Seq(Memory)
         /\ Injected = << >> => Turns(mem, file)[Len(file)] = mem
         /\ Injected # << >> => Turns(mem, file)[Len(file)] = Injected[Len(Injected)]
<1> DEFINE f == Turns(mem, file)
           n == Len(file)
           g == [i \in 1 .. n |-> f[i]]
           K == {i \in 1 .. n : f[i] # f[i - 1]}
<1>1. n \in Nat
  OBVIOUS
<1>2. f[0] = mem /\ \A i \in 0 .. n : f[i] \in Memory
  BY TurnsProperties
<1>3. Injected = Keep(g, K)
  BY DEF Injected
<1> HIDE DEF f, n
<1>4. g \in Seq(Memory) /\ Len(g) = n /\ \A i \in 1 .. n : g[i] = f[i]
  BY <1>1, <1>2
<1>5. K \in SUBSET (1 .. Len(g))
  BY <1>4
<1>6. \A i \in 1 .. n : i \notin K => f[i] = f[i - 1]
  OBVIOUS
<1> HIDE DEF g, K
<1>7. /\ Cardinality(K) \in Nat
      /\ Keep(g, K) \in Seq(Memory)
      /\ Len(Keep(g, K)) = Cardinality(K)
      /\ \A i \in 1 .. Cardinality(K) : Keep(g, K)[i] = g[KeptFrom(K, i)]
      /\ \A i \in 1 .. Cardinality(K) : KeptFrom(K, i) \in K
      /\ \A i, k \in 1 .. Cardinality(K) : i < k => KeptFrom(K, i) < KeptFrom(K, k)
      /\ \A j \in K : \E i \in 1 .. Cardinality(K) : KeptFrom(K, i) = j
  BY <1>4, <1>5, KeepProperties
<1>8. ASSUME Keep(g, K) = << >> PROVE f[n] = mem
  <2>1. Cardinality(K) = 0
    BY <1>7, <1>8
  <2>2. K = {}
    BY <1>7, <2>1
  <2> DEFINE Same == {i \in 0 .. n : f[i] = mem}
  <2>3. 0 \in Same
    BY <1>1, <1>2
  <2>4. ASSUME NEW i \in 1 .. n, i - 1 \in Same PROVE i \in Same
    BY <1>6, <2>2, <2>4
  <2>5. \A i \in 0 .. n : i \in Same
    <3> HIDE DEF Same
    <3> QED BY <1>1, <2>3, <2>4, UpTo
  <2> QED BY <1>1, <2>5
<1>9. ASSUME Keep(g, K) # << >> PROVE f[n] = Keep(g, K)[Len(Keep(g, K))]
  <2> DEFINE c == Cardinality(K)
             last == KeptFrom(K, c)
  <2>1. c \in 1 .. Cardinality(K)
    BY <1>7, <1>9
  <2>2. last \in K /\ last \in 1 .. n /\ Keep(g, K)[c] = f[last]
    BY <1>4, <1>5, <1>7, <2>1
  <2>3. ASSUME NEW j \in K PROVE j <= last
    <3>1. PICK i \in 1 .. c : KeptFrom(K, i) = j
      BY <1>7
    <3>2. j \in 1 .. n
      BY <1>4, <1>5
    <3>3. CASE i = c
      BY <2>2, <3>1, <3>3
    <3>4. CASE i < c
      BY <1>7, <2>1, <2>2, <3>1, <3>2, <3>4
    <3> QED BY <1>7, <3>3, <3>4
  <2> HIDE DEF last
  <2> DEFINE Same == {i \in 0 .. n : last <= i => f[i] = f[last]}
  <2>4. 0 \in Same
    BY <1>1, <2>2
  <2>5. ASSUME NEW i \in 1 .. n, i - 1 \in Same PROVE i \in Same
    <3>1. CASE last < i
      <4>1. i \notin K
        BY <1>1, <2>2, <2>3, <3>1
      <4> QED BY <1>1, <1>6, <2>2, <2>5, <3>1, <4>1
    <3>2. CASE ~ (last < i)
      BY <1>1, <2>2, <3>2
    <3> QED BY <3>1, <3>2
  <2>6. \A i \in 0 .. n : i \in Same
    <3> HIDE DEF Same
    <3> QED BY <1>1, <2>4, <2>5, UpTo
  <2> QED BY <1>1, <1>7, <2>2, <2>6
<1> QED BY <1>3, <1>7, <1>8, <1>9 DEF f, n

(* Whatever the injection saves, the memory it leaves is that after the loop.   *)
LEMMA InjectEnds ==
  ASSUME mem \in Memory, file \in Seq(Task), file # None, Inject
  PROVE  mem' = Turns(mem, file)[Len(file)]
<1>2. CASE InjectNothing
  BY <1>2, InjectedProperties DEF InjectNothing, vars
<1>3. CASE InjectSome
  BY <1>3, InjectedProperties DEF InjectSome, Becomes
<1> QED BY <1>2, <1>3 DEF Inject

LEMMA PMTypeInit == PMInit => PMTypeOK
BY TypeInit DEF PMInit, PMTypeOK

LEMMA PMTypeStep == PMTypeOK /\ [PMNext]_pmVars => PMTypeOK'
<1> SUFFICES ASSUME PMTypeOK, [PMNext]_pmVars PROVE PMTypeOK'
  OBVIOUS
<1>1. TypeOK /\ LinkTypeOK /\ mem.queue \in Seq(Task)
  BY TypeParts, MemoryFields DEF PMTypeOK, LinkTypeOK
<1>2. ASSUME UNCHANGED vars PROVE TypeOK'
  BY <1>1, <1>2, TypeStep
<1>3. CASE QueueStep
  <2>1. Methods /\ UNCHANGED <<file, injecting>>
    BY <1>3 DEF QueueStep, Methods
  <2>2. TypeOK'
    BY <1>1, <2>1, MethodsType
  <2>3. finished' \in SUBSET Tickets
    BY <1>3 DEF QueueStep, PMTypeOK
  <2> QED BY <2>1, <2>2, <2>3 DEF PMTypeOK
<1>4. CASE AutoPersist
  BY <1>1, <1>2, <1>4 DEF AutoPersist, PMTypeOK
<1>5. CASE PMDies
  BY <1>1, <1>2, <1>5 DEF PMDies, PMTypeOK
<1>6. CASE Inject
  <2>1. TypeOK'
    <3>1. CASE InjectNothing
      BY <1>2, <3>1 DEF InjectNothing
    <3>2. CASE InjectSome
      <4>1. Injected \in Seq(Memory) /\ Injected # << >> /\ Becomes(Injected)
        BY <1>1, <3>2, InjectedProperties DEF InjectSome, PMTypeOK, LinkTypeOK
      <4>2. LinkTypeOK'
        BY <1>1, <4>1, BecomesType
      <4>3. held' \in SUBSET Task /\ pausing' \in Task \cup {None}
        BY <1>1, <3>2, TypeParts DEF InjectSome
      <4> QED BY <4>2, <4>3 DEF TypeOK, LinkTypeOK, Command
    <3> QED BY <1>6, <3>1, <3>2 DEF Inject
  <2> QED BY <1>6, <2>1 DEF Inject, PMTypeOK
<1>7. CASE LinkStep
  BY <1>1, <1>7, RedisType DEF LinkStep, Redis, PMTypeOK
<1>8. CASE RestartStep
  <2>1. TypeOK'
    BY <1>1, <1>8, RedisType DEF RestartStep, Redis
  <2>2. file' \in Seq(Task) \cup {None}
    BY <1>1, <1>8 DEF RestartStep, PMTypeOK
  <2> QED BY <1>8, <2>1, <2>2 DEF RestartStep, PMTypeOK
<1>9. CASE UNCHANGED pmVars
  BY <1>2, <1>9 DEF pmVars, PMTypeOK
<1> QED BY <1>3, <1>4, <1>5, <1>6, <1>7, <1>8, <1>9 DEF PMNext

(* PMTypeOK, for any tickets and bounds: the queue the injection builds is a    *)
(* queue, whatever was saved.                                                   *)
THEOREM PMTypeCorrect == PMSpec => []PMTypeOK
BY PMTypeInit, PMTypeStep, PTL DEF PMSpec

LEMMA InjectMerges ==
  ASSUME PMTypeOK, Inject, file # None
  PROVE  /\ \A i \in 1 .. Len(file) : Runs(mem', file[i].ticket) \/ Queued(mem'.queue, file[i].ticket)
         /\ Once(mem.queue) => Once(mem'.queue)
         /\ Sorted(mem.queue) => Sorted(mem'.queue)
<1>1. mem \in Memory /\ file \in Seq(Task)
  BY TypeParts DEF PMTypeOK, LinkTypeOK
<1>2. mem' = Turns(mem, file)[Len(file)]
  BY <1>1, InjectEnds
<1> QED BY <1>1, <1>2, TurnsProperties DEF Known

(* InjectionMerges, for any tickets and bounds and whatever the methods have    *)
(* done since the file was written.                                             *)
THEOREM InjectionAlwaysMerges == PMSpec => InjectionMerges
<1>1. PMTypeOK /\ [PMNext]_pmVars =>
        [Inject /\ file # None =>
            /\ \A i \in 1 .. Len(file) : Runs(mem', file[i].ticket) \/ Queued(mem'.queue, file[i].ticket)
            /\ Once(mem.queue) => Once(mem'.queue)
            /\ Sorted(mem.queue) => Sorted(mem'.queue)]_pmVars
  BY InjectMerges
<1> QED BY <1>1, PMTypeCorrect, PTL DEF PMSpec, InjectionMerges

LEMMA PMStoreStep == PMTypeOK /\ StoreInv /\ [PMNext]_pmVars => StoreInv'
<1> SUFFICES ASSUME PMTypeOK, StoreInv, [PMNext]_pmVars PROVE StoreInv'
  OBVIOUS
<1>1. TypeOK /\ LinkTypeOK
  BY TypeParts DEF PMTypeOK
<1>2. ASSUME [Next]_vars PROVE StoreInv'
  BY <1>1, <1>2, StoreStep
<1>3. CASE QueueStep
  BY <1>2, <1>3 DEF QueueStep, Methods, Next
<1>4. CASE LinkStep \/ RestartStep
  BY <1>2, <1>4 DEF LinkStep, RestartStep, Redis, Next
<1>5. CASE AutoPersist \/ PMDies \/ UNCHANGED pmVars
  BY <1>2, <1>5 DEF AutoPersist, PMDies, pmVars
<1>6. CASE Inject
  <2>1. CASE InjectNothing
    BY <1>2, <2>1 DEF InjectNothing
  <2>2. CASE InjectSome
    <3>1. Injected \in Seq(Memory) /\ Injected # << >> /\ Becomes(Injected)
      BY <1>1, <2>2, InjectedProperties DEF InjectSome, PMTypeOK, LinkTypeOK
    <3> QED BY <1>1, <3>1, BecomesStore
  <2> QED BY <1>6, <2>1, <2>2 DEF Inject
<1> QED BY <1>3, <1>4, <1>5, <1>6 DEF PMNext

(* The same with the failover of the PM going on beside it: an injection saves  *)
(* as many states as it enqueues tasks, and the last of them is the memory.     *)
THEOREM StoreKeepsUpInFailover == PMSpec => []StoreKeepsUp
<1>1. PMInit => PMTypeOK /\ StoreInv
  BY PMTypeInit, StoreInit DEF PMInit
<1>2. PMTypeOK /\ StoreInv /\ [PMNext]_pmVars => (PMTypeOK /\ StoreInv)'
  BY PMTypeStep, PMStoreStep
<1> QED BY <1>1, <1>2, QuietStore, PTL DEF PMSpec
=============================================================================
