------------------------------ MODULE QueueOps ------------------------------
(***************************************************************************)
(* The pure part of orchestrator/src/core/priority-queue.ts: what its      *)
(* methods compute on the array of waiting tasks.  A task is a record with *)
(* a ticket and a priority; priorities are 0..3 for P0..P3, so a smaller   *)
(* number is more urgent.                                                  *)
(*                                                                         *)
(* Nothing here is a RECURSIVE operator, so the modules that build on this *)
(* one can be proved about.                                                *)
(***************************************************************************)
EXTENDS Integers, Sequences, FiniteSets

CONSTANT Tickets      \* the ticket ids that may be submitted

Priorities == 0 .. 3
Task == [ticket : Tickets, prio : Priorities]

(***************************************************************************)
(* enqueue(): the new task goes in front of the first strictly less urgent *)
(* one, at the end when there is none (FIFO within a priority).            *)
(***************************************************************************)
(* (Variant: in front of its own priority as well.)                             *)
IsInsertIndexBeforeEquals(q, task, i) ==
    /\ i \in 1 .. Len(q) + 1
    /\ \A j \in 1 .. i - 1 : q[j].prio < task.prio
    /\ i <= Len(q) => task.prio <= q[i].prio

IsInsertIndex(q, task, i) ==
    /\ i \in 1 .. Len(q) + 1
    /\ \A j \in 1 .. i - 1 : q[j].prio <= task.prio
    /\ i <= Len(q) => task.prio < q[i].prio

InsertIndex(q, task) == CHOOSE i \in 1 .. Len(q) + 1 : IsInsertIndex(q, task, i)

Enqueue(q, task) ==
    LET i == InsertIndex(q, task)
    IN  [j \in 1 .. Len(q) + 1 |-> IF j < i THEN q[j]
                                   ELSE IF j = i THEN task ELSE q[j - 1]]

(***************************************************************************)
(* Array.prototype.filter, in closed form: the elements of q at the        *)
(* positions in K, in their order.                                         *)
(***************************************************************************)
Rank(K, j) == Cardinality(K \cap 1 .. j)

Keep(q, K) == [i \in 1 .. Cardinality(K) |-> q[CHOOSE j \in K : Rank(K, j) = i]]

(* (Variant: findIndex and splice, for the first one only.)                     *)
WithoutFirst(q, t) ==
    Keep(q, {j \in 1 .. Len(q) : q[j].ticket # t \/ \E k \in 1 .. j - 1 : q[k].ticket = t})

Without(q, t) == Keep(q, {j \in 1 .. Len(q) : q[j].ticket # t})

(***************************************************************************)
(* The same two computations as the loops they are in the source: the      *)
(* "for" with its break and the splice of enqueue(), and filter.  The      *)
(* closed forms above are what the actions use; QueueOpsAreLoops of        *)
(* PriorityQueue says that they are these.                                 *)
(***************************************************************************)
(* insertIndex after i turns: it stays the length until a less urgent task is   *)
(* met, and then the break leaves it alone.                                     *)
IndexLoop(q, task) ==
    LET index[i \in 0 .. Len(q)] ==
            IF i = 0 THEN Len(q) + 1
            ELSE IF index[i - 1] <= Len(q) THEN index[i - 1]
            ELSE IF task.prio < q[i].prio THEN i ELSE Len(q) + 1
    IN  index

Spliced(q, i, task) == SubSeq(q, 1, i - 1) \o <<task>> \o SubSeq(q, i, Len(q))

EnqueueLoop(q, task) == Spliced(q, IndexLoop(q, task)[Len(q)], task)

(* What filter has collected after i elements.                                  *)
FilterLoop(q, t) ==
    LET kept[i \in 0 .. Len(q)] ==
            IF i = 0 THEN << >>
            ELSE IF q[i].ticket # t THEN Append(kept[i - 1], q[i]) ELSE kept[i - 1]
    IN  kept

(* Is ticket t waiting in q? *)
Queued(q, t) == \E j \in 1 .. Len(q) : q[j].ticket = t

(* The order enqueue() is meant to keep: no task waits behind a less urgent one. *)
Sorted(q) == \A i, j \in 1 .. Len(q) : i < j => q[i].prio <= q[j].prio

(* No ticket waits twice. *)
Once(q) == \A i, j \in 1 .. Len(q) : q[i].ticket = q[j].ticket => i = j
=============================================================================
