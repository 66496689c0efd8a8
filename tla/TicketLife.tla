----------------------------- MODULE TicketLife -----------------------------
(***************************************************************************)
(* What the dispatch of tickets promises, whatever fails.  Every task is   *)
(* submitted once.  It waits, or is in the hands of one handler; a handler *)
(* holds at most one and takes the most urgent that waits.  A handler that *)
(* cannot start its task gives it back; it may turn it away only as long   *)
(* as nobody was told that it is accepted.  A task whose worker has been   *)
(* launched is entered in the registry, until its worker reports.          *)
(***************************************************************************)
EXTENDS Integers

CONSTANTS
    Submissions,    \* the tasks: records with a ticket and a priority
    Tickets,
    Slots,          \* the handlers
    NoTask          \* null

VARIABLES
    seen,           \* the tickets that have been submitted
    waiting,        \* the tasks that wait
    hand,           \* the task each handler holds, or null
    entered,        \* the tickets with an entry in the registry
    accepted        \* the tickets accepted and not reported on

vars == <<seen, waiting, hand, entered, accepted>>

-----------------------------------------------------------------------------
Init ==
    /\ seen = {} /\ waiting = {} /\ entered = {} /\ accepted = {}
    /\ hand = [s \in Slots |-> NoTask]

MostUrgent(task) == task \in waiting /\ \A other \in waiting : task.prio <= other.prio

Holding(s) == hand[s] # NoTask

(* A new task waits, accepted, or a handler tries to start it first.           *)
Queue(task) ==
    /\ task.ticket \notin seen
    /\ seen' = seen \cup {task.ticket}
    /\ waiting' = waiting \cup {task}
    /\ entered' = entered \cup {task.ticket}
    /\ accepted' = accepted \cup {task.ticket}
    /\ UNCHANGED hand

Try(s, task) ==
    /\ task.ticket \notin seen /\ ~ Holding(s)
    /\ seen' = seen \cup {task.ticket}
    /\ hand' = [hand EXCEPT ![s] = task]
    /\ entered' = entered \cup {task.ticket}
    /\ UNCHANGED <<waiting, accepted>>

(* The task tried first is started, and waits nevertheless.                     *)
Accept(s) ==
    /\ Holding(s)
    /\ waiting' = waiting \cup {hand[s]}
    /\ accepted' = accepted \cup {hand[s].ticket}
    /\ hand' = [hand EXCEPT ![s] = NoTask]
    /\ UNCHANGED <<seen, entered>>

TurnAway(s) ==
    /\ Holding(s) /\ hand[s].ticket \notin accepted
    /\ entered' = entered \ {hand[s].ticket}
    /\ hand' = [hand EXCEPT ![s] = NoTask]
    /\ UNCHANGED <<seen, waiting, accepted>>

GiveBack(s) ==
    /\ Holding(s)
    /\ waiting' = waiting \cup {hand[s]}
    /\ entered' = entered \ {hand[s].ticket}
    /\ hand' = [hand EXCEPT ![s] = NoTask]
    /\ UNCHANGED <<seen, accepted>>

(* The worker of a task taken from those that waited.                           *)
Launch(s) ==
    /\ Holding(s) /\ (hand[s].ticket \in accepted => hand[s].ticket \in entered)
    /\ hand' = [hand EXCEPT ![s] = NoTask]
    /\ UNCHANGED <<seen, waiting, entered, accepted>>

Take(s, task) ==
    /\ ~ Holding(s) /\ MostUrgent(task)
    /\ waiting' = waiting \ {task}
    /\ hand' = [hand EXCEPT ![s] = task]

TakeAndEnter(s, task) ==
    /\ Take(s, task)
    /\ entered' = entered \cup {task.ticket}
    /\ UNCHANGED <<seen, accepted>>

Enter(s) ==
    /\ Holding(s)
    /\ entered' = entered \cup {hand[s].ticket}
    /\ UNCHANGED <<seen, waiting, hand, accepted>>

(* The worker of ticket t has done it; the handler takes the next task.         *)
Done(s, t) ==
    /\ accepted' = accepted \ {t}
    /\ entered' = entered \ {t}
    /\ \/ waiting = {} /\ UNCHANGED <<waiting, hand>>
       \/ \E task \in waiting : Take(s, task)
    /\ UNCHANGED seen

(* It has not: the ticket stays in the registry and waits no longer.            *)
Stuck(t) ==
    /\ accepted' = accepted \ {t}
    /\ waiting' = {task \in waiting : task.ticket # t}
    /\ UNCHANGED <<seen, hand, entered>>

Next ==
    \/ \E task \in Submissions : Queue(task) \/ \E s \in Slots : Try(s, task)
    \/ \E s \in Slots : Accept(s) \/ TurnAway(s) \/ GiveBack(s) \/ Launch(s) \/ Enter(s)
    \/ \E s \in Slots : \E task \in waiting : TakeAndEnter(s, task)
    \/ \E t \in Tickets : Stuck(t) \/ \E s \in Slots : Done(s, t)

Spec == Init /\ [][Next]_vars

-----------------------------------------------------------------------------
(* A ticket is in one place: no two tasks of it wait, it does not wait while a  *)
(* handler holds it, and no two handlers hold it.                               *)
OnePlace ==
    /\ \A task, other \in waiting : task.ticket = other.ticket => task = other
    /\ \A s \in Slots : Holding(s) =>
          /\ \A task \in waiting : task.ticket # hand[s].ticket
          /\ \A r \in Slots : Holding(r) /\ hand[r].ticket = hand[s].ticket => r = s

(* An accepted ticket waits, is held, or is entered.                            *)
NoneLost ==
    \A t \in accepted :
        \/ t \in entered
        \/ \E task \in waiting : task.ticket = t
        \/ \E s \in Slots : Holding(s) /\ hand[s].ticket = t
=============================================================================
