---------------------------- MODULE DispatchOnce ----------------------------
(***************************************************************************)
(* Dispatch under an assumption on its environment: Plane reports each     *)
(* ticket as ready at most once.  (It does not have to: a webhook is sent  *)
(* on every change of an issue, and isPickupReady() also accepts started   *)
(* ones.)                                                                  *)
(***************************************************************************)
EXTENDS Dispatch

VARIABLE seen       \* the tickets Plane has sent

onceVars == <<vars, seen>>

OnceInit == Init /\ seen = {}

OnceNext ==
    \/ \E task \in Submissions :
          /\ task.ticket \notin seen
          /\ Plane(task)
          /\ seen' = seen \cup {task.ticket}
    \/ /\ Workers \/ \E s \in Slots : Resume(s)
       /\ UNCHANGED seen

OnceSpec == OnceInit /\ [][OnceNext]_onceVars

FairOnceSpec == OnceSpec /\ Fairness /\ WorkerFairness

-----------------------------------------------------------------------------
(* Every behaviour is one of TicketLife: the queue array is a set from which    *)
(* the most urgent task is taken, a local variable is a hand, and what the      *)
(* engine, the registry and the awaits do is invisible or one of its steps.     *)
Waiting == {queue[i] : i \in 1 .. Len(queue)}
Hand    == [s \in Slots |-> call[s].task]
Entered == {t \in Tickets : registry[t] # "ABSENT"}

Life == INSTANCE TicketLife WITH waiting <- Waiting, hand <- Hand, entered <- Entered, accepted <- acked
ImplementsLife == Life!Spec
=============================================================================
