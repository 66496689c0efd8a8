------------------------------ MODULE MCPMState ------------------------------
(* Small instances of PMState for TLC.                                          *)
EXTENDS PMState

CONSTANTS a, b       \* tickets

T(ticket, prio) == [ticket |-> ticket, prio |-> prio]

(* Two instances in one: the link to Redis with one ticket (what is saved, lost *)
(* and loaded is opaque to the client), and the failover with two tickets and   *)
(* no link.                                                                     *)
One == {T(a, 0), T(a, 2)}
Two == {T(a, 0), T(b, 1)}

VARIABLE part

MCInit == PMInit /\ part \in {"link", "failover"}

(* The tasks that wait are among some, and at most n.                           *)
Within(some, n) == Len(mem'.queue) <= n /\ \A i \in DOMAIN mem'.queue : mem'.queue[i] \in some

MCNext ==
    /\ PMNext
    /\ \/ part = "link" /\ Within(One, 1) /\ UNCHANGED <<file, injecting>>
       \/ part = "failover" /\ Within(Two, 3) /\ ~ up' /\ ~ RestartStep
    /\ UNCHANGED part

MCSpec == MCInit /\ [][MCNext]_<<pmVars, part>>

Mixed == One \cup Two
=============================================================================
