-------------------------------- MODULE Clock --------------------------------
(* The clock the gateway's components read with Date.now() and new Date().     *)
EXTENDS Naturals

CONSTANTS
    MaxTime,        \* bound: the last instant a run looks at
    None            \* undefined

ASSUME TimeAssumption == MaxTime \in Nat /\ None \notin Nat

VARIABLE now

Tick == now < MaxTime /\ now' = now + 1
=============================================================================
