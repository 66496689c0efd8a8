----------------------------- MODULE MCDispatch -----------------------------
(* Small instances of Dispatch for TLC.                                         *)
EXTENDS Dispatch, TLC

CONSTANTS a, b, c       \* tickets

T(ticket, prio) == [ticket |-> ticket, prio |-> prio]

(* One critical ticket and one or two ordinary ones.                            *)
TwoMixed   == {T(a, 0), T(b, 2)}
ThreeMixed == {T(a, 0), T(b, 2), T(c, 1)}

(* No critical ticket: nothing interrupts.                                      *)
ThreeOrdinary == {T(a, 1), T(b, 2), T(c, 2)}

SlotSymmetry == Permutations(Slots)
=============================================================================
