--------------------------- MODULE MCSupervision ---------------------------
(* Supervision on small instances.                                          *)
EXTENDS Supervision, TLC

SlotSymmetry == Permutations(Slots)
Symmetry == SlotSymmetry \cup Permutations(Tickets)
FourIds == 1 .. 4
SixIds == 1 .. 6
=============================================================================
