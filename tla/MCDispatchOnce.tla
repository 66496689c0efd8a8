--------------------------- MODULE MCDispatchOnce ---------------------------
(* Small instances of DispatchOnce for TLC.                                     *)
EXTENDS DispatchOnce, MCDispatch
=============================================================================
