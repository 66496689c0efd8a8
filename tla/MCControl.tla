----------------------------- MODULE MCControl -----------------------------
(* Control on small instances.                                              *)
EXTENDS Control

CONSTANTS a, b      \* tickets

OnlyA  == <<a>>
AThenB == <<a, b>>
=============================================================================
