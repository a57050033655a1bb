----------------------------- MODULE MCGateNode -----------------------------
(* Two goals, so that one can follow another; a patience of two steps.      *)
EXTENDS GateNode
=============================================================================
