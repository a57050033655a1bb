---------------------------- MODULE MCPermitProbe ----------------------------
(* Short leases, so that every wait can meet the end of one, and yet long      *)
(* enough for every case to pass.                                              *)
EXTENDS PermitProbe

MCPeriod == [t \in Targets |-> IF t = "base" THEN 2 ELSE 3]
=============================================================================
