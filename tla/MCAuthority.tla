----------------------------- MODULE MCAuthority -----------------------------
(* Who may act, one signer or lease at a time: the source signers (two         *)
(* instances over one counter file, two epochs, either set of roles) and the    *)
(* arm's permits (a simulation that lags and a proposal that expires within the *)
(* run, two trajectories one after the other, two activations of the            *)
(* controller).  part says which of them runs; the others stay as they start,   *)
(* so the run is the sum of the instances.                                     *)
EXTENDS SourceSigner, PermitLease

VARIABLE part

World == INSTANCE SourceSigner WITH Role <- {"world", "fault"}, MaxCounter <- 2

Lagging == INSTANCE PermitLease WITH Settle <- 2, Activations <- 1,
  MaxSeq <- 3, MaxTime <- 4, MaxStall <- 1, Ttls <- {3}
Restarted == INSTANCE PermitLease WITH Settle <- 2, Activations <- 2,
  MaxSeq <- 3, MaxTime <- 2, MaxStall <- 1

MCInit ==
  /\ part \in {"vla", "world", "lagging", "second", "restarted"}
  /\ IF part = "world" THEN World!Init ELSE Init
  /\ LeaseInit

MCNext ==
  /\ UNCHANGED part
  /\ \/ part = "vla"       /\ Next                /\ UNCHANGED leaseVars
     \/ part = "world"     /\ World!Next          /\ UNCHANGED leaseVars
     \/ part = "lagging"   /\ Lagging!LeaseNext   /\ UNCHANGED vars
     \/ part = "second"    /\ LeaseNext           /\ UNCHANGED vars
     \/ part = "restarted" /\ Restarted!LeaseNext /\ UNCHANGED vars

MCSpec == MCInit /\ [][MCNext]_<<part, vars, leaseVars>>
=============================================================================
