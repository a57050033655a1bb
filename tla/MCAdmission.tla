----------------------------- MODULE MCAdmission -----------------------------
(* What is let through, at one place at a time: the engine's loop with signed   *)
(* inputs of two roles, two counters each, one key rotation and its roll-back;  *)
(* the H2 board under a hostile relay; the H1 board with every fault of the     *)
(* scenarios, and over two runs.  part says which of them runs; the others stay *)
(* as they start, so the run is the sum of the instances.                       *)
EXTENDS AuthLoop

VARIABLES part,
  clk, board, author, frames, relay,
  clk1, board1, wire, host, gate

H2 == INSTANCE PermitBench WITH auth <- author, Hostile <- TRUE, Permit <- 2, Lease <- 3,
  Bind <- 4, Wrap <- 6, MaxVerify <- 3, MaxGen <- 2, MaxChallenge <- 4

Faulty == INSTANCE BenchSession WITH clk <- clk1, board <- board1,
  Permit <- 1, Challenge <- 2, Lease <- 4, WorldMaxAge <- 2, Wrap <- 5, Start <- {3},
  Faults <- {"none", "person", "world-loss", "replay"}, MaxSeq <- 5, MaxSession <- 1
Rerun == INSTANCE BenchSession WITH clk <- clk1, board <- board1,
  Permit <- 1, Challenge <- 2, Lease <- 3, WorldMaxAge <- 1, Wrap <- 4, Start <- {2},
  Faults <- {"none"}, MaxSeq <- 3, MaxSession <- 2

ASSUME BoardParameters == H2!Parameters /\ Faulty!Parameters /\ Rerun!Parameters

h2Vars == <<clk, board, author, frames, relay>>
h1Vars == <<clk1, board1, wire, host, gate>>

MCInit ==
  /\ part \in {"loop", "hostile", "faulty", "rerun"}
  /\ Init
  /\ H2!Init
  /\ IF part = "faulty" THEN Faulty!Init ELSE Rerun!Init

MCNext ==
  /\ UNCHANGED part
  /\ \/ part = "loop"    /\ Next        /\ UNCHANGED <<h2Vars, h1Vars>>
     \/ part = "hostile" /\ H2!Next     /\ UNCHANGED <<vars, h1Vars>>
     \/ part = "faulty"  /\ Faulty!Next /\ UNCHANGED <<vars, h2Vars>>
     \/ part = "rerun"   /\ Rerun!Next  /\ UNCHANGED <<vars, h2Vars>>

MCSpec == MCInit /\ [][MCNext]_<<part, vars, h2Vars, h1Vars>>

\* A lit LED was earned: at H2 by a decision younger than the lease, at H1 by an
\* approval younger than a challenge and a lease, and not after a fault
\* (permit_guard.h and guard.h, command and tick).
LedIsEarned ==
  /\ H2!LitIsRecent
  /\ IF part = "faulty" THEN Faulty!LitIsApproved /\ Faulty!FaultGoesDark
                        ELSE Rerun!LitIsApproved
=============================================================================
