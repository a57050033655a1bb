--------------------------- MODULE MCHouseholdLab ----------------------------
(* The household lab, one instance at a time: two hazards, a hazard with a      *)
(* first transfer against defective gates, one hazard with every fault around   *)
(* the lab, one with a repeated preflight whose every wait may time out, and    *)
(* the fixture driver on its own.                                               *)
(* part says which of them runs; the others stay as they start, so the run is   *)
(* the sum of the instances.                                                    *)
EXTENDS FixtureDriver

CONSTANTS GateDefects, AllFaults, AllWaits

VARIABLES part,
  task, pc, tries, binding, denial, sent, ctx, scene, guard, last, taken, wire, pipe, gate, told,
  outs, heard, arm, faults

Human == <<"human">>
HumanHeat == <<"human", "heat">>
HumanChemicals == <<"human", "chemicals">>
Sound == {"none"}

Heat == INSTANCE HazardLab WITH Cases <- HumanHeat, Chunks <- 1, Attempts <- 1,
  Defects <- Sound, Waits <- {}, Faults <- {}, MaxFaults <- 0
Chemicals == INSTANCE HazardLab WITH Cases <- HumanChemicals, Chunks <- 1, Attempts <- 1,
  Defects <- GateDefects, Waits <- {}, Faults <- {}, MaxFaults <- 0
Failing == INSTANCE HazardLab WITH Cases <- Human, Chunks <- 1, Attempts <- 1,
  Defects <- Sound, Waits <- {}, Faults <- AllFaults, MaxFaults <- 1
Waiting == INSTANCE HazardLab WITH Cases <- Human, Chunks <- 1, Attempts <- 2,
  Defects <- Sound, Waits <- AllWaits, Faults <- {}, MaxFaults <- 0

ASSUME LabParameters == Heat!Parameters /\ Chemicals!Parameters
                        /\ Failing!Parameters /\ Waiting!Parameters

labVars == <<task, pc, tries, binding, denial, sent, ctx, scene, guard, last, taken, wire, pipe,
             gate, told, outs, heard, arm, faults>>

Init ==
  /\ part \in {"heat", "chemicals", "failing", "waiting", "fixtures"}
  /\ IF part = "chemicals" THEN Chemicals!Init ELSE Heat!Init
  /\ FixtureInit

Next ==
  /\ UNCHANGED part
  /\ \/ part = "heat"      /\ Heat!Next      /\ UNCHANGED fixtureVars
     \/ part = "chemicals" /\ Chemicals!Next /\ UNCHANGED fixtureVars
     \/ part = "failing"   /\ Failing!Next   /\ UNCHANGED fixtureVars
     \/ part = "waiting"   /\ Waiting!Next   /\ UNCHANGED fixtureVars
     \/ part = "fixtures"  /\ FixtureNext   /\ UNCHANGED labVars

Spec == Init /\ [][Next]_<<part, labVars, fixtureVars>>

\* HazardLab: only a sound gate completes the lab.
CompletedIsSound == Heat!CompletedIsSound

\* HazardLab: a plan is judged in its own scene, and no world is refused.
OwnScene == Heat!OwnScene
=============================================================================
