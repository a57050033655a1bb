--------------------------- MODULE MCFaultSessions ---------------------------
(* The fault sessions of the Gazebo rig, one at a time: two arm sessions in a   *)
(* row, the lost calibration target, and the disconnected sensor under a burst   *)
(* of proposals, against the engine and a defective one.  part says which of     *)
(* them runs; the others stay as they start, so the run is the sum of the        *)
(* instances.                                                                *)
EXTENDS ArmFault

VARIABLES part,
  phase, reason, engine, log, cmds, states, outs, heard, sensor, wire, published, paused, recovered

ArmSessions == <<"stall", "delay">>

Coverage == INSTANCE SensorFault WITH FaultCase <- "coverage", Errors <- {"expired"},
  Defects <- {"none"}, MaxSteps <- 4, MaxAfter <- 1, MaxWorlds <- 2, Burst <- 1
Compound == INSTANCE SensorFault WITH FaultCase <- "compound", Errors <- {"budget"},
  Defects <- {"none", "rearms"}, MaxSteps <- 2, MaxAfter <- 4, MaxWorlds <- 2, Burst <- 1

sensorVars == <<phase, reason, engine, log, cmds, states, outs, heard, sensor, wire, published,
                paused, recovered>>

SessionInit ==
  /\ part \in {"arm", "coverage", "compound"}
  /\ ArmInit
  /\ IF part = "compound" THEN Compound!Init ELSE Coverage!Init
  /\ part # "arm" \/ wire = Coverage!None

SessionNext ==
  /\ UNCHANGED part
  /\ \/ part = "arm"      /\ ArmNext       /\ UNCHANGED sensorVars
     \/ part = "coverage" /\ Coverage!Next /\ UNCHANGED armVars
     \/ part = "compound" /\ Compound!Next /\ UNCHANGED armVars

SessionSpec == SessionInit /\ [][SessionNext]_<<part, armVars, sensorVars>>

\* A session passes only on what the fault itself brought about: the arm's own
\* hold after it, the perception rule's stop, and quiet ever since
\* (run_reference.py exercise_arm_fault, exercise_sensor_fault, compound_fault.py).
PassIsEarned ==
  /\ PassIsHeld
  /\ IF part = "compound" THEN Compound!PassIsQuiet ELSE Coverage!CauseIsNamed
=============================================================================
