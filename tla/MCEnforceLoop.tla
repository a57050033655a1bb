---------------------------- MODULE MCEnforceLoop ----------------------------
(* A household arm: one source, two task revisions of one task step.        *)
EXTENDS EnforceLoop

MCFact ==
  { [cap |-> 0, scene |-> "clear", joints |-> "goal", rev |-> 1, step |-> "a"],
    [cap |-> 0, scene |-> "clear", joints |-> "goal", rev |-> 2, step |-> "a"],
    [cap |-> 0, scene |-> "seen", joints |-> "rest", rev |-> 1, step |-> "a"],
    [cap |-> 0, scene |-> "poor", joints |-> "moving", rev |-> 0, step |-> "a"] }

MCTrajectory == [src : Source, ok : {TRUE}, ttl : {1}, len : {1}, rev : {1, 2}, step : {"a"}]
=============================================================================
