----------------------------- MODULE MCEnforcer -----------------------------
(* A base and an arm shared by two sources, one of them not in the policy.  *)
EXTENDS Enforcer

MCFact ==
  { [cap |-> 2, scene |-> "clear", joints |-> "rest", rev |-> 0, step |-> "a"],
    [cap |-> 1, scene |-> "clear", joints |-> "moving", rev |-> 0, step |-> "a"],
    [cap |-> 0, scene |-> "seen", joints |-> "rest", rev |-> 0, step |-> "a"],
    [cap |-> 2, scene |-> "clear", joints |-> "none", rev |-> 0, step |-> "a"] }

MCVelocity == [src : Source, ok : {TRUE}, speed : {2}, ttl : {2}]

MCTrajectory == [src : Source, ok : {TRUE}, ttl : {2}, len : {1}, rev : {0}, step : {"a"}]
=============================================================================
