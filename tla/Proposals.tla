----------------------------- MODULE Proposals ------------------------------
(***************************************************************************)
(* ros/haetae_gate/proposals.py: how an untrusted ROS message becomes an     *)
(* action, or an InvalidProposal.  A message is reduced to the answers its   *)
(* decoder asks for: whether unsupported components are set, whether the     *)
(* numbers are finite, the times of the points.                             *)
(***************************************************************************)
EXTENDS Integers, Sequences

CONSTANTS
  FixedTtl,   \* arm_fixed_ttl_ms: 0, or the one lease the reference allows
  BaseTtl     \* the ttl a base velocity gets

ASSUME ProposalsAssumption == FixedTtl \in Nat /\ BaseTtl \in Nat \ {0}

Invalid  == [type |-> "invalid"]
StopIt   == [type |-> "stop"]
Velocity == [type |-> "velocity", ttl |-> BaseTtl]
Trajectory(ttl) == [type |-> "joint_trajectory", ttl |-> ttl]

\* base_action: unsupported or non-finite components are refused, exact zero
\* is a stop.
BaseAction(m) ==
  IF m.extra \/ ~m.finite THEN Invalid
  ELSE IF m.zero THEN StopIt ELSE Velocity

\* arm_action: the right joints, no points is a stop, every point a finite
\* position with a sane time, and the plan inside the fixed lease if there is
\* one.  The lease is the time of the last point otherwise.
ArmAction(m) ==
  IF ~m.joints THEN Invalid
  ELSE IF m.points = << >> THEN StopIt
  ELSE IF \E i \in DOMAIN m.points : ~m.points[i].sane THEN Invalid
  ELSE LET duration == m.points[Len(m.points)].ms
       IN  IF FixedTtl # 0 /\ duration > FixedTtl THEN Invalid
           ELSE Trajectory(IF FixedTtl # 0 THEN FixedTtl ELSE duration)

\* semantic_binding: a frame without the prefix carries no reference; one with
\* it must decode completely.
SemanticBinding(frame) ==
  CASE frame = "plain"     -> "none"
    [] frame = "reference" -> "reference"
    [] OTHER               -> "invalid"

=============================================================================
