---------------------------- MODULE EnforcerCore ----------------------------
(***************************************************************************)
(* The enforcer of haetae-enforce (lib.rs) on top of the runtime and the    *)
(* gate: what motion it currently authorises, when it withdraws it, and     *)
(* what each call of handle, reject and tick returns.                       *)
(*                                                                         *)
(* enf is the Enforcer struct as a record, now the trusted receive clock,   *)
(* step the Step the last call returned.  Each handler is an action whose   *)
(* new enf is composed from the same private methods as in the code         *)
(* (clear_active, rejudge, update_arm_settle, output).                      *)
(*                                                                         *)
(* Abstractions.  A twist is its speed, an integer; a world carries what    *)
(* the gate's geometry makes of it: cap, the speed that zones, rules and    *)
(* the swept path leave (0 when one of them denies), scene, whether the     *)
(* arm may move in it, and joints, what the joint samples show.  A proposal *)
(* carries ok, the outcome of the checks that depend on it alone (finite    *)
(* numbers, its timestamp, the replay window, waypoints).                   *)
(***************************************************************************)
EXTENDS History

CONSTANTS
  Source,           \* the sources a proposal can name
  AllowedSource,    \* policy.allowed_sources
  MaxSpeed,         \* policy.envelope.max_speed
  MaxTtl,           \* base.max_ttl_ms and arm.max_duration_ms
  FutureTolerance,  \* policy.freshness.future_tolerance_ms
  Household         \* whether the policy has a household section

ASSUME EnforcerAssumption ==
  /\ AllowedSource \subseteq Source
  /\ MaxSpeed \in Nat \ {0, 1}   \* so that half of it is still a speed
  /\ MaxTtl \in Nat
  /\ FutureTolerance \in Nat
  /\ Household \in BOOLEAN
  /\ Household => MaxTtl <= MaxDuration

VARIABLES enf, now, step

Normal == 0
Caution == 1
Hold == 2
SafePark == 3
EStop == 4
Mode == Normal..EStop

StopOnly(m) == m >= Hold

Scene == {"clear", "seen", "poor"}
Joints == {"none", "moving", "rest", "goal", "stray"}
World == [stamp : Nat, cap : 0..MaxSpeed, scene : Scene, joints : Joints,
          rev : Nat, step : StepKey]

Velocity == [src : Source, ok : BOOLEAN, speed : 1..MaxSpeed, ttl : Nat]
Trajectory == [src : Source, ok : BOOLEAN, ttl : Nat, len : Nat, rev : Nat, step : StepKey]

Active == [src : Source, ask : 1..MaxSpeed, approved : 1..MaxSpeed, expires : Nat]
ActiveArm == [src : Source, rev : Nat, step : StepKey, started : Nat, end : Nat, expires : Nat]

ASSUME AbsentAssumption == None \notin World \cup Active \cup ActiveArm

StopReason == {"Startup", "NoWorld", "StaleWorld", "NoCommand", "Expired", "Denied",
               "Revoked", "Unarmed", "RecorderFault", "StateFault", "ArmSettling", "Mode"}

ASSUME StopAssumption == None \notin StopReason

Enforcer ==
  [mode : Mode, world : World \cup {None}, active : Active \cup {None},
   arm : ActiveArm \cup {None}, cancelPending : BOOLEAN, cancelling : BOOLEAN,
   cancelSince : Nat, lastSettle : Nat, settle : Nat, armed : SUBSET Source,
   everArmed : BOOLEAN, lastStop : StopReason \cup {None}, stateOk : BOOLEAN,
   recorderOk : BOOLEAN, hist : HistoryState]

Step == [at : Nat, cmd : 0..MaxSpeed, arm : {"none", "execute", "cancel"},
         stop : StopReason \cup {None}, ack : BOOLEAN]

\* Enforcer::open.  A motion left unresolved by an earlier process must be
\* cancelled and seen to stop before anything else.
Opened(mode, h, at) ==
  [mode |-> mode, world |-> None, active |-> None, arm |-> None,
   cancelPending |-> h.pending # None, cancelling |-> h.pending # None,
   cancelSince |-> IF h.pending # None THEN 0 ELSE at,
   lastSettle |-> 0, settle |-> 0, armed |-> {}, everArmed |-> FALSE,
   lastStop |-> "Startup", stateOk |-> TRUE, recorderOk |-> TRUE, hist |-> h]

\* What the adapter assumes before the first call returned.
NoStep(at) == [at |-> at, cmd |-> 0, arm |-> "none", stop |-> "Startup", ack |-> FALSE]

-----------------------------------------------------------------------------
(* The gate.                                                               *)

\* Runtime::world_age_ms, with saturating subtraction.
Age(w, t) == IF t > w.stamp THEN t - w.stamp ELSE 0

Fresh(e, t) == e.world # None /\ Age(e.world, t) <= WorldMaxAge

\* The freshness the household checks add: never a future world.
HouseholdFresh(w, t) == w.stamp <= t /\ t - w.stamp <= HouseholdMaxAge

\* Gate::judge_velocity as the speed it approves, 0 for Bul.
JudgeVelocity(e, src, ask, t) ==
  IF ~Fresh(e, t) \/ StopOnly(e.mode) \/ Household \/ src \notin AllowedSource
    THEN 0
    ELSE Smaller(Smaller(ask, e.world.cap),
                 IF e.mode = Caution THEN MaxSpeed \div 2 ELSE MaxSpeed)

VelocityAllowed(e, p, t) ==
  p.ok /\ p.ttl \in 1..MaxTtl /\ JudgeVelocity(e, p.src, p.speed, t) > 0

\* arm::check_trajectory: the timing, and the measured start of the path.
CheckTrajectory(w, p) ==
  /\ p.ttl \in 1..MaxTtl /\ p.len <= p.ttl
  /\ w.joints \notin {"none", "stray"}

\* household::check_proposal: the proposal is bound to this very scene.
CheckProposal(w, p, t) ==
  HouseholdFresh(w, t) /\ p.rev # 0 /\ p.rev = w.rev /\ p.step = w.step

\* Gate::judge_at for a joint trajectory, and History::check_admission before it.
TrajectoryAllowed(e, p, t) ==
  /\ p.ok
  /\ p.src \in AllowedSource
  /\ Fresh(e, t)
  /\ e.mode = Normal
  /\ e.world.scene = "clear"
  /\ CheckTrajectory(e.world, p)
  /\ Household => CheckProposal(e.world, p, t) /\ AdmissionAllowed(e.hist, p.rev, p.step)

\* household::recheck_active: the scene is still the one the motion was bound to.
RecheckActive(w, arm, t) == HouseholdFresh(w, t) /\ w.rev = arm.rev /\ w.step = arm.step

\* Enforcer::monitor_arm: an executing trajectory may go on.
MonitorArm(e, t) ==
  /\ e.mode = Normal
  /\ Household => RecheckActive(e.world, e.arm, t)
  /\ e.world.scene = "clear"
  /\ e.world.joints # "none"
  /\ e.world.stamp >= e.arm.started => e.world.joints # "stray"

\* Runtime::check_world together with History::check_world.
WorldAccepted(e, w, t) ==
  /\ w.stamp <= t + FutureTolerance
  /\ e.world # None => w.stamp >= e.world.stamp
  /\ Household => WorldAllowed(e.hist, w)

-----------------------------------------------------------------------------
(* The private methods of the enforcer.                                    *)

\* A mutant: no cancel is due.
ClearActiveSilent(e, expected, t) ==
  LET cleared == [e EXCEPT !.hist = Retire(@, expected), !.active = None, !.arm = None]
  IN  IF e.arm = None
        THEN cleared
        ELSE [cleared EXCEPT !.cancelling = TRUE, !.cancelSince = t, !.settle = 0,
                             !.armed = {}]

\* Enforcer::clear_active_with_completion.  Dropping an arm motion starts a
\* cancellation that only measured stillness ends.
ClearActive(e, expected, t) ==
  LET cleared == [e EXCEPT !.hist = Retire(@, expected), !.active = None, !.arm = None]
  IN  IF e.arm = None
        THEN cleared
        ELSE [cleared EXCEPT !.cancelPending = TRUE, !.cancelling = TRUE,
                             !.cancelSince = t, !.settle = 0, !.armed = {}]

Disarm(e) == [e EXCEPT !.armed = {}]

\* clear_active(); armed.clear(): the answer to everything that is refused.
Drop(e, t) == Disarm(ClearActive(e, FALSE, t))

\* Enforcer::rejudge, its first half: the executing trajectory is monitored.
RejudgeArm(e, t) ==
  IF /\ e.arm # None /\ t < e.arm.expires
     /\ ~StopOnly(e.mode) /\ Fresh(e, t)
     /\ ~MonitorArm(e, t)
    THEN [enf |-> Drop(e, t), forced |-> "Revoked"]
    ELSE [enf |-> e, forced |-> None]

\* A mutant: the speed follows the gate up again.
RejudgeBaseUp(r, t) ==
  LET e      == r.enf
      judged == JudgeVelocity(e, e.active.src, e.active.ask, t)
  IN  IF e.active = None \/ ~Fresh(e, t) \/ StopOnly(e.mode) THEN r
      ELSE IF t >= e.active.expires THEN r
      ELSE IF judged > 0
        THEN [r EXCEPT !.enf.active.approved = judged]
        ELSE [enf |-> Drop(e, t), forced |-> "Revoked"]

\* Its second half: the base command is judged again, and can only shrink.
RejudgeBase(r, t) ==
  LET e      == r.enf
      judged == JudgeVelocity(e, e.active.src, e.active.ask, t)
  IN  IF e.active = None \/ ~Fresh(e, t) \/ StopOnly(e.mode) THEN r
      ELSE IF t >= e.active.expires THEN r
      ELSE IF judged > 0
        THEN [r EXCEPT !.enf.active.approved = Smaller(@, judged)]
        ELSE [enf |-> Drop(e, t), forced |-> "Revoked"]

Rejudge(e, t) == RejudgeBase(RejudgeArm(e, t), t)

\* A mutant: samples measured before the cancellation count too.
UpdateArmSettleEarly(e) ==
  IF \/ ~e.cancelling \/ e.world.joints = "none" \/ e.world.stamp <= e.lastSettle
    THEN e
    ELSE IF e.world.joints \in {"rest", "goal"}
      THEN [e EXCEPT !.lastSettle = e.world.stamp, !.settle = @ + 1,
                     !.cancelling = e.settle + 1 < 2]
      ELSE [e EXCEPT !.lastSettle = e.world.stamp, !.settle = 0]

\* Enforcer::update_arm_settle: two consecutive still samples, each newer than
\* the cancellation and than the sample before it.
UpdateArmSettle(e) ==
  IF \/ ~e.cancelling \/ e.world.joints = "none"
     \/ e.world.stamp <= e.cancelSince \/ e.world.stamp <= e.lastSettle
    THEN e
    ELSE IF e.world.joints \in {"rest", "goal"}
      THEN [e EXCEPT !.lastSettle = e.world.stamp, !.settle = @ + 1,
                     !.cancelling = e.settle + 1 < 2]
      ELSE [e EXCEPT !.lastSettle = e.world.stamp, !.settle = 0]

\* A mutant: a trajectory does not expire.
ExpiredBase(e, t) == e.active # None /\ t >= e.active.expires

Expired(e, t) ==
  \/ e.active # None /\ t >= e.active.expires
  \/ e.arm # None /\ t >= e.arm.expires

\* Why the robot stands still; a refusal stays the reason until someone arms.
IdleReason(e) ==
  IF e.armed = {} /\ e.lastStop \in {"Denied", "Revoked", "Unarmed", "StaleWorld"}
    THEN e.lastStop
    ELSE IF e.everArmed THEN "NoCommand" ELSE "Startup"

\* A mutant: the faults of recorder and state store are not looked at.
StopForUnrecorded(e, t, forced) ==
  IF StopOnly(e.mode) THEN "Mode"
  ELSE IF e.cancelling THEN "ArmSettling"
  ELSE IF e.world = None THEN "NoWorld"
  ELSE IF ~Fresh(e, t) THEN "StaleWorld"
  ELSE IF forced # None THEN forced
  ELSE IF Expired(e, t) THEN "Expired"
  ELSE IF e.active = None /\ e.arm = None THEN IdleReason(e)
  ELSE None

\* The ladder of Enforcer::output; None lets the motion through.
StopFor(e, t, forced) ==
  IF ~e.stateOk THEN "StateFault"
  ELSE IF ~e.recorderOk THEN "RecorderFault"
  ELSE IF StopOnly(e.mode) THEN "Mode"
  ELSE IF e.cancelling THEN "ArmSettling"
  ELSE IF e.world = None THEN "NoWorld"
  ELSE IF ~Fresh(e, t) THEN "StaleWorld"
  ELSE IF forced # None THEN forced
  ELSE IF Expired(e, t) THEN "Expired"
  ELSE IF e.active = None /\ e.arm = None THEN IdleReason(e)
  ELSE None

Withdrawing == {"StaleWorld", "NoWorld", "Mode", "RecorderFault", "StateFault"}

\* What Enforcer::output does to the authority it no longer grants.
Withdraw(e, reason, t) ==
  IF reason \in Withdrawing THEN Drop(e, t)
  ELSE IF reason = "Expired"
    THEN ClearActive(e, e.arm # None /\ e.arm.expires >= e.arm.end, t)
  ELSE e

\* Enforcer::output: the record it returns, and the enforcer it leaves behind.
Output(e, t, forced, execute, ack) ==
  LET reason == StopFor(e, t, forced)
      left   == Withdraw(e, reason, t)
  IN  [enf  |-> [left EXCEPT !.cancelPending = FALSE, !.lastStop = reason],
       step |-> [at   |-> t,
                 cmd  |-> IF reason = None /\ left.active # None
                            THEN left.active.approved ELSE 0,
                 arm  |-> IF left.cancelPending THEN "cancel"
                          ELSE IF reason = None /\ execute THEN "execute" ELSE "none",
                 stop |-> reason, ack |-> ack]]

Return(out) == enf' = out.enf /\ step' = out.step /\ UNCHANGED now

-----------------------------------------------------------------------------
(* The handlers.                                                           *)

\* Enforcer::handle, a stop or an all-zero velocity: it clears, and arms.
HandleStop(s) ==
  LET cleared == ClearActive(enf, FALSE, now)
      armed   == IF cleared.cancelling
                   THEN cleared
                   ELSE [cleared EXCEPT !.armed = @ \cup {s}, !.everArmed = TRUE]
  IN  Return(Output(armed, now, None, FALSE, FALSE))

\* A mutant: an arm in use does not matter.
MustRearmBase(s) == s \notin enf.armed

\* A proposal from a source that has not armed, or while the arm is in use.
MustRearm(s) == enf.cancelling \/ enf.arm # None \/ s \notin enf.armed

HandleUnarmed(s) ==
  /\ MustRearm(s)
  /\ Return(Output(Drop(enf, now), now, "Unarmed", FALSE, FALSE))

\* Every refusal of an input, in handle and in reject.
Rejected == Output(Drop(enf, now), now, "Denied", FALSE, FALSE)

Deny == Return(Rejected)

\* A kind of action that no monitored actuator executes (move, grasp, place).
HandleUnsupported(s) == ~MustRearm(s) /\ Deny

AdmitVelocity(p) ==
  LET admitted == [src |-> p.src, ask |-> p.speed,
                   approved |-> JudgeVelocity(enf, p.src, p.speed, now),
                   expires |-> now + p.ttl]
  IN  Return(Output([ClearActive(enf, FALSE, now) EXCEPT !.active = admitted],
                    now, None, FALSE, FALSE))

HandleVelocity(p) ==
  /\ ~MustRearm(p.src)
  /\ IF VelocityAllowed(enf, p, now) THEN AdmitVelocity(p) ELSE Deny

\* The step is reserved in the history before the trajectory is returned.
AdmitTrajectory(p) ==
  LET cleared  == ClearActive(enf, FALSE, now)
      admitted == [src |-> p.src, rev |-> p.rev, step |-> p.step, started |-> now,
                   end |-> now + p.len, expires |-> now + p.ttl]
      reserved == IF Household
                    THEN Reserve(cleared.hist, p.rev, p.step, now, p.len)
                    ELSE cleared.hist
  IN  Return(Output([cleared EXCEPT !.arm = admitted, !.hist = reserved],
                    now, None, TRUE, FALSE))

HandleTrajectory(p) ==
  /\ ~MustRearm(p.src)
  /\ IF TrajectoryAllowed(enf, p, now) THEN AdmitTrajectory(p) ELSE Deny

\* Enforcer::handle, an accepted world: observe, settle, rejudge, stop evidence.
AcceptWorld(w) ==
  LET seen    == [enf EXCEPT !.world = w,
                             !.hist = IF Household THEN Observe(@, w) ELSE @]
      judged  == Rejudge(UpdateArmSettle(seen), now)
      e       == judged.enf
      stopped == IF e.arm = None
                   THEN [e EXCEPT !.hist = ObserveStop(@, w, now, e.cancelling)]
                   ELSE e
  IN  Return(Output(stopped, now, judged.forced, FALSE, TRUE))

HandleWorld(w) == IF WorldAccepted(enf, w, now) THEN AcceptWorld(w) ELSE Deny

\* A mutant: what is active is not judged again.
HandleFaultUnjudged(m) ==
  LET raised == [enf EXCEPT !.mode = Larger(@, m)]
  IN  IF StopOnly(raised.mode)
        THEN Return(Output(Drop(raised, now), now, None, FALSE, FALSE))
        ELSE Return(Output(raised, now, None, FALSE, FALSE))

\* Enforcer::handle, a fault: the mode only climbs.
HandleFault(m) ==
  LET raised == [enf EXCEPT !.mode = Larger(@, m)]
      judged == Rejudge(raised, now)
  IN  IF StopOnly(raised.mode)
        THEN Return(Output(Drop(raised, now), now, None, FALSE, FALSE))
        ELSE Return(Output(judged.enf, now, judged.forced, FALSE, FALSE))

\* Enforcer::reject: malformed, unsigned, replayed or out-of-order input.
Reject == Deny

\* Enforcer::tick
Tick ==
  LET judged == Rejudge(enf, now)
  IN  Return(Output(judged.enf, now, judged.forced, FALSE, FALSE))
=============================================================================
