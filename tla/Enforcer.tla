------------------------------ MODULE Enforcer ------------------------------
(***************************************************************************)
(* One running enforcer: inputs arrive in any order while the clock runs,   *)
(* and the recorder or the state store may fail at any commit.  Three       *)
(* history variables watch the output as a controller sees it:              *)
(*   wire    whether a trajectory has been sent and not yet cancelled;      *)
(*   rest    how many consecutive still samples have been accepted since    *)
(*           the last cancel (2 is enough), and the stamp of the newest;    *)
(*   zeroed  the sources that sent a zero since the last refusal.           *)
(***************************************************************************)
EXTENDS EnforcerCore

CONSTANTS
  VelocityInput,    \* the velocity proposals that may arrive
  TrajectoryInput,  \* the trajectories that may arrive
  FactInput,        \* the contents a world may have, whatever its stamp
  FaultInput,       \* the modes a fault may ask for
  MaxNow            \* bound on the clock

ASSUME InputAssumption ==
  /\ VelocityInput \subseteq Velocity
  /\ TrajectoryInput \subseteq Trajectory
  /\ FaultInput \subseteq Mode
  /\ FactInput \subseteq [cap : 0..MaxSpeed, scene : Scene, joints : Joints,
                          rev : Nat, step : StepKey]
  /\ MaxNow \in Nat

VARIABLES wire, rest, zeroed

vars == <<enf, now, step, wire, rest, zeroed>>

Stamped(f, t) == [stamp |-> t, cap |-> f.cap, scene |-> f.scene, joints |-> f.joints,
                  rev |-> f.rev, step |-> f.step]

\* Stop reasons after which motion needs a fresh zero command.
Refusal == StopReason \ {"NoCommand", "Startup", "Expired"}

Actuates(s) == s.cmd > 0 \/ s.arm = "execute"

\* How a controller's log reads after the step just returned.
Watch(zeros) ==
  /\ wire' = CASE step'.arm = "execute" -> "running"
               [] step'.arm = "cancel"  -> "idle"
               [] OTHER                 -> wire
  /\ rest' = IF step'.arm = "cancel" THEN [still |-> 0, stamp |-> now]
             ELSE IF rest.still = 2 \/ ~step'.ack \/ enf'.world.joints = "none"
                       \/ enf'.world.stamp <= rest.stamp
               THEN rest
             ELSE [still |-> IF enf'.world.joints \in {"rest", "goal"}
                               THEN rest.still + 1 ELSE 0,
                   stamp |-> enf'.world.stamp]
  /\ zeroed' = IF step'.stop \in Refusal THEN {} ELSE zeroed \cup zeros

Init ==
  /\ now = 0
  /\ enf = Opened(Normal, NewHistory, 0)
  /\ step = NoStep(0)
  /\ wire = "idle"
  /\ rest = [still |-> 2, stamp |-> 0]
  /\ zeroed = {}

\* Enforcer::commit, when the incident log or the state file cannot be written.
RecorderFails ==
  /\ enf' = [enf EXCEPT !.recorderOk = FALSE]
  /\ UNCHANGED <<now, step, wire, rest, zeroed>>

PersistFails ==
  /\ enf' = [enf EXCEPT !.stateOk = FALSE]
  /\ UNCHANGED <<now, step, wire, rest, zeroed>>

TimePasses ==
  /\ now < MaxNow
  /\ now' = now + 1
  /\ UNCHANGED <<enf, step, wire, rest, zeroed>>

TimerTick == Tick /\ Watch({})

Next ==
  \/ \E s \in Source : HandleStop(s) /\ Watch({s})
  \/ \E s \in Source : HandleUnarmed(s) /\ Watch({})
  \/ \E s \in Source : HandleUnsupported(s) /\ Watch({})
  \/ \E p \in VelocityInput : now + p.ttl <= MaxNow /\ HandleVelocity(p) /\ Watch({})
  \/ \E p \in TrajectoryInput : now + p.ttl <= MaxNow /\ HandleTrajectory(p) /\ Watch({})
  \/ \E f \in FactInput, t \in 0..(now + FutureTolerance + 1) :
       HandleWorld(Stamped(f, t)) /\ Watch({})
  \/ \E m \in FaultInput : HandleFault(m) /\ Watch({})
  \/ Reject /\ Watch({})
  \/ TimerTick
  \/ RecorderFails
  \/ PersistFails
  \/ TimePasses

Spec == Init /\ [][Next]_vars

\* The adapter ticks on a timer, and time does not stop.
FairSpec == Spec /\ WF_vars(TimerTick) /\ WF_vars(TimePasses)

-----------------------------------------------------------------------------
TypeOK ==
  /\ enf \in Enforcer
  /\ now \in Nat
  /\ step \in Step
  /\ wire \in {"idle", "running"}
  /\ rest \in [still : 0..2, stamp : Nat]
  /\ zeroed \subseteq Source

\* At most one motion is ever authorised, and none while a cancelled trajectory
\* settles: then nobody is armed either (lib.rs clear_active_with_completion,
\* handle).  Every path that admits or drops a motion has to respect it.
OneAuthority ==
  /\ ~(enf.active # None /\ enf.arm # None)
  /\ enf.cancelling => enf.active = None /\ enf.arm = None /\ enf.armed = {}
  /\ enf.active # None => enf.active.src \in enf.armed
  /\ ~enf.cancelPending

\* The trajectory a controller is executing is exactly the one the enforcer
\* authorises: however the authority is lost (expiry, stale world, fault,
\* refusal, another source), the cancel leaves in that very step (lib.rs output).
CancelReachesWire == (wire = "running") <=> (enf.arm # None)

\* A base command that went out was, at that moment, within what the gate
\* allows in the newest accepted world and the current mode, and unexpired,
\* whatever arrived since it was admitted (lib.rs rejudge, output).
CommandWithinGate ==
  step.cmd > 0 =>
    /\ enf.active # None
    /\ step.cmd = enf.active.approved
    /\ step.at < enf.active.expires
    /\ step.cmd <= JudgeVelocity(enf, enf.active.src, enf.active.ask, step.at)

\* An authorised trajectory satisfied the monitor at the last step: an
\* admissible world, an unraised mode, tracking (lib.rs rejudge, monitor_arm).
TrajectoryMonitored ==
  enf.arm # None =>
    /\ step.at < enf.arm.expires
    /\ Fresh(enf, step.at)
    /\ MonitorArm(enf, step.at)

\* Whatever moves is within what the gate would allow of it now.
MotionWithinGate == CommandWithinGate /\ TrajectoryMonitored

\* After a cancel nothing moves, neither arm nor base, before two consecutive
\* still samples measured after it were accepted (lib.rs update_arm_settle).
StillBeforeMotion == Actuates(step) => rest.still = 2

\* After a refusal (denial, revocation, fault, stale world, cancel) the source
\* of any motion has sent a zero command in between (lib.rs handle, reject).
ZeroBeforeMotion ==
  /\ step.cmd > 0 => enf.active.src \in zeroed
  /\ step.arm = "execute" => enf.arm.src \in zeroed

\* Motion after a cancel or a refusal has been earned: by rest and by a zero.
RestBeforeMotion == StillBeforeMotion /\ ZeroBeforeMotion

\* A command once admitted never speeds up nor lives longer, however the world
\* improves: only a new admission can do either (lib.rs rejudge).
NeverFaster ==
  [][ \/ \E p \in VelocityInput : AdmitVelocity(p)
      \/ enf.active # None /\ enf'.active # None
           => /\ enf'.active.approved <= enf.active.approved
              /\ enf'.active.expires = enf.active.expires ]_vars

\* A failed recorder or state store is final: no later step actuates
\* (lib.rs output; runtime.rs recorder_failed latches).
FaultIsFinal ==
  [][ ~(enf.recorderOk /\ enf.stateOk)
        => /\ ~(enf'.recorderOk /\ enf'.stateOk)
           /\ step' # step => ~Actuates(step') ]_vars

\* Every trajectory that was sent is cancelled in the end, with no further
\* input than the timer's ticks (lib.rs tick, output).
ArmEventuallyCancelled == (wire = "running") ~> (wire = "idle")
=============================================================================
