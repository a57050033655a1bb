---------------------------- MODULE PermitLease ----------------------------
(***************************************************************************)
(* Signed controller permits for the arm: the gate node's permit clocks and   *)
(* signer (ros/haetae_gate/node.py, controller_permits.py, bridge.py), the     *)
(* untrusted way to the controller, and the controller's PermitGuard with its  *)
(* goal callbacks and update thread (ros/haetae_arm_guard, permit.hpp and       *)
(* controller.cpp).                                                         *)
(*                                                                         *)
(* Two clocks: sim (ROS time) may stand still while wall (steady) goes on.    *)
(* wire is the tokens published that a controller could still take: a token   *)
(* may be lost, delayed, reordered or delivered again.  One that is too old is *)
(* refused whatever it says; it leaves the wire and its delivery is one of the *)
(* OnNonsense.  The way to the controller is relay.py as it is coded: it       *)
(* accepts every goal at once, reports its result once nothing of it is left   *)
(* at the controller, and forwards it no more after that.                     *)
(* The Rust engine is eng: it is asked at one time (Ask) and its reply is       *)
(* handled at a later one (Answer); meanwhile the node's only thread waits.    *)
(* The deadlines of 250 ms of a goal and of a cancel are longer than the runs. *)
(***************************************************************************)
EXTENDS Integers, FiniteSets

CONSTANTS
  Window,      \* 50 ms: a token's age at admission, and max_actuation_response_ms
  Lease,       \* 200 ms, MAX_LEASE_NS
  Backdate,    \* 10 ms, SIM_ORDERING_BACKDATE_NS
  WorldMaxAge, \* freshness.world_max_age_ms of the policy
  Ttls,        \* the times to live an admitted trajectory can have
  Settle,      \* 2, the still worlds the engine waits for after a cancel
  Lags,        \* how far a world's stamp can lie behind the request that brings it
  Activations, \* bound on the activations of the controller
  MaxGoals,    \* bound on the trajectories
  MaxSeq,      \* bound on the tokens signed
  Start,       \* both clocks at the start
  MaxTime,     \* bound on both clocks
  MaxStall     \* bound on how far sim falls behind

\* What the code's values of the parameters satisfy.
ASSUME PermitAssumption ==
  /\ {Window, Lease, WorldMaxAge, Settle} \subseteq Nat \ {0}
  /\ Backdate \in Nat /\ Backdate < Window
  /\ Ttls \subseteq Nat \ {0} /\ Lags \subseteq Nat
  /\ {Activations, MaxGoals, MaxSeq, Start, MaxTime, MaxStall} \subseteq Nat

VARIABLES
  sim, wall, eng, gate, wire, ctl,
  starts        \* history: how often each trajectory was started

leaseVars == <<sim, wall, eng, gate, wire, ctl, starts>>

None == -1
Idle == 0                      \* the digest of no trajectory
Goal == 1..MaxGoals            \* digests of trajectories, in the order admitted
Least(a, b)    == IF a <= b THEN a ELSE b
Greatest(a, b) == IF a <= b THEN b ELSE a

NoGrant == [kind |-> "none", nonce |-> 0, seq |-> 0, sim |-> 0, wall |-> 0,
            simEnd |-> 0, wallEnd |-> 0, digest |-> Idle]

\* What the engine reports: its newest world, the trajectory it executes, the
\* expiry of every trajectory it has admitted, whether a source is armed, and
\* after a cancel the still worlds newer than it (since) it yet waits for.
FreshEngine == [world |-> None, active |-> Idle, expires |-> [d \in Goal |-> 0],
                armed |-> FALSE, settle |-> 0, since |-> 0]

\* Enforcer::clear_active and armed.clear: whatever ends a trajectory disarms.
Cleared(e, t) ==
  [e EXCEPT !.active = Idle, !.armed = FALSE,
            !.settle = IF e.active = Idle THEN @ ELSE Settle,
            !.since  = IF e.active = Idle THEN @ ELSE t]

\* HaetaeGate's permit_* fields, the AcceptedWorldClock and the PermitSigner.
\* The fields of the second line mean something only while a reply is handled.
FreshGate == [asked |-> FALSE, reqSim |-> 0, reqWall |-> 0,
              remaining |-> 0, worldRemaining |-> 0, reset |-> FALSE, stop |-> TRUE,
              stamp |-> None, anchor |-> None,          \* AcceptedWorldClock
              nonce |-> 0, seq |-> 0, active |-> Idle, goalSeq |-> 0,
              admitted |-> Idle, admittedSeq |-> 0,
              holding |-> TRUE, expired |-> FALSE,
              goal |-> "none",  \* "future" sent, "handle" accepted, "cancel" cancel_requested
              sent |-> Idle,    \* the goal's digest
              failed |-> FALSE]

\* PermitGuard and LeaseTrajectoryController.
FreshController == [nonce |-> 1, seq |-> 0, locked |-> TRUE, grant |-> NoGrant,
                    expired |-> FALSE,                  \* reason_ is "expired"
                    active |-> Idle, pending |-> 0,     \* received, by its token
                    admitted |-> Idle, admittedSeq |-> 0,
                    holding |-> TRUE, wasHolding |-> TRUE, resetRequested |-> FALSE,
                    cutoff |-> 0,
                    goal |-> Idle,                      \* rt_active_goal_
                    succeeded |-> Idle]                 \* the last goal that reached its end

LeaseInit ==
  /\ sim = Start /\ wall = Start
  /\ eng = FreshEngine
  /\ gate = FreshGate
  /\ wire = {}
  /\ ctl = FreshController
  /\ starts = [d \in Goal |-> 0]

-----------------------------------------------------------------------------
(* The gate.  x is the node and the wire together.                          *)

\* The node changed, the wire as it was.
With(x, n) == [gate |-> n, wire |-> x.wire]

\* PermitSigner.sign.
Sent(x, kind, digest, simNs, left, wallNs) ==
  LET from == Greatest(0, simNs - Backdate)
      end  == Least(Lease, left)
      seq  == x.gate.seq + 1
  IN  [gate |-> [x.gate EXCEPT !.seq = seq],
       wire |-> x.wire \cup
         {[kind |-> kind, nonce |-> x.gate.nonce, seq |-> seq, sim |-> from, wall |-> wallNs,
           simEnd |-> from + end, wallEnd |-> wallNs + end, digest |-> digest]}]

\* The age of the request's clocks now (_permit, _arm_renewal_retiring).
AgeOf(n) == Greatest(sim - n.reqSim + Backdate, wall - n.reqWall)

\* _permit: the admission window is reserved inside the original expiry.
BudgetLeft(n) ==
  /\ AgeOf(n) < Window
  /\ n.worldRemaining - AgeOf(n) > Window
  /\ n.remaining - AgeOf(n) > Window

\* _permit once it does not raise: original request clocks, never the present.
SignedPermit(x, kind, digest) ==
  Sent(x, kind, digest, x.gate.reqSim, x.gate.remaining, x.gate.reqWall)

\* _cancel_arm with permits: a signed stop, the digest forgotten.
CancelArm(x) ==
  IF x.gate.nonce = 0 THEN x
  ELSE LET y == Sent(x, "stop", Idle, sim, Lease, wall)
       IN  With(y, [y.gate EXCEPT !.active = Idle, !.goalSeq = 0,
                                  !.goal = IF @ = "none" THEN @ ELSE "cancel"])

\* AcceptedWorldClock.observe and remaining.
Observed(n, stamp) ==
  IF stamp > n.stamp THEN [n EXCEPT !.stamp = stamp, !.anchor = n.reqWall] ELSE n

\* A mutant: a world that stands still on the wall clock keeps its authority.
WorldRemainingSimOnly(n) ==
  IF n.stamp = None \/ n.reqSim < n.stamp THEN 0
  ELSE Greatest(0, WorldMaxAge - (n.reqSim - n.stamp))

WorldRemaining(n) ==
  IF n.stamp = None \/ n.reqSim < n.stamp \/ n.reqWall < n.anchor THEN 0
  ELSE Greatest(0, Least(WorldMaxAge - (n.reqSim - n.stamp), WorldMaxAge - (n.reqWall - n.anchor)))

\* _receive: what is left of the world's and of the proposal's authority.
Remaining(n, e) ==
  LET age   == IF e.world = None THEN 0 ELSE n.reqSim - e.world
      lease == Least(Lease, WorldMaxAge - age)
      own   == IF e.active = Idle THEN lease ELSE Least(lease, e.expires[e.active] - n.reqSim)
  IN  Least(own, WorldRemaining(n))

\* The telemetry says that the controller runs the goal this node signed last.
AdmittedIsActive(n) == n.admitted = n.active /\ n.admittedSeq = n.goalSeq

\* _arm_renewal_retiring: inside the reserve of an admitted goal's expiry.
Retiring(n, e, arm) ==
  /\ ~n.reset /\ ~n.stop /\ arm = "none" /\ n.goal # "future" /\ e.active # Idle
  /\ n.active # Idle /\ AdmittedIsActive(n) /\ (~n.holding \/ n.expired)
  /\ AgeOf(n) < Window
  /\ n.worldRemaining - AgeOf(n) > Window
  /\ WorldMaxAge - (n.reqSim - e.world) - AgeOf(n) > Window
  /\ LET own == e.expires[e.active] - n.reqSim
     IN  own > 0 /\ n.remaining = own /\ own - AgeOf(n) <= Window

\* _heartbeat: what it would sign, and whether it signs at all.
HeartbeatDue(n) ==
  /\ n.nonce # 0
  /\ ~n.stop \/ n.reset
  /\ n.reset \/ (~n.holding /\ AdmittedIsActive(n))

Heartbeat(x) ==
  LET y == SignedPermit(x, IF x.gate.reset THEN "reset" ELSE "lease",
                  IF x.gate.reset THEN Idle ELSE x.gate.active)
  IN  IF x.gate.reset THEN With(y, [y.gate EXCEPT !.active = Idle, !.goalSeq = 0]) ELSE y

\* _execute_arm: the goal token carries the trajectory's digest.
ExecuteArm(x, d) ==
  LET y == SignedPermit(With(x, [x.gate EXCEPT !.active = d]), "goal", d)
  IN  With(y, [y.gate EXCEPT !.goalSeq = y.gate.seq, !.goal = "future", !.sent = d])

\* ExpiredActuation: stop at once, then the engine is told to reject, which
\* drops its trajectory and disarms its sources, and whose reply may cancel too.
ExpiredEngine(e) == Cleared(e, sim)
ExpiredGate(x, e) ==
  LET y == CancelArm(x)
      z == With(y, [y.gate EXCEPT !.reset = FALSE, !.stop = TRUE])
  IN  IF e.active # Idle THEN CancelArm(z) ELSE z

\* _abort: as much, and the node serves nothing any more.
AbortedGate(x) ==
  LET y == CancelArm(With(x, [x.gate EXCEPT !.reset = FALSE, !.stop = TRUE]))
  IN  With(y, [y.gate EXCEPT !.failed = TRUE])

Elapsed(n) == Greatest(wall - n.reqWall, sim - n.reqSim)

\* require_fresh_actuation, for a reply that executes a trajectory.
StaleReply(n) == Elapsed(n) >= Window
ExpiredReply(n, e) ==
  \/ sim >= e.expires[e.active]
  \/ n.reqSim - e.world + Elapsed(n) >= WorldMaxAge

\* lease_renewable.
Renewable(n, e) ==
  /\ e.world # None
  /\ Elapsed(n) < Window
  /\ n.reqSim - e.world + Elapsed(n) < WorldMaxAge

\* The node while it handles a reply (its world is observed first) and after.
Replied(n, e, stamp, rearm) ==
  LET n0 == Observed(n, stamp)
  IN  [n0 EXCEPT !.remaining = Remaining(n0, e), !.worldRemaining = WorldRemaining(n0),
                 !.reset = rearm, !.stop = ~e.armed]

Rested(n) == [n EXCEPT !.asked = FALSE, !.reqSim = 0, !.reqWall = 0, !.remaining = 0,
                       !.worldRemaining = 0, !.reset = FALSE, !.stop = TRUE]

\* What the order is carried out with: a goal, a stop, nothing.
Published(n, e, arm) ==
  LET x == [gate |-> n, wire |-> wire]
  IN  CASE arm = "execute" -> ExecuteArm(x, e.active)
        [] arm = "cancel"  -> CancelArm(x)
        [] arm = "none"    -> x

\* After it (x) a heartbeat follows, unless the goal's answer is awaited.
Renewing(n, x, e, arm) ==
  /\ x.gate.goal \in {"none", "handle"} /\ HeartbeatDue(x.gate)
  /\ Renewable(n, e) /\ ~Retiring(n, e, arm)

\* An answer to a trajectory that comes too late, and one there is no place for, is
\* a failure of the node.
Late(arm)    == arm = "execute" /\ StaleReply(gate)
Refused(arm) == arm = "execute" /\ (gate.goal # "none" \/ gate.nonce = 0)

\* Authority has run out: before the reply is acted on, or when something has to be
\* signed, for the base (whose challenge is known, or not) or for the arm.
Expiring(n, x, e, arm, base) ==
  \/ arm = "execute" /\ ExpiredReply(gate, e)
  \/ n.remaining <= 0
  \/ /\ ~BudgetLeft(n)
     /\ \/ base /\ (~n.stop \/ n.reset) /\ ~Retiring(n, e, arm)
        \/ arm = "execute" /\ gate.goal = "none"
        \/ Renewing(n, x, e, arm)

Outcome(n, x, e, arm, base) ==
  LET got == [gate |-> n, wire |-> wire]
  IN  CASE Late(arm) -> AbortedGate(got)
        [] ~Late(arm) /\ Expiring(n, x, e, arm, base) ->
             ExpiredGate(IF Renewing(n, x, e, arm) THEN x ELSE got, e)
        [] ~Late(arm) /\ ~Expiring(n, x, e, arm, base) /\ Refused(arm) -> AbortedGate(got)
        [] OTHER -> IF Renewing(n, x, e, arm) THEN Heartbeat(x) ELSE x

\* _receive from the reply on.  e is the engine that replied, arm its order,
\* rearm that it decided an explicit stop (explicit_rearm).  The recorder and the
\* state store are healthy, the mode is normal while a source is armed.
Serves(e, stamp, arm, rearm) ==
  \E n \in {Replied(gate, e, stamp, rearm)} :
  \E x \in {Published(n, e, arm)} :
  \E base \in BOOLEAN :
  \E y \in {Outcome(n, x, e, arm, base)} :
    /\ y.gate.seq <= MaxSeq
    /\ gate' = Rested(y.gate)
    /\ wire' = y.wire
    /\ eng' = IF ~Late(arm) /\ Expiring(n, x, e, arm, base) THEN ExpiredEngine(e) ELSE e

Ask ==
  /\ ~gate.asked /\ ~gate.failed
  /\ gate' = [gate EXCEPT !.asked = TRUE, !.reqSim = sim, !.reqWall = wall]
  /\ UNCHANGED <<sim, wall, eng, wire, ctl, starts>>

Answering == gate.asked /\ UNCHANGED <<sim, wall, ctl, starts>>

\* The engine has no world, or one older than the policy allows.
StaleWorld == eng.world = None \/ gate.reqSim - eng.world > WorldMaxAge

\* Such a world, or its expiry, ends a trajectory.
MustEnd == eng.active # Idle /\ (gate.reqSim >= eng.expires[eng.active] \/ StaleWorld)

\* Nothing new: a stale world disarms, as a refused proposal or a fault may.
AnswerTick(armed) ==
  /\ Answering /\ ~MustEnd
  /\ armed => eng.armed /\ ~StaleWorld
  /\ eng.active # Idle => armed
  /\ Serves([eng EXCEPT !.armed = armed], None, "none", FALSE)

\* A world message is accepted: its stamp advances and is not of the future.  Settle
\* still ones in a row after a cancel end the wait (update_arm_settle).
AnswerWorld(lag, still) ==
  LET stamp  == gate.reqSim - lag
      settle == IF eng.settle = 0 \/ stamp <= eng.since THEN eng.settle
                ELSE IF still THEN eng.settle - 1 ELSE Settle
  IN  /\ Answering /\ ~MustEnd
      /\ stamp > eng.world
      /\ Serves([eng EXCEPT !.world = stamp, !.settle = settle,
                            !.since = IF settle = 0 THEN 0 ELSE @], stamp, "none", FALSE)

\* An explicit stop was approved: the source is armed.
AnswerRearm ==
  /\ Answering /\ eng.active = Idle /\ eng.settle = 0 /\ ~StaleWorld
  /\ Serves([eng EXCEPT !.armed = TRUE], None, "none", TRUE)

\* A trajectory is admitted.
AnswerExecute(d, ttl) ==
  /\ Answering /\ eng.armed /\ eng.active = Idle /\ ~StaleWorld
  /\ \A c \in Goal : eng.expires[c] = 0 <=> c >= d
  /\ Serves([eng EXCEPT !.active = d, !.expires[d] = gate.reqSim + ttl],
            None, "execute", FALSE)

\* The trajectory is over, or is given up.
AnswerCancel ==
  /\ Answering /\ eng.active # Idle
  /\ Serves(Cleared(eng, gate.reqSim), None, "cancel", FALSE)

\* PermitSigner.observe: telemetry of the controller.
Observe ==
  /\ ~gate.failed /\ ~gate.asked
  /\ gate' = [gate EXCEPT !.nonce = ctl.nonce, !.admitted = ctl.admitted,
                          !.admittedSeq = ctl.admittedSeq, !.holding = ctl.holding,
                          !.expired = ctl.holding /\ ctl.expired]
  /\ gate' # gate
  /\ UNCHANGED <<sim, wall, eng, wire, ctl, starts>>

\* _on_arm_goal: the relay takes every goal, whatever the controller will say.
GoalAnswered ==
  /\ gate.goal = "future" /\ ~gate.asked /\ ~gate.failed
  /\ gate' = [gate EXCEPT !.goal = "handle"]
  /\ UNCHANGED <<sim, wall, eng, wire, ctl, starts>>

\* The controller neither runs this goal nor is about to.
NothingLeft(d) ==
  /\ ctl.goal # d
  /\ ctl.active = d => ctl.pending \in {0, ctl.admittedSeq}

\* _on_arm_result: the relay was refused, gave up before it forwarded the goal, or
\* was told how it ended.  Without a cancel only a success is in order.
GoalOver ==
  LET x == [gate |-> gate, wire |-> {t \in wire : t.kind = "goal" => t.digest # gate.sent}]
      y == IF gate.goal = "cancel" \/ ctl.succeeded = gate.sent THEN x ELSE AbortedGate(x)
  IN  /\ gate.goal \in {"handle", "cancel"} /\ ~gate.asked /\ ~gate.failed
      /\ NothingLeft(gate.sent)
      /\ y.gate.seq <= MaxSeq
      /\ gate' = [y.gate EXCEPT !.goal = "none", !.sent = Idle]
      /\ wire' = y.wire
      /\ UNCHANGED <<sim, wall, eng, ctl, starts>>

-----------------------------------------------------------------------------
(* The controller: PermitGuard under its mutex, c the controller.            *)

LiveNow(c) ==
  /\ c.grant.sim <= sim /\ sim < c.grant.simEnd
  /\ c.grant.wall <= wall /\ wall < c.grant.wallEnd

Locked(c) == [c EXCEPT !.locked = TRUE, !.grant = NoGrant, !.expired = FALSE]

\* live_unlocked: looking at the lease is what expires it.
Lived(c) == IF ~c.locked /\ ~LiveNow(c) THEN [Locked(c) EXCEPT !.expired = TRUE] ELSE c

\* A mutant: a token is not bound to the controller's nonce.
BoundAnyNonce(c, t, digest) == t.digest = digest /\ t.seq > c.seq

Bound(c, t, digest) == t.nonce = c.nonce /\ t.digest = digest /\ t.seq > c.seq

FreshToken(t) ==
  /\ t.sim <= sim /\ t.wall <= wall
  /\ sim - t.sim < Window /\ wall - t.wall < Window
  /\ sim < t.simEnd /\ wall < t.wallEnd
  /\ t.simEnd - t.sim <= Lease /\ t.wallEnd - t.wall <= Lease

\* accept: any failure locks.  A locked guard takes a stop or a reset only.
Acceptable(c, t, digest) ==
  /\ Bound(c, t, digest) /\ FreshToken(t)
  /\ Lived(c).locked => t.kind \in {"reset", "stop"}

Accepted(c, t) ==
  IF t.kind = "stop" THEN [Locked(c) EXCEPT !.seq = t.seq]
  ELSE [c EXCEPT !.seq = t.seq, !.locked = FALSE, !.grant = t, !.expired = FALSE]

Forgotten(c) == [c EXCEPT !.active = Idle, !.admitted = Idle, !.pending = 0,
                          !.admittedSeq = 0, !.holding = TRUE]

\* The tokens a controller could still take at these times.
Deliverable(s, w) == {t \in wire : s - t.sim < Window /\ w - t.wall < Window}

Becomes(c) ==
  /\ ctl' = c
  /\ starts' = IF ctl'.goal \in Goal \ {ctl.goal} THEN [starts EXCEPT ![ctl'.goal] = @ + 1] ELSE starts
  /\ UNCHANGED <<sim, wall, eng, gate, wire>>

\* The heartbeat callback after an accepted reset or stop.
ResetOrStopped(c, t) ==
  [Forgotten(Accepted(c, t)) EXCEPT !.resetRequested = @ \/ t.kind = "reset"]

\* The heartbeat callback.
OnHeartbeat(t) ==
  /\ t.kind \in {"lease", "reset", "stop"}
  /\ Becomes(LET c == Lived(ctl)
             IN  CASE ~Acceptable(c, t, IF t.kind = "lease" THEN c.active ELSE Idle) ->
                        Locked(c)
                   [] OTHER -> IF t.kind = "lease" THEN Accepted(c, t) ELSE ResetOrStopped(c, t))

\* current_goal with a zero header: the grant's stamp counts.
CurrentGoal(c) ==
  /\ c.grant.sim >= c.cutoff /\ c.grant.sim > 0
  /\ sim - c.grant.sim < Window
  /\ ~c.holding /\ ~c.locked /\ LiveNow(c)

\* The goal callback: one token, one answer.
OnGoal(t) ==
  /\ t.kind = "goal"
  /\ Becomes(LET c == Lived(ctl)
                 d == Accepted(c, t)
             IN  IF c.holding \/ c.locked \/ ~Acceptable(c, t, t.digest) \/ ~CurrentGoal(d)
                   THEN Locked(c)
                   ELSE [d EXCEPT !.active = t.digest, !.pending = t.seq])

\* The accepted callback, after the handshake: everything is looked at again.
OnGoalAccepted ==
  /\ ctl.pending # 0 /\ ctl.pending # ctl.admittedSeq
  /\ Becomes(LET c == Lived(ctl)
             IN  IF CurrentGoal(c)
                   THEN [c EXCEPT !.admitted = c.active, !.admittedSeq = c.pending, !.goal = c.active]
                   ELSE Forgotten(Locked(c)))

\* Anything on the topics that is not a permit, or one that is out of date
\* (reject, and accept where it throws).
OnNonsense ==
  /\ ~ctl.locked \/ ctl.expired
  /\ Becomes(Locked(ctl))

\* The update thread.  A requested reset drops the trajectory first; without a
\* live lease it is dropped too and the position held.
Reset(c) == IF ~c.resetRequested THEN c
            ELSE [c EXCEPT !.resetRequested = FALSE, !.goal = Idle, !.wasHolding = TRUE, !.cutoff = sim]

Held(c) ==
  [c EXCEPT !.holding = TRUE, !.cutoff = IF c.wasHolding THEN @ ELSE sim, !.wasHolding = TRUE,
            !.goal = Idle]

Updated(c0) ==
  LET c == Reset(Lived(c0))
  IN  IF c.locked THEN Held(c) ELSE [c EXCEPT !.holding = FALSE, !.wasHolding = FALSE]

Update ==
  /\ Becomes(Updated(ctl))
  /\ ctl' # ctl

\* The trajectory reaches its end or is given up (the base controller, external).
GoalEnds(success) ==
  /\ ctl.goal # Idle
  /\ Becomes([ctl EXCEPT !.goal = Idle, !.succeeded = IF success THEN ctl.goal ELSE @])

\* Activated again: a new nonce.
Activate ==
  /\ ctl.nonce < Activations
  /\ Becomes([FreshController EXCEPT !.nonce = ctl.nonce + 1, !.cutoff = sim,
                                    !.succeeded = ctl.succeeded])

\* Both clocks go on; a reply that took the admission window is late enough.
\* A tick is a controller cycle, 10 ms of simulated time, which does not pass
\* without an update.
Tick(ds) ==
  /\ wall < MaxTime
  /\ gate.asked => Elapsed(gate) < Window
  /\ wall' = wall + 1 /\ sim' = sim + ds
  /\ wall' - sim' <= MaxStall
  /\ ds = 1 => Updated(ctl) = ctl
  /\ wire' = Deliverable(sim', wall')
  /\ UNCHANGED <<eng, gate, ctl, starts>>

LeaseNext ==
  \/ Ask \/ Observe \/ GoalAnswered \/ GoalOver
  \/ AnswerRearm \/ AnswerCancel \/ \E armed \in BOOLEAN : AnswerTick(armed)
  \/ \E lag \in Lags, still \in BOOLEAN : AnswerWorld(lag, still)
  \/ \E d \in Goal, ttl \in Ttls : AnswerExecute(d, ttl)
  \/ \E t \in wire : OnHeartbeat(t) \/ OnGoal(t)
  \/ OnGoalAccepted \/ OnNonsense \/ Update \/ Activate
  \/ \E success \in BOOLEAN : GoalEnds(success)
  \/ \E ds \in {0, 1} : Tick(ds)

LeaseSpec == LeaseInit /\ [][LeaseNext]_leaseVars

-----------------------------------------------------------------------------
\* The next update would move the arm.
Moves == ctl.goal # Idle /\ ~ctl.resetRequested /\ ~ctl.locked /\ LiveNow(ctl)

\* The arm only moves the trajectory its live grant was signed for, whatever
\* resets, stops, new goals and late tokens come in between (controller.cpp
\* update looks at the lease and not at the digest).
ExactAction == Moves => ctl.grant.digest = ctl.goal

\* The arm never moves after its proposal expired, nor on a world that is older
\* than the policy allows on either clock, counted from the request that
\* brought it, and not from the reply, the signature or the delivery.
WithinAuthority ==
  Moves => /\ sim < eng.expires[ctl.goal]
           /\ sim - gate.stamp < WorldMaxAge
           /\ wall - gate.anchor < WorldMaxAge

\* Whatever moves has a live grant, for itself and no longer than was decided.
WithinGrant == ExactAction /\ WithinAuthority

\* A trajectory is started at most once, whatever is delivered again and however
\* often the controller is activated anew (permit.hpp: nonce and sequence).
StartedOnce == \A d \in Goal : starts[d] <= 1
=============================================================================
