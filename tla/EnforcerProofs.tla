--------------------------- MODULE EnforcerProofs ---------------------------
(***************************************************************************)
(* The enforcer for every policy and every input: its types, the exclusion  *)
(* of simultaneous authorities, the trajectory on the wire being exactly    *)
(* the one it authorises, motion within the gate and earned by rest and a   *)
(* zero command, no command that speeds up, no motion after a fault.  The   *)
(* methods are proved about in EnforcerCoreProofs; here each handler shows  *)
(* that the record they leave is Due, and hands it to ReturnHolds.          *)
(***************************************************************************)
EXTENDS Enforcer, EnforcerCoreProofs

-----------------------------------------------------------------------------
(* The handlers.                                                           *)

Inv ==
  /\ Good(enf)
  /\ ~enf.cancelPending
  /\ now \in Nat
  /\ step \in Step
  /\ wire \in {"idle", "running"}
  /\ rest \in [still : 0..2, stamp : Nat]
  /\ zeroed \subseteq Source
  /\ CancelReachesWire

\* The enforcer counts no still sample that the controller does not count: as
\* long as its own count is not over, the controller's is not behind.
Resting(e, r) ==
  /\ ~e.cancelling => r.still = 2
  /\ r.still # 2 =>
       /\ r.stamp >= e.cancelSince
       /\ r.stamp <= Larger(e.cancelSince, e.lastSettle)
       /\ r.stamp < e.lastSettle => e.settle = 0
       /\ e.settle <= r.still

\* What the authority has been earned by.
Earned ==
  /\ MotionWithinGate
  /\ step.arm = "execute" => enf.arm.src \in enf.armed
  /\ enf.armed \subseteq zeroed
  /\ Resting(enf, rest)

\* The controller's count after a world it has seen accepted.
Sampled(r, w) ==
  IF r.still = 2 \/ w.joints = "none" \/ w.stamp <= r.stamp
    THEN r
    ELSE [still |-> IF w.joints \in {"rest", "goal"} THEN r.still + 1 ELSE 0,
          stamp |-> w.stamp]

\* A record that owes a cancel starts counting now.
Owing(e, r) ==
  /\ e.cancelPending => e.cancelSince = now /\ e.settle = 0
  /\ ~e.cancelPending => Resting(e, r)

\* What a handler has to have done to the record before it returns its output.
Due(e, f, x, k, zs) ==
  /\ Judged(e, now)
  /\ f # None => Idle(e) /\ e.armed = {}
  /\ e.armed \subseteq enf.armed \cup zs
  /\ x => e.arm.src \in e.armed
  /\ e.stateOk = enf.stateOk /\ e.recorderOk = enf.recorderOk
  /\ Owing(e, IF k THEN Sampled(rest, e.world) ELSE rest)

\* No motion leaves after a fault, and the fault stays.
FaultStays ==
  ~(enf.recorderOk /\ enf.stateOk)
    => ~(enf'.recorderOk /\ enf'.stateOk) /\ ~Actuates(step')

Settled == Inv' /\ Earned' /\ FaultStays

\* Taking authority away owes no more than a cancel (lib.rs clear_active).
LEMMA OwingLeft ==
  ASSUME NEW e, NEW b, NEW r, Owing(b, r), Left(e, b, now)
  PROVE  Owing(e, r)
  BY DEF Owing, Left, Unwound, SameView, Resting

\* Nothing authorised is judged.
LEMMA IdleJudged == ASSUME NEW e, NEW t, Idle(e) PROVE Judged(e, t)
  BY DEF Idle, Judged, JudgedBase, JudgedArm

\* Counting a sample never gets ahead of the controller's count: a sample the
\* enforcer counts is newer than the cancel and than any it counted before, so
\* the controller counts it too (lib.rs update_arm_settle).
LEMMA SettleRests ==
  ASSUME NEW e \in Enforcer, e.world \in World,
         NEW r \in [still : 0..2, stamp : Nat], Resting(e, r)
  PROVE  Resting(UpdateArmSettle(e), Sampled(r, e.world))
<1> DEFINE w == e.world
           u == UpdateArmSettle(e)
           q == Sampled(r, w)
<1>1. /\ w.stamp \in Nat /\ e.settle \in Nat /\ e.lastSettle \in Nat /\ e.cancelSince \in Nat
      /\ r.still \in 0..2 /\ r.stamp \in Nat /\ e.cancelling \in BOOLEAN
  BY DEF Enforcer, World
<1>2. CASE ~e.cancelling
  <2>1. u = e /\ q = r
    BY <1>2 DEF UpdateArmSettle, Sampled, Resting
  <2>2. QED
    BY <2>1
<1>3. CASE e.cancelling /\ r.still = 2
  <2>1. q.still = 2
    BY <1>3 DEF Sampled
  <2>2. QED
    BY <2>1 DEF Resting
<1>4. CASE e.cancelling /\ r.still # 2 /\ w.joints = "none"
  <2>1. u = e /\ q = r
    BY <1>4 DEF UpdateArmSettle, Sampled
  <2>2. QED
    BY <2>1
<1>5. CASE /\ e.cancelling /\ r.still # 2 /\ w.joints # "none"
           /\ w.stamp <= e.cancelSince \/ w.stamp <= e.lastSettle
  <2>1. u = e
    BY <1>5 DEF UpdateArmSettle
  <2>2. CASE w.stamp <= r.stamp
    <3>1. q = r
      BY <2>2 DEF Sampled
    <3>2. QED
      BY <2>1, <3>1
  <2>3. CASE ~(w.stamp <= r.stamp)
    <3>1. q.stamp = w.stamp /\ q.still \in Nat
      BY <1>1, <1>5, <2>3 DEF Sampled
    <3>2. e.settle = 0 /\ w.stamp <= e.lastSettle /\ r.stamp >= e.cancelSince
      BY <1>1, <1>5, <2>3 DEF Resting
    <3> HIDE DEF q, w
    <3>3. Resting(e, q)
      BY <1>1, <1>5, <2>3, <3>1, <3>2 DEF Resting, Larger
    <3>4. QED
      BY <2>1, <3>3 DEF q, w
  <2>4. QED
    BY <2>2, <2>3
<1>6. CASE /\ e.cancelling /\ r.still # 2 /\ w.joints # "none"
           /\ ~(w.stamp <= e.cancelSince) /\ ~(w.stamp <= e.lastSettle)
  <2>1. ~(w.stamp <= r.stamp) /\ e.settle <= r.still
    BY <1>1, <1>6 DEF Resting, Larger
  <2> DEFINE moving == w.joints \notin {"rest", "goal"}
  <2>2. ASSUME moving PROVE Resting(u, q)
    <3>1. q = [still |-> 0, stamp |-> w.stamp]
      BY <1>6, <2>1, <2>2 DEF Sampled
    <3>2. u = [e EXCEPT !.lastSettle = w.stamp, !.settle = 0]
      BY <1>6, <2>2 DEF UpdateArmSettle
    <3>3. /\ u.cancelSince = e.cancelSince /\ u.lastSettle = w.stamp /\ u.settle = 0
          /\ u.cancelling = e.cancelling /\ q.still = 0 /\ q.stamp = w.stamp
      BY <3>1, <3>2 DEF Enforcer
    <3> HIDE DEF q, u, w
    <3>4. /\ q.stamp >= u.cancelSince /\ q.stamp <= Larger(u.cancelSince, u.lastSettle)
          /\ u.settle <= q.still
      BY <1>1, <1>6, <3>3 DEF Larger
    <3>5. QED
      BY <1>6, <3>3, <3>4 DEF Resting
  <2>3. ASSUME ~moving PROVE Resting(u, q)
    <3> DEFINE n == e.settle + 1
               b == n < 2
    <3>1. q = [still |-> r.still + 1, stamp |-> w.stamp]
      BY <1>6, <2>1, <2>3 DEF Sampled
    <3>2. u = [e EXCEPT !.lastSettle = w.stamp, !.settle = n, !.cancelling = b]
      BY <1>6, <2>3 DEF UpdateArmSettle
    <3>3. ~b => r.still + 1 = 2
      BY <1>1, <1>6, <2>1
    <3>4. n \in Nat /\ n <= r.still + 1
      BY <1>1, <2>1
    <3> HIDE DEF n, b
    <3>5. /\ u.cancelSince = e.cancelSince /\ u.lastSettle = w.stamp /\ u.settle = n
          /\ u.cancelling = b /\ q.still = r.still + 1 /\ q.stamp = w.stamp
      BY <3>1, <3>2 DEF Enforcer
    <3> HIDE DEF q, u, w
    <3>6. ~u.cancelling => q.still = 2
      BY <3>3, <3>5
    <3>7. /\ q.stamp >= u.cancelSince /\ q.stamp <= Larger(u.cancelSince, u.lastSettle)
          /\ ~(q.stamp < u.lastSettle) /\ u.settle <= q.still
      BY <1>1, <1>6, <3>4, <3>5 DEF Larger
    <3>8. QED
      BY <3>6, <3>7 DEF Resting
  <2>4. Resting(u, q)
    BY <2>2, <2>3
  <2>5. QED
    BY <2>4 DEF q, u, w
<1>7. QED
  BY <1>1, <1>2, <1>3, <1>4, <1>5, <1>6

\* A handler that returns the output of a good record keeps the invariant, if
\* the record owes the wire what the enforcer owed, or holds the trajectory
\* that is to be executed.
LEMMA ReturnHolds ==
  ASSUME Inv, NEW e, Good(e), NEW f \in StopReason \cup {None},
         NEW x \in BOOLEAN, NEW k \in BOOLEAN, NEW zs \in SUBSET Source,
         Return(Output(e, now, f, x, k)), Watch(zs),
         x => f = None /\ e.arm # None,
         ~x => Live(e) = Live(enf),
         k => e.world \in World
  PROVE  Inv'
<1> DEFINE o == Output(e, now, f, x, k)
<1>1. now \in Nat
  BY DEF Inv
<1>2. /\ Good(o.enf) /\ ~o.enf.cancelPending /\ o.enf.world = e.world
      /\ o.step \in Step /\ o.step.ack = k
      /\ o.step.arm = "cancel" => o.enf.arm = None
      /\ o.step.arm = "none" => (Live(e) <=> o.enf.arm # None)
      /\ o.step.arm = "execute" => x /\ o.enf.arm = e.arm
      /\ f = None /\ e.arm # None /\ x => o.step.arm # "none"
  BY <1>1, OutputGood
<1>3. enf' = o.enf /\ step' = o.step /\ now' = now
  BY DEF Return
<1> HIDE DEF o
<1>4. Good(enf)' /\ ~enf'.cancelPending /\ now' \in Nat /\ step' \in Step
  BY <1>1, <1>2, <1>3 DEF Good
<1>5. step'.arm \in {"none", "execute", "cancel"} /\ step'.ack = k
  BY <1>2, <1>3 DEF Step
<1>6. wire' = IF step'.arm = "execute" THEN "running"
              ELSE IF step'.arm = "cancel" THEN "idle" ELSE wire
  BY <1>5 DEF Watch
<1>7. (wire = "running") <=> Live(enf)
  BY DEF Inv, CancelReachesWire, Live
<1>8. wire' \in {"idle", "running"} /\ CancelReachesWire'
  <2>1. wire' \in {"idle", "running"}
    BY <1>6 DEF Inv
  <2>2. CASE step'.arm = "execute"
    BY <1>2, <1>3, <1>6, <2>1, <2>2 DEF CancelReachesWire
  <2>3. CASE step'.arm = "cancel"
    BY <1>2, <1>3, <1>6, <2>1, <2>3 DEF CancelReachesWire
  <2>4. CASE step'.arm = "none"
    <3>1. wire' = wire /\ ~x /\ (Live(e) <=> enf'.arm # None)
      BY <1>2, <1>3, <1>6, <2>4
    <3>2. QED
      BY <1>7, <2>1, <3>1 DEF CancelReachesWire
  <2>5. QED
    BY <1>5, <2>1, <2>2, <2>3, <2>4
<1>9. rest' \in [still : 0..2, stamp : Nat]
  <2>1. rest \in [still : 0..2, stamp : Nat]
    BY DEF Inv
  <2>2. k => enf'.world.stamp \in Nat
    BY <1>2, <1>3 DEF World
  <2>3. rest.still # 2 => rest.still + 1 \in 0..2
    BY <2>1
  <2>4. QED
    BY <1>1, <1>5, <2>1, <2>2, <2>3 DEF Watch
<1>10. zeroed' \subseteq Source
  BY DEF Watch, Inv
<1>11. QED
  BY <1>4, <1>8, <1>9, <1>10 DEF Inv

\* If the record is due, what has been returned is earned.
LEMMA ReturnEarns ==
  ASSUME Inv, Earned, NEW e, Good(e), NEW f \in StopReason \cup {None},
         NEW x \in BOOLEAN, NEW k \in BOOLEAN, NEW zs \in SUBSET Source,
         Return(Output(e, now, f, x, k)), Watch(zs), Due(e, f, x, k, zs)
  PROVE  Earned' /\ FaultStays /\ (Slower(e, enf) => Slower(enf', enf))
<1> DEFINE o == Output(e, now, f, x, k)
<1>1. now \in Nat
  BY DEF Inv
<1>2. Judged(e, now) /\ (f # None => Idle(e) /\ e.armed = {})
  BY DEF Due
<1>3. /\ SameView(o.enf, e) /\ Slower(o.enf, e) /\ o.enf.armed \subseteq e.armed
      /\ o.step.at = now
      /\ o.step.arm = "cancel" =>
           \/ /\ e.cancelPending /\ o.enf.cancelling = e.cancelling
              /\ o.enf.cancelSince = e.cancelSince /\ o.enf.settle = e.settle
           \/ o.enf.cancelling /\ o.enf.cancelSince = now /\ o.enf.settle = 0
      /\ o.step.arm # "cancel" =>
           /\ ~e.cancelPending /\ o.enf.cancelling = e.cancelling
           /\ o.enf.cancelSince = e.cancelSince /\ o.enf.settle = e.settle
      /\ o.step.stop \notin {None, "NoCommand", "Startup", "Expired"} => o.enf.armed = {}
      /\ o.step.cmd > 0 \/ o.step.arm = "execute" =>
           /\ o.step.stop = None /\ ~o.enf.cancelling
           /\ e.stateOk /\ e.recorderOk /\ o.enf.armed = e.armed
      /\ o.step.cmd > 0 =>
           /\ o.enf.active # None /\ o.step.cmd = o.enf.active.approved
           /\ now < o.enf.active.expires
           /\ o.step.cmd <= JudgeVelocity(o.enf, o.enf.active.src, o.enf.active.ask, now)
      /\ o.enf.arm # None =>
           now < o.enf.arm.expires /\ Fresh(o.enf, now) /\ MonitorArm(o.enf, now)
  BY <1>1, <1>2, OutputLeaves
<1>4. /\ Good(o.enf) /\ ~o.enf.cancelPending /\ o.enf.world = e.world
      /\ o.step \in Step /\ o.step.ack = k
      /\ o.step.arm = "cancel" => o.enf.arm = None
      /\ o.step.arm = "none" => (Live(e) <=> o.enf.arm # None)
      /\ o.step.arm = "execute" => x /\ o.enf.arm = e.arm
      /\ f = None /\ e.arm # None /\ x => o.step.arm # "none"
  BY <1>1, OutputGood
<1>5. enf' = o.enf /\ step' = o.step /\ now' = now
  BY DEF Return
<1> HIDE DEF o
<1>6. CommandWithinGate'
  BY <1>3, <1>5 DEF CommandWithinGate
<1>7. TrajectoryMonitored'
  BY <1>3, <1>5 DEF TrajectoryMonitored
<1>8. step'.arm = "execute" => enf'.arm.src \in enf'.armed
  BY <1>3, <1>4, <1>5 DEF Due
<1>9. enf'.armed \subseteq zeroed'
  <2>1. step'.stop \in Refusal => step'.stop \notin {None, "NoCommand", "Startup", "Expired"}
    BY StopAssumption DEF Refusal
  <2>2. e.armed \subseteq zeroed \cup zs
    BY DEF Due, Earned
  <2>3. QED
    BY <1>3, <1>5, <2>1, <2>2 DEF Watch
<1>10. Resting(enf', rest')
  <2>1. CASE step'.arm = "cancel"
    <3>1. rest' = [still |-> 0, stamp |-> now]
      BY <2>1 DEF Watch
    <3>2. enf'.cancelSince = now /\ enf'.settle = 0 /\ enf'.cancelling
      BY <1>3, <1>4, <1>5, <2>1 DEF Due, Owing, Good
    <3>3. enf'.lastSettle \in Nat
      BY <1>4, <1>5 DEF Good, Enforcer
    <3>4. rest'.still = 0 /\ rest'.stamp = now
      BY <3>1
    <3>5. QED
      BY <1>1, <3>2, <3>3, <3>4 DEF Resting, Larger
  <2>2. CASE step'.arm # "cancel"
    <3> DEFINE q == IF k THEN Sampled(rest, e.world) ELSE rest
    <3>1. rest' = q
      BY <1>4, <1>5, <2>2 DEF Watch, Sampled
    <3>2. Resting(e, q)
      BY <1>3, <1>5, <2>2 DEF Due, Owing
    <3>3. /\ enf'.cancelling = e.cancelling /\ enf'.cancelSince = e.cancelSince
          /\ enf'.settle = e.settle /\ enf'.lastSettle = e.lastSettle
      BY <1>3, <1>5, <2>2 DEF SameView
    <3> HIDE DEF q
    <3>4. QED
      BY <3>1, <3>2, <3>3 DEF Resting
  <2>3. QED
    BY <2>1, <2>2
<1>11. FaultStays
  BY <1>3, <1>5 DEF FaultStays, Actuates, Due, SameView
<1>12. Slower(e, enf) => Slower(enf', enf)
  <2>1. Slower(enf', e) /\ Good(enf') /\ Good(enf)
    BY <1>3, <1>4, <1>5 DEF Inv
  <2>2. QED
    BY <2>1, ApprovedType DEF Slower
<1>13. Earned'
  BY <1>6, <1>7, <1>8, <1>9, <1>10 DEF Earned, MotionWithinGate, Resting
<1>14. QED
  BY <1>11, <1>12, <1>13

\* Both at once.
LEMMA ReturnSettles ==
  ASSUME Inv, Earned, NEW e, Good(e), NEW f \in StopReason \cup {None},
         NEW x \in BOOLEAN, NEW k \in BOOLEAN, NEW zs \in SUBSET Source,
         Return(Output(e, now, f, x, k)), Watch(zs), Due(e, f, x, k, zs),
         x => f = None /\ e.arm # None,
         ~x => Live(e) = Live(enf),
         k => e.world \in World
  PROVE  Settled /\ (Slower(e, enf) => Slower(enf', enf))
<1>1. Inv'
  BY ReturnHolds
<1>2. Earned' /\ FaultStays /\ (Slower(e, enf) => Slower(enf', enf))
  BY ReturnEarns
<1>3. QED
  BY <1>1, <1>2 DEF Settled

\* What is left of the enforcer owes what the enforcer owed.
LEMMA LeftOwes ==
  ASSUME Inv, Earned, NEW e, Left(e, enf, now)
  PROVE  /\ Owing(e, rest) /\ e.armed \subseteq enf.armed /\ Slower(e, enf)
         /\ e.stateOk = enf.stateOk /\ e.recorderOk = enf.recorderOk
<1>1. Owing(enf, rest)
  BY DEF Inv, Earned, Owing
<1>2. QED
  BY <1>1, OwingLeft DEF Left, SameView

\* Every refusal: unarmed, denied, unsupported, malformed.
LEMMA RefuseHolds ==
  ASSUME Inv, Earned, NEW f \in StopReason \cup {None}, Watch({}),
         Return(Output(Drop(enf, now), now, f, FALSE, FALSE))
  PROVE  Settled /\ Slower(enf', enf)
<1> DEFINE e == Drop(enf, now)
<1>1. Good(e) /\ Live(e) = Live(enf) /\ Left(e, enf, now) /\ Idle(e) /\ e.armed = {}
  BY DropGood, DropLeaves DEF Inv
<1>2. Return(Output(e, now, f, FALSE, FALSE))
  OBVIOUS
<1> HIDE DEF e
<1>3. Due(e, f, FALSE, FALSE, {}) /\ Slower(e, enf)
  BY <1>1, LeftOwes, IdleJudged DEF Due
<1>4. {} \in SUBSET Source
  OBVIOUS
<1>5. QED
  BY <1>1, <1>2, <1>3, <1>4, ReturnSettles

\* Enforcer::reject and all that ends in it.
LEMMA DenyHolds ==
  ASSUME Inv, Earned, Deny, Watch({}) PROVE Settled /\ Slower(enf', enf)
<1>1. "Denied" \in StopReason \cup {None}
  BY DEF StopReason
<1>2. QED
  BY <1>1, RefuseHolds DEF Deny, Rejected

\* A stop clears, and arms its source unless a cancellation is settling.
LEMMA StopHolds ==
  ASSUME Inv, Earned, NEW s \in Source, HandleStop(s), Watch({s})
  PROVE  Settled /\ Slower(enf', enf)
<1> DEFINE c == ClearActive(enf, FALSE, now)
           a == [c EXCEPT !.armed = c.armed \cup {s}, !.everArmed = TRUE]
           e == IF c.cancelling THEN c ELSE a
<1>1. Good(c) /\ c.active = None /\ c.arm = None /\ Live(c) = Live(enf)
  BY ClearGood DEF Inv
<1>2. Return(Output(e, now, None, FALSE, FALSE))
  BY DEF HandleStop
<1>3. Left(c, enf, now)
  BY ClearLeaves DEF Inv
<1> HIDE DEF c
<1>4. /\ Owing(c, rest) /\ c.armed \subseteq enf.armed
      /\ c.stateOk = enf.stateOk /\ c.recorderOk = enf.recorderOk
  BY <1>3, LeftOwes
<1>5. (Good(a) /\ Live(a) = Live(c)) \/ c.cancelling
  <2>1. /\ a \in Enforcer /\ a.active = c.active /\ a.hist = c.hist /\ a.arm = c.arm
        /\ a.cancelling = c.cancelling /\ a.cancelPending = c.cancelPending
    BY <1>1 DEF Good, Enforcer
  <2>2. QED
    BY <1>1, <2>1 DEF Good, Live
<1>6. /\ a.armed = c.armed \cup {s} /\ a.active = c.active /\ a.arm = c.arm
      /\ a.stateOk = c.stateOk /\ a.recorderOk = c.recorderOk
      /\ a.cancelling = c.cancelling /\ a.cancelPending = c.cancelPending
      /\ a.cancelSince = c.cancelSince /\ a.settle = c.settle
      /\ a.lastSettle = c.lastSettle
  BY <1>1 DEF Good, Enforcer
<1>7. Good(e) /\ Live(e) = Live(enf)
  BY <1>1, <1>5
<1> HIDE DEF a
<1>8. /\ Idle(e) /\ e.armed \subseteq enf.armed \cup {s} /\ Owing(e, rest)
      /\ e.stateOk = enf.stateOk /\ e.recorderOk = enf.recorderOk
  <2>1. Owing(a, rest)
    BY <1>4, <1>6 DEF Owing, Resting
  <2>2. QED
    BY <1>1, <1>4, <1>6, <2>1 DEF Idle
<1> HIDE DEF e
<1>9. Due(e, None, FALSE, FALSE, {s}) /\ Slower(e, enf)
  BY <1>8, IdleJudged DEF Due, Slower, Idle
<1>10. {s} \in SUBSET Source
  OBVIOUS
<1>11. QED
  BY <1>2, <1>7, <1>9, <1>10, ReturnSettles

\* A proposal that must arm first is refused.
LEMMA UnarmedHolds ==
  ASSUME Inv, Earned, NEW s, HandleUnarmed(s), Watch({}) PROVE Settled /\ Slower(enf', enf)
<1>1. "Unarmed" \in StopReason \cup {None}
  BY DEF StopReason
<1>2. QED
  BY <1>1, RefuseHolds DEF HandleUnarmed

\* An admitted base command comes from an armed source, with the arm idle.
LEMMA VelocityHolds ==
  ASSUME Inv, Earned, NEW p \in Velocity, ~MustRearm(p.src), VelocityAllowed(enf, p, now),
         AdmitVelocity(p), Watch({})
  PROVE  Settled
<1> DEFINE c == ClearActive(enf, FALSE, now)
           j == JudgeVelocity(enf, p.src, p.speed, now)
           v == [src |-> p.src, ask |-> p.speed, approved |-> j, expires |-> now + p.ttl]
           e == [c EXCEPT !.active = v]
<1>1. enf.arm = None /\ ~enf.cancelling /\ p.src \in enf.armed
  BY DEF MustRearm
<1>2. Good(enf) /\ now \in Nat
  BY DEF Inv
<1>3. /\ Good(c) /\ c.arm = None /\ Live(c) = Live(enf)
      /\ c.armed = enf.armed /\ c.cancelling = enf.cancelling
  BY <1>1, <1>2, ClearGood
<1>4. p.speed \in 1..MaxSpeed /\ p.ttl \in Nat /\ p.src \in Source
  BY DEF Velocity
<1>5. j \in 1..MaxSpeed
  BY <1>2, <1>4, JudgeType, EnforcerAssumption DEF VelocityAllowed, Good
<1>6. Return(Output(e, now, None, FALSE, FALSE))
  BY DEF AdmitVelocity
<1>11. Left(c, enf, now)
  BY <1>2, ClearLeaves
<1> HIDE DEF c
<1>12. SameView(c, enf) /\ Owing(c, rest)
  BY <1>11, LeftOwes DEF Left
<1>13. JudgeVelocity(c, p.src, p.speed, now) = j
  BY <1>12, SameJudgement
<1> HIDE DEF j
<1>7. v \in Active /\ v.src = p.src /\ v # None /\ v.ask = p.speed /\ v.approved = j
  BY <1>2, <1>4, <1>5, AbsentAssumption DEF Active
<1> HIDE DEF v
<1>8. /\ e \in Enforcer /\ e.active = v /\ e.hist = c.hist /\ e.arm = c.arm
      /\ e.armed = c.armed /\ e.cancelling = c.cancelling
      /\ e.cancelPending = c.cancelPending
  BY <1>3, <1>7 DEF Good, Enforcer
<1>9. Good(e) /\ Live(e) = Live(enf)
  BY <1>1, <1>3, <1>7, <1>8 DEF Good, Live
<1>14. SameView(e, c) /\ e.cancelSince = c.cancelSince /\ e.settle = c.settle
  BY <1>3 DEF SameView, Good, Enforcer
<1> HIDE DEF e
<1>10. Owing(e, rest)
  BY <1>8, <1>12, <1>14 DEF Owing, Resting, SameView
<1>15. Judged(e, now)
  <2>1. JudgeVelocity(e, p.src, p.speed, now) = j
    BY <1>13, <1>14, SameJudgement
  <2>2. JudgedBase(e, now)
    BY <1>5, <1>7, <1>8, <2>1, EnforcerAssumption DEF JudgedBase
  <2>3. QED
    BY <1>3, <1>8, <2>2 DEF Judged, JudgedArm
<1>16. Due(e, None, FALSE, FALSE, {})
  BY <1>3, <1>8, <1>10, <1>12, <1>14, <1>15 DEF Due, SameView
<1>17. {} \in SUBSET Source
  OBVIOUS
<1>18. QED
  BY <1>6, <1>9, <1>16, <1>17, ReturnSettles

\* An admitted trajectory is the only authority, and its step is reserved.
LEMMA TrajectoryHolds ==
  ASSUME Inv, Earned, NEW p \in Trajectory, ~MustRearm(p.src),
         TrajectoryAllowed(enf, p, now), AdmitTrajectory(p), Watch({})
  PROVE  Settled /\ Slower(enf', enf)
<1> DEFINE c == ClearActive(enf, FALSE, now)
           a == [src |-> p.src, rev |-> p.rev, step |-> p.step, started |-> now,
                 end |-> now + p.len, expires |-> now + p.ttl]
           h == IF Household THEN Reserve(c.hist, p.rev, p.step, now, p.len) ELSE c.hist
           e == [c EXCEPT !.arm = a, !.hist = h]
<1>1. enf.arm = None /\ ~enf.cancelling /\ p.src \in enf.armed
  BY DEF MustRearm
<1>2. Good(enf) /\ now \in Nat
  BY DEF Inv
<1>3. /\ Good(c) /\ c.arm = None /\ c.active = None /\ c.cancelling = enf.cancelling
      /\ c.armed = enf.armed
  BY <1>1, <1>2, ClearGood
<1>12. Left(c, enf, now)
  BY <1>2, ClearLeaves
<1>4. /\ p.src \in Source /\ p.rev \in Nat /\ p.step \in StepKey
      /\ p.len \in Nat /\ p.ttl \in Nat
  BY DEF Trajectory
<1>5. Return(Output(e, now, None, TRUE, FALSE))
  BY DEF AdmitTrajectory
<1> HIDE DEF c
<1>13. SameView(c, enf) /\ Owing(c, rest)
  BY <1>12, LeftOwes DEF Left
<1>6. GoodHistory(h)
  BY <1>2, <1>3, <1>4, ReserveGood DEF Good
<1>7. /\ a \in ActiveArm /\ a # None /\ a.src = p.src /\ a.rev = p.rev
      /\ a.step = p.step
  BY <1>2, <1>4, AbsentAssumption DEF ActiveArm
<1> HIDE DEF a, h
<1>8. h \in HistoryState
  BY <1>6 DEF GoodHistory
<1>9. /\ e \in Enforcer /\ e.active = c.active /\ e.hist = h /\ e.arm = a
      /\ e.cancelling = c.cancelling /\ e.cancelPending = c.cancelPending
  BY <1>3, <1>7, <1>8 DEF Good, Enforcer
<1>10. Good(e) /\ e.arm # None
  BY <1>1, <1>3, <1>6, <1>7, <1>9 DEF Good
<1>14. /\ SameView(e, c) /\ e.cancelSince = c.cancelSince /\ e.settle = c.settle
       /\ e.armed = c.armed
  BY <1>3 DEF SameView, Good, Enforcer
<1> HIDE DEF e
<1>15. Owing(e, rest)
  BY <1>9, <1>13, <1>14 DEF Owing, Resting, SameView
<1>16. MonitorArm(e, now)
  <2>1. e.mode = enf.mode /\ e.world = enf.world
    BY <1>13, <1>14 DEF SameView
  <2>2. QED
    BY <1>7, <1>9, <2>1
       DEF MonitorArm, TrajectoryAllowed, CheckTrajectory, CheckProposal, RecheckActive
<1>17. Judged(e, now)
  BY <1>3, <1>9, <1>16 DEF Judged, JudgedBase, JudgedArm
<1>18. Due(e, None, TRUE, FALSE, {}) /\ Slower(e, enf)
  BY <1>1, <1>3, <1>7, <1>9, <1>13, <1>14, <1>15, <1>17 DEF Due, SameView, Slower
<1>19. {} \in SUBSET Source
  OBVIOUS
<1>20. QED
  BY <1>5, <1>10, <1>18, <1>19, ReturnSettles

\* An accepted world: observe, settle, judge again, take stop evidence.
LEMMA WorldHolds ==
  ASSUME Inv, Earned, NEW w \in World, AcceptWorld(w), Watch({})
  PROVE  Settled /\ Slower(enf', enf)
<1> DEFINE h  == IF Household THEN Observe(enf.hist, w) ELSE enf.hist
           e0 == [enf EXCEPT !.world = w, !.hist = h]
           e1 == UpdateArmSettle(e0)
           r  == Rejudge(e1, now)
           g  == ObserveStop(r.enf.hist, w, now, r.enf.cancelling)
           e2 == IF r.enf.arm = None THEN [r.enf EXCEPT !.hist = g] ELSE r.enf
<1>1. Good(enf) /\ ~enf.cancelPending /\ now \in Nat
  BY DEF Inv
<1>2. w.rev \in Nat /\ w.step \in StepKey /\ w.stamp \in Nat
  BY DEF World
<1>3. Return(Output(e2, now, r.forced, FALSE, TRUE))
  BY DEF AcceptWorld
<1>4. GoodHistory(h) /\ h \in HistoryState
  BY <1>1, <1>2, ObserveGood DEF Good, GoodHistory
<1> HIDE DEF h
<1>5. /\ e0 \in Enforcer /\ e0.active = enf.active /\ e0.hist = h /\ e0.arm = enf.arm
      /\ e0.armed = enf.armed /\ e0.cancelling = enf.cancelling /\ e0.world = w
      /\ e0.cancelPending = enf.cancelPending
  BY <1>1, <1>4 DEF Good, Enforcer
<1>6. Good(e0) /\ Live(e0) = Live(enf) /\ ~e0.cancelPending /\ e0.world \in World
  BY <1>1, <1>4, <1>5 DEF Good, Live
<1>13. /\ e0.cancelSince = enf.cancelSince /\ e0.lastSettle = enf.lastSettle
       /\ e0.settle = enf.settle /\ e0.stateOk = enf.stateOk
       /\ e0.recorderOk = enf.recorderOk
  BY <1>1 DEF Good, Enforcer
<1> HIDE DEF e0
<1>7. Good(e1) /\ Live(e1) = Live(enf) /\ e1.world = w
  BY <1>5, <1>6, SettleGood
<1>14. /\ e1.active = enf.active /\ e1.armed = enf.armed /\ ~e1.cancelPending
       /\ e1.stateOk = enf.stateOk /\ e1.recorderOk = enf.recorderOk
  <2>1. /\ e1.active = e0.active /\ e1.armed = e0.armed
        /\ e1.cancelPending = e0.cancelPending
        /\ e1.stateOk = e0.stateOk /\ e1.recorderOk = e0.recorderOk
    BY <1>6 DEF UpdateArmSettle, Good, Enforcer
  <2>2. QED
    BY <1>5, <1>6, <1>13, <2>1
<1> DEFINE q == Sampled(rest, w)
<1>15. Owing(e1, q)
  <2>1. Resting(e0, rest)
    BY <1>5, <1>13 DEF Earned, Resting
  <2>2. e0 \in Enforcer /\ rest \in [still : 0..2, stamp : Nat]
    BY <1>6 DEF Good, Inv
  <2>3. Resting(e1, q)
    BY <1>5, <1>6, <2>1, <2>2, SettleRests
  <2>4. QED
    BY <1>14, <2>3 DEF Owing
<1> HIDE DEF e1, q
<1>8. /\ Good(r.enf) /\ Live(r.enf) = Live(enf) /\ r.enf.world = w
      /\ r.forced \in StopReason \cup {None}
  BY <1>1, <1>7, RejudgeGood
<1>16. /\ Left(r.enf, e1, now) /\ Judged(r.enf, now)
       /\ r.forced # None => Idle(r.enf) /\ r.enf.armed = {}
  BY <1>1, <1>7, RejudgeLeaves
<1> HIDE DEF r
<1>17. Owing(r.enf, q)
  BY <1>15, <1>16, OwingLeft
<1>9. GoodHistory(g) /\ g \in HistoryState
  <2>1. GoodHistory(r.enf.hist) /\ r.enf.cancelling \in BOOLEAN
    BY <1>8 DEF Good, Enforcer
  <2>2. QED
    BY <1>2, <2>1, ObserveStopGood DEF GoodHistory
<1> HIDE DEF g
<1>10. LET e == [r.enf EXCEPT !.hist = g]
       IN  /\ e \in Enforcer /\ e.active = r.enf.active /\ e.hist = g
           /\ e.arm = r.enf.arm /\ e.armed = r.enf.armed /\ e.world = r.enf.world
           /\ e.cancelling = r.enf.cancelling /\ e.cancelPending = r.enf.cancelPending
  BY <1>8, <1>9 DEF Good, Enforcer
<1>11. Good(e2) /\ Live(e2) = Live(enf) /\ e2.world = w
  BY <1>8, <1>9, <1>10 DEF Good, Live
<1>12. /\ SameView(e2, r.enf) /\ e2.active = r.enf.active /\ e2.arm = r.enf.arm
       /\ e2.armed = r.enf.armed /\ e2.cancelling = r.enf.cancelling
       /\ e2.cancelPending = r.enf.cancelPending
       /\ e2.cancelSince = r.enf.cancelSince /\ e2.settle = r.enf.settle
  BY <1>8 DEF SameView, Good, Enforcer
<1> HIDE DEF e2
<1>18. Owing(e2, q)
  BY <1>12, <1>17 DEF Owing, Resting, SameView
<1>19. Slower(e2, r.enf) /\ Unwound(e2, r.enf, now)
  BY <1>8, <1>12, ApprovedType DEF Slower, Unwound
<1>20. Judged(e2, now)
  <2>1. Left(e2, r.enf, now)
    BY <1>12, <1>19 DEF Left
  <2>2. QED
    BY <1>1, <1>8, <1>11, <1>16, <2>1, LeftJudged DEF Judged
<1>21. Slower(e2, enf)
  <2>1. Slower(r.enf, e1)
    BY <1>16 DEF Left
  <2>2. QED
    BY <1>12, <1>14, <2>1 DEF Slower
<1>22. Due(e2, r.forced, FALSE, TRUE, {})
  <2>1. /\ e2.armed \subseteq enf.armed /\ e2.stateOk = enf.stateOk
        /\ e2.recorderOk = enf.recorderOk
    BY <1>12, <1>14, <1>16 DEF Left, SameView
  <2>2. r.forced # None => Idle(e2) /\ e2.armed = {}
    BY <1>12, <1>16 DEF Idle
  <2>3. Owing(e2, Sampled(rest, e2.world))
    BY <1>11, <1>18 DEF q
  <2>4. QED
    BY <1>20, <2>1, <2>2, <2>3 DEF Due
<1>23. {} \in SUBSET Source
  OBVIOUS
<1>24. QED
  BY <1>3, <1>8, <1>11, <1>21, <1>22, <1>23, ReturnSettles

\* A fault raises the mode and drops or judges again what is active.
LEMMA FaultHolds ==
  ASSUME Inv, Earned, NEW m \in Mode, HandleFault(m), Watch({})
  PROVE  Settled /\ Slower(enf', enf)
<1> DEFINE n == Larger(enf.mode, m)
           e == [enf EXCEPT !.mode = n]
           r == Rejudge(e, now)
           d == Drop(e, now)
<1>1. Good(enf) /\ now \in Nat
  BY DEF Inv
<1>2. n \in Mode
  BY <1>1 DEF Larger, Good, Enforcer
<1>3. \/ Return(Output(d, now, None, FALSE, FALSE))
      \/ Return(Output(r.enf, now, r.forced, FALSE, FALSE))
  BY DEF HandleFault
<1> HIDE DEF n
<1>4. /\ e \in Enforcer /\ e.active = enf.active /\ e.hist = enf.hist /\ e.arm = enf.arm
      /\ e.armed = enf.armed /\ e.cancelling = enf.cancelling
      /\ e.cancelPending = enf.cancelPending
  BY <1>1, <1>2 DEF Good, Enforcer
<1>5. Good(e) /\ Live(e) = Live(enf)
  BY <1>1, <1>4 DEF Good, Live
<1>6. /\ e.cancelSince = enf.cancelSince /\ e.lastSettle = enf.lastSettle
      /\ e.settle = enf.settle /\ e.stateOk = enf.stateOk
      /\ e.recorderOk = enf.recorderOk
  BY <1>1 DEF Good, Enforcer
<1> HIDE DEF e
<1>7. /\ Good(r.enf) /\ Live(r.enf) = Live(enf) /\ r.forced \in StopReason \cup {None}
      /\ Good(d) /\ Live(d) = Live(enf)
  BY <1>1, <1>5, RejudgeGood, DropGood
<1>8. /\ Left(r.enf, e, now) /\ Judged(r.enf, now)
      /\ r.forced # None => Idle(r.enf) /\ r.enf.armed = {}
      /\ Left(d, e, now) /\ Idle(d) /\ d.armed = {}
  BY <1>1, <1>5, RejudgeLeaves, DropLeaves
<1> HIDE DEF r, d
<1>9. Owing(e, rest)
  BY <1>4, <1>6 DEF Inv, Earned, Owing, Resting
<1>10. Due(r.enf, r.forced, FALSE, FALSE, {}) /\ Slower(r.enf, enf)
  <2>1. Owing(r.enf, rest)
    BY <1>8, <1>9, OwingLeft
  <2>2. Slower(r.enf, enf)
    BY <1>4, <1>8 DEF Left, Slower
  <2>3. QED
    BY <1>4, <1>6, <1>8, <2>1, <2>2 DEF Due, Left, SameView
<1>11. Due(d, None, FALSE, FALSE, {}) /\ Slower(d, enf)
  <2>1. Owing(d, rest)
    BY <1>8, <1>9, OwingLeft
  <2>2. Slower(d, enf) /\ Judged(d, now)
    BY <1>8, IdleJudged DEF Slower, Idle
  <2>3. QED
    BY <1>4, <1>6, <1>8, <2>1, <2>2 DEF Due, Left, SameView
<1>12. {} \in SUBSET Source
  OBVIOUS
<1>13. CASE Return(Output(d, now, None, FALSE, FALSE))
  BY <1>7, <1>11, <1>12, <1>13, ReturnSettles
<1>14. CASE Return(Output(r.enf, now, r.forced, FALSE, FALSE))
  BY <1>7, <1>10, <1>12, <1>14, ReturnSettles
<1>15. QED
  BY <1>3, <1>13, <1>14

\* A tick judges again what is active.
LEMMA TickHolds == ASSUME Inv, Earned, Tick, Watch({}) PROVE Settled /\ Slower(enf', enf)
<1> DEFINE r == Rejudge(enf, now)
<1>1. /\ Good(r.enf) /\ Live(r.enf) = Live(enf) /\ r.forced \in StopReason \cup {None}
  BY RejudgeGood DEF Inv
<1>2. Return(Output(r.enf, now, r.forced, FALSE, FALSE))
  BY DEF Tick
<1>3. /\ Left(r.enf, enf, now) /\ Judged(r.enf, now)
      /\ r.forced # None => Idle(r.enf) /\ r.enf.armed = {}
  BY RejudgeLeaves DEF Inv
<1> HIDE DEF r
<1>4. Due(r.enf, r.forced, FALSE, FALSE, {}) /\ Slower(r.enf, enf)
  BY <1>3, LeftOwes DEF Due
<1>5. {} \in SUBSET Source
  OBVIOUS
<1>6. QED
  BY <1>1, <1>2, <1>4, <1>5, ReturnSettles

\* A failed commit latches a flag and touches no authority.
LEMMA FailureHolds ==
  ASSUME Inv, Earned, RecorderFails \/ PersistFails
  PROVE  /\ Inv' /\ Earned' /\ step' = step /\ enf'.active = enf.active
         /\ ~(enf'.recorderOk /\ enf'.stateOk)
<1>1. /\ enf' \in Enforcer /\ enf'.active = enf.active /\ enf'.hist = enf.hist
      /\ enf'.arm = enf.arm /\ enf'.armed = enf.armed
      /\ enf'.cancelling = enf.cancelling /\ enf'.cancelPending = enf.cancelPending
  BY DEF RecorderFails, PersistFails, Inv, Good, Enforcer
<1>2. UNCHANGED <<now, step, wire, rest, zeroed>>
  BY DEF RecorderFails, PersistFails
<1>3. Inv'
  BY <1>1, <1>2 DEF Inv, Good, CancelReachesWire
<1>4. /\ enf'.world = enf.world /\ enf'.mode = enf.mode
      /\ enf'.cancelSince = enf.cancelSince /\ enf'.settle = enf.settle
      /\ enf'.lastSettle = enf.lastSettle
  BY DEF RecorderFails, PersistFails, Inv, Good, Enforcer
<1>5. ~(enf'.recorderOk /\ enf'.stateOk)
  BY DEF RecorderFails, PersistFails, Inv, Good, Enforcer
<1>6. MotionWithinGate'
  BY <1>1, <1>2, <1>4
     DEF Earned, MotionWithinGate, CommandWithinGate, TrajectoryMonitored, JudgeVelocity,
         Fresh, MonitorArm
<1>7. Resting(enf, rest)'
  BY <1>1, <1>2, <1>4 DEF Earned, Resting
<1>8. Earned'
  BY <1>1, <1>2, <1>6, <1>7 DEF Earned
<1>9. QED
  BY <1>1, <1>2, <1>3, <1>5, <1>8

-----------------------------------------------------------------------------
(* The specification.                                                      *)

\* What an enforcer opened on a history without an unresolved motion is.
LEMMA OpenedIdle ==
  ASSUME NEW h \in HistoryState, h.pending = None
  PROVE  LET e == Opened(Normal, h, 0)
         IN  /\ e \in Enforcer /\ e.hist = h /\ e.active = None /\ e.arm = None
             /\ e.cancelling = FALSE /\ e.cancelPending = FALSE
<1> DEFINE e == Opened(Normal, h, 0)
<1>1. e = [mode |-> 0, world |-> None, active |-> None, arm |-> None,
           cancelPending |-> FALSE, cancelling |-> FALSE, cancelSince |-> 0,
           lastSettle |-> 0, settle |-> 0, armed |-> {}, everArmed |-> FALSE,
           lastStop |-> "Startup", stateOk |-> TRUE, recorderOk |-> TRUE, hist |-> h]
  BY DEF Opened, Normal
<1>2. 0 \in Mode /\ "Startup" \in StopReason
  BY DEF Mode, Normal, EStop, StopReason
<1>3. ASSUME NEW m \in Mode, NEW b \in BOOLEAN, NEW c \in BOOLEAN, NEW n \in Nat,
             NEW s \in StopReason, NEW a \in SUBSET Source
      PROVE  [mode |-> m, world |-> None, active |-> None, arm |-> None,
              cancelPending |-> b, cancelling |-> b, cancelSince |-> n,
              lastSettle |-> n, settle |-> n, armed |-> a, everArmed |-> b,
              lastStop |-> s, stateOk |-> c, recorderOk |-> c, hist |-> h] \in Enforcer
  BY DEF Enforcer
<1>4. e \in Enforcer
  BY <1>1, <1>2, <1>3
<1>5. QED
  BY <1>1, <1>4

\* An enforcer that has just opened authorises nothing.
LEMMA InitHolds == Init => Inv /\ Earned
<1> SUFFICES ASSUME Init PROVE Inv /\ Earned
  OBVIOUS
<1>1. GoodHistory(NewHistory) /\ NewHistory \in HistoryState /\ NewHistory.pending = None
  BY NewGood DEF GoodHistory, NewHistory
<1>2. enf = Opened(Normal, NewHistory, 0)
  BY DEF Init
<1>3. /\ enf \in Enforcer /\ enf.hist = NewHistory /\ enf.active = None /\ enf.arm = None
      /\ enf.cancelling = FALSE /\ enf.cancelPending = FALSE
  BY <1>1, <1>2, OpenedIdle
<1>4. step \in Step
  BY EnforcerAssumption DEF Init, NoStep, Step, StopReason
<1>5. Inv
  BY <1>1, <1>3, <1>4 DEF Init, Inv, Good, CancelReachesWire
<1>6. step.cmd = 0 /\ step.arm = "none" /\ rest.still = 2
  BY DEF Init, NoStep
<1>7. enf.armed = {}
  BY <1>2 DEF Opened
<1>8. Earned
  BY <1>3, <1>6, <1>7
     DEF Earned, MotionWithinGate, CommandWithinGate, TrajectoryMonitored, Resting
<1>9. QED
  BY <1>5, <1>8

\* A world built from the contents of an input is a world.
LEMMA StampedType ==
  ASSUME NEW f \in FactInput, NEW t \in Nat PROVE Stamped(f, t) \in World
  BY InputAssumption DEF Stamped, World

\* What any step does: the invariant holds after it, a fault stays, and an active
\* command is not sped up unless the step admitted one.
Done ==
  /\ Inv' /\ Earned'
  /\ ~(enf.recorderOk /\ enf.stateOk)
       => /\ ~(enf'.recorderOk /\ enf'.stateOk)
          /\ step' # step => ~Actuates(step')
  /\ (\E p \in VelocityInput : AdmitVelocity(p)) \/ Slower(enf', enf)

LEMMA SettledDone == Settled /\ Slower(enf', enf) => Done
  BY DEF Settled, FaultStays, Done

\* Every step is one of them.
LEMMA StepHolds == Inv /\ Earned /\ [Next]_vars => Done
<1> SUFFICES ASSUME Inv, Earned, [Next]_vars PROVE Done
  OBVIOUS
<1>1. ASSUME NEW s \in Source, HandleStop(s), Watch({s}) PROVE Done
  BY <1>1, StopHolds, SettledDone
<1>2. ASSUME NEW s \in Source, HandleUnarmed(s), Watch({}) PROVE Done
  BY <1>2, UnarmedHolds, SettledDone
<1>3. ASSUME NEW s \in Source, HandleUnsupported(s), Watch({}) PROVE Done
  BY <1>3, DenyHolds, SettledDone DEF HandleUnsupported
<1>4. ASSUME NEW p \in VelocityInput, HandleVelocity(p), Watch({}) PROVE Done
  <2>1. p \in Velocity
    BY InputAssumption
  <2>2. CASE VelocityAllowed(enf, p, now)
    <3>1. AdmitVelocity(p) /\ ~MustRearm(p.src)
      BY <1>4, <2>2 DEF HandleVelocity
    <3>2. Settled
      BY <1>4, <2>1, <2>2, <3>1, VelocityHolds
    <3>3. QED
      BY <3>1, <3>2 DEF Settled, FaultStays, Done
  <2>3. CASE ~VelocityAllowed(enf, p, now)
    BY <1>4, <2>3, DenyHolds, SettledDone DEF HandleVelocity
  <2>4. QED
    BY <2>2, <2>3
<1>5. ASSUME NEW p \in TrajectoryInput, HandleTrajectory(p), Watch({}) PROVE Done
  <2>1. p \in Trajectory
    BY InputAssumption
  <2>2. QED
    BY <1>5, <2>1, TrajectoryHolds, DenyHolds, SettledDone DEF HandleTrajectory
<1>6. ASSUME NEW f \in FactInput, NEW t \in 0..(now + FutureTolerance + 1),
             HandleWorld(Stamped(f, t)), Watch({})
      PROVE  Done
  <2>1. t \in Nat
    BY EnforcerAssumption DEF Inv
  <2>2. Stamped(f, t) \in World
    BY <2>1, StampedType
  <2>3. QED
    BY <1>6, <2>2, WorldHolds, DenyHolds, SettledDone DEF HandleWorld
<1>7. ASSUME NEW m \in FaultInput, HandleFault(m), Watch({}) PROVE Done
  <2>1. m \in Mode
    BY InputAssumption
  <2>2. QED
    BY <1>7, <2>1, FaultHolds, SettledDone
<1>8. CASE Reject /\ Watch({})
  BY <1>8, DenyHolds, SettledDone DEF Reject
<1>9. CASE TimerTick
  BY <1>9, TickHolds, SettledDone DEF TimerTick
<1>10. Slower(enf, enf)
  BY ApprovedType DEF Slower, Inv
<1>11. CASE RecorderFails \/ PersistFails
  <2>1. /\ Inv' /\ Earned' /\ step' = step /\ enf'.active = enf.active
        /\ ~(enf'.recorderOk /\ enf'.stateOk)
    BY <1>11, FailureHolds
  <2>2. Slower(enf', enf)
    BY <1>10, <2>1 DEF Slower
  <2>3. QED
    BY <2>1, <2>2 DEF Done
<1>12. ASSUME UNCHANGED <<enf, step, wire, rest, zeroed>>, now' \in Nat PROVE Done
  <2>1. Inv'
    BY <1>12 DEF Inv, Good, CancelReachesWire
  <2>2. MotionWithinGate'
    BY <1>12 DEF Earned, MotionWithinGate, CommandWithinGate, TrajectoryMonitored
  <2>3. Earned'
    BY <1>12, <2>2 DEF Earned, Resting
  <2>4. QED
    BY <1>10, <1>12, <2>1, <2>3 DEF Done
<1>13. CASE TimePasses
  BY <1>12, <1>13 DEF TimePasses, Inv
<1>14. CASE UNCHANGED vars
  BY <1>12, <1>14 DEF vars, Inv
<1>15. QED
  BY <1>1, <1>2, <1>3, <1>4, <1>5, <1>6, <1>7, <1>8, <1>9, <1>11, <1>13, <1>14 DEF Next

\* The inductive invariant of the enforcer.
THEOREM Invariance == Spec => [](Inv /\ Earned)
<1>1. Inv /\ Earned /\ [Next]_vars => (Inv /\ Earned)'
  BY StepHolds DEF Done
<1>2. QED
  BY <1>1, InitHolds, PTL DEF Spec

\* The enforcer's variables always have their types.
THEOREM TypeCorrect == Spec => []TypeOK
<1>1. Inv => TypeOK
  BY DEF Inv, Good, TypeOK
<1>2. QED
  BY <1>1, Invariance, PTL

\* At most one motion is authorised, and none while a cancellation settles,
\* for every policy, source, input and timing (lib.rs handle, clear_active).
THEOREM AlwaysOneAuthority == Spec => []OneAuthority
<1>1. Inv => OneAuthority
  BY DEF Inv, Good, OneAuthority
<1>2. QED
  BY <1>1, Invariance, PTL

\* The trajectory on the wire is the authorised one: whatever takes the
\* authority away sends the cancel in the same step (lib.rs output).
THEOREM AlwaysCancelled == Spec => []CancelReachesWire
<1>1. Inv => CancelReachesWire
  BY DEF Inv
<1>2. QED
  BY <1>1, Invariance, PTL

\* Whatever moves is within what the gate would allow of it now, for every
\* world, mode and order of inputs (lib.rs rejudge, monitor_arm, output).
THEOREM AlwaysWithinGate == Spec => []MotionWithinGate
<1>1. Earned => MotionWithinGate
  BY DEF Earned
<1>2. QED
  BY <1>1, Invariance, PTL

\* After a cancel nothing moves before two newer still samples were accepted, and
\* after a refusal nothing moves before its source sent a zero
\* (lib.rs update_arm_settle, handle).
THEOREM RestAlwaysFirst == Spec => []RestBeforeMotion
<1>1. ASSUME Inv, Earned PROVE RestBeforeMotion
  <2>1. step.cmd > 0 => enf.active # None
    BY <1>1 DEF Earned, MotionWithinGate, CommandWithinGate
  <2>2. step.cmd > 0 => enf.active.src \in zeroed
    BY <1>1, <2>1 DEF Inv, Good, Earned
  <2>3. step.arm = "execute" => enf.arm.src \in zeroed
    BY <1>1 DEF Earned
  <2>4. StillBeforeMotion
    BY <1>1, <2>1 DEF StillBeforeMotion, Actuates, Inv, Good, Earned, Resting
  <2>5. QED
    BY <2>2, <2>3, <2>4 DEF RestBeforeMotion, ZeroBeforeMotion
<1>2. QED
  BY <1>1, Invariance, PTL

\* An admitted command never speeds up nor lives longer, whatever the world does
\* (lib.rs rejudge).
THEOREM AlwaysSlower == Spec => NeverFaster
<1> DEFINE A == \/ \E p \in VelocityInput : AdmitVelocity(p)
                \/ enf.active # None /\ enf'.active # None
                     => /\ enf'.active.approved <= enf.active.approved
                        /\ enf'.active.expires = enf.active.expires
<1>1. Inv /\ Earned /\ [Next]_vars => A
  BY StepHolds DEF Done, Slower
<1>2. QED
  BY <1>1, Invariance, PTL DEF Spec, NeverFaster

\* Once the recorder or the state store has failed, no later call returns a motion
\* (lib.rs output; runtime.rs recorder_failed).
THEOREM FaultAlwaysFinal == Spec => FaultIsFinal
<1> DEFINE A == ~(enf.recorderOk /\ enf.stateOk)
                  => /\ ~(enf'.recorderOk /\ enf'.stateOk)
                     /\ step' # step => ~Actuates(step')
<1>1. Inv /\ Earned /\ [Next]_vars => A
  BY StepHolds DEF Done
<1>2. QED
  BY <1>1, Invariance, PTL DEF Spec, FaultIsFinal
=============================================================================
