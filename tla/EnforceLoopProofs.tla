------------------------- MODULE EnforceLoopProofs --------------------------
(***************************************************************************)
(* The enforcement process with its state file, for every policy, input and *)
(* number of crashes: the file can always be opened again, a task revision  *)
(* is executed at most once, what the outside was told is on disk, nothing  *)
(* moves after an unclean end or a stop-only mode without the operator, and *)
(* what is consumed or blocked on disk stays so.                            *)
(*                                                                         *)
(* The inductive invariant has four parts.  Whole is about the record in    *)
(* memory: its history is sound, the floor is what the newest world named,  *)
(* and an authorised motion is pending.  Written relates the file to it:    *)
(* the file is never ahead, and equal once a reply waits.  Staged is what   *)
(* the stages between handler and reply may assume of the step.  Told is    *)
(* what the outside knows.                                                 *)
(***************************************************************************)
EXTENDS EnforceLoop, EnforcerCoreProofs

\* The floor is where the newest world put it.
WorldIsFloor(e) ==
  e.world # None /\ e.world.rev # 0 =>
    e.hist.floor = e.world.rev /\ e.hist.floorStep = e.world.step

\* A motion that is authorised, or whose cancel is owed, is pending.
Tied(e) == Live(e) => e.hist.pending # None

Whole(e) ==
  /\ Good(e) /\ Sound(e.hist)
  /\ Household => WorldIsFloor(e) /\ Tied(e)

Written ==
  /\ disk # None => Sound(disk.hist)
  /\ proc # "down" => disk # None /\ disk.running /\ Above(enf.hist, disk.hist)
  /\ proc = "reply" => disk.hist = Serialised(enf.hist)
  /\ ~cleared => /\ disk # None => disk.running \/ StopOnly(disk.mode)
                 /\ proc # "down" => StopOnly(enf.mode)

\* The step waits for the disk, or for the controller.
Waits == {"checkpoint", "reply"}

Staged ==
  /\ proc \in Waits => CheckpointFirst(step)
  /\ proc = "emit" => ~CheckpointFirst(step)
  /\ proc \notin {"down", "ready"} =>
       /\ ~enf.cancelPending
       /\ step.arm = "cancel" => step.cmd = 0
       /\ step.arm = "execute" => ~StopOnly(enf.mode) /\ enf.arm # None
       /\ step.ack => enf.world # None
  /\ enf.cancelPending => enf.settle = 0

\* What the controller may be executing: authorised, or its cancel is going out.
Followed == wire # None /\ proc # "down" =>
              Live(enf) \/ (proc = "emit" /\ step.arm = "cancel")

\* A trajectory that waits for the disk is newer than all that went before.
Newer == proc \in Waits /\ step.arm = "execute" =>
           /\ enf.arm.rev = enf.hist.epoch
           /\ \A i \in DOMAIN executed : executed[i].rev < enf.arm.rev

Consumes == \A i \in DOMAIN executed : disk # None /\ executed[i].rev <= disk.hist.epoch

Told == Newer /\ Consumes /\ OncePerRevision /\ Followed /\ DurableFirst

IInv == TypeOK /\ Whole(enf) /\ Written /\ Staged /\ (Household => Told)

-----------------------------------------------------------------------------
(* The handlers.                                                           *)

\* What a handler has done when it returns.
Served ==
  /\ Whole(enf') /\ step' \in Step /\ now' = now
  /\ ~enf'.cancelPending
  /\ Above(enf'.hist, enf.hist)
  /\ StopOnly(enf.mode) => StopOnly(enf'.mode)
  /\ step'.arm = "cancel" => step'.cmd = 0
  /\ step'.arm = "execute" =>
       /\ ~StopOnly(enf'.mode) /\ enf'.arm # None
       /\ Household => enf'.arm.rev = enf'.hist.epoch /\ enf'.arm.rev > enf.hist.epoch
  /\ step'.arm = "none" => (Live(enf) => enf'.arm # None)
  /\ step'.ack => enf'.world # None

\* What a handler has prepared when it asks for the output of e: x says that a
\* trajectory is to be executed, k that a world is acknowledged.
Prepared(e, f, x, k) ==
  /\ Whole(e)
  /\ Above(e.hist, enf.hist)
  /\ StopOnly(enf.mode) => StopOnly(e.mode)
  /\ x => /\ f = None /\ e.arm # None
          /\ Household => e.arm.rev = e.hist.epoch /\ e.arm.rev > enf.hist.epoch
  /\ ~x => Live(e) = Live(enf)
  /\ k => e.world # None

\* Returning the output of a record that was prepared.
LEMMA ReturnServes ==
  ASSUME Whole(enf), now \in Nat, NEW e, NEW f \in StopReason \cup {None},
         NEW x \in BOOLEAN, NEW k \in BOOLEAN, Prepared(e, f, x, k),
         Return(Output(e, now, f, x, k))
  PROVE  Served
<1> DEFINE o == Output(e, now, f, x, k)
<1>1. Good(e) /\ Sound(e.hist) /\ now \in Nat
  BY DEF Whole, Prepared
<1>2. /\ Good(o.enf) /\ ~o.enf.cancelPending /\ o.enf.world = e.world
      /\ o.step \in Step /\ o.step.ack = k
      /\ o.step.arm = "cancel" => o.enf.arm = None
      /\ o.step.arm = "none" => (Live(e) <=> o.enf.arm # None)
      /\ o.step.arm = "execute" => x /\ o.enf.arm = e.arm
      /\ f = None /\ e.arm # None /\ x => o.step.arm # "none"
  BY <1>1, OutputGood
<1>3. /\ Kept(e, o.enf)
      /\ o.step.arm = "execute" => ~StopOnly(e.mode)
      /\ o.step.arm = "cancel" => o.step.cmd = 0
  BY <1>1, OutputKeeps
<1>4. enf' = o.enf /\ step' = o.step /\ now' = now
  BY DEF Return
<1> HIDE DEF o
<1>5. /\ o.enf.mode = e.mode /\ Sound(o.enf.hist) /\ Above(o.enf.hist, e.hist)
      /\ o.enf.hist.pending = e.hist.pending /\ o.enf.hist.floor = e.hist.floor
      /\ o.enf.hist.floorStep = e.hist.floorStep /\ o.enf.hist.epoch = e.hist.epoch
  BY <1>3 DEF Kept, Follows
<1>6. o.step.arm \in {"none", "execute", "cancel"}
  BY <1>2 DEF Step
<1>7. Live(o.enf) => Live(e)
  BY <1>2, <1>6 DEF Live
<1>8. Whole(o.enf)
  BY <1>2, <1>5, <1>7 DEF Prepared, Whole, WorldIsFloor, Tied
<1>9. Above(o.enf.hist, enf.hist)
  BY <1>1, <1>5, AboveTransitive DEF Prepared, Whole
<1>10. o.step.arm = "none" => (Live(enf) => o.enf.arm # None)
  BY <1>2 DEF Prepared
<1>11. o.step.arm = "execute" =>
         /\ ~StopOnly(o.enf.mode) /\ o.enf.arm # None
         /\ Household => o.enf.arm.rev = o.enf.hist.epoch /\ o.enf.arm.rev > enf.hist.epoch
  BY <1>2, <1>3, <1>5 DEF Prepared
<1>12. o.step.ack => o.enf.world # None
  BY <1>2 DEF Prepared
<1>13. StopOnly(enf.mode) => StopOnly(o.enf.mode)
  BY <1>5 DEF Prepared
<1>14. QED
  BY <1>2, <1>3, <1>4, <1>8, <1>9, <1>10, <1>11, <1>12, <1>13 DEF Served

\* Dropping and clearing keep the record whole.
LEMMA KeepsWhole ==
  ASSUME NEW e, Whole(e), NEW c, Good(c), Kept(e, c), c.world = e.world, Live(c) = Live(e)
  PROVE  Whole(c) /\ Above(c.hist, e.hist) /\ c.mode = e.mode
BY DEF Whole, WorldIsFloor, Tied, Kept, Follows

LEMMA DropWhole ==
  ASSUME NEW e, Whole(e), NEW t \in Nat
  PROVE  LET c == Drop(e, t)
         IN  Whole(c) /\ Above(c.hist, e.hist) /\ c.mode = e.mode /\ Live(c) = Live(e)
<1>1. Good(e) /\ Sound(e.hist)
  BY DEF Whole
<1>2. Kept(e, Drop(e, t))
  BY <1>1, DropKeeps
<1>3. Good(Drop(e, t)) /\ Drop(e, t).world = e.world /\ Live(Drop(e, t)) = Live(e)
  BY <1>1, DropGood
<1>4. QED
  BY <1>2, <1>3, KeepsWhole

LEMMA ClearWhole ==
  ASSUME NEW e, Whole(e), NEW x \in BOOLEAN, NEW t \in Nat
  PROVE  LET c == ClearActive(e, x, t)
         IN  /\ Whole(c) /\ Above(c.hist, e.hist) /\ c.mode = e.mode /\ Live(c) = Live(e)
             /\ c.active = None /\ c.arm = None /\ c.world = e.world
             /\ e.arm = None => c.cancelling = e.cancelling
<1>1. Good(e) /\ Sound(e.hist)
  BY DEF Whole
<1>2. Kept(e, ClearActive(e, x, t))
  BY <1>1, ClearKeeps
<1>3. LET c == ClearActive(e, x, t)
      IN  /\ Good(c) /\ c.world = e.world /\ Live(c) = Live(e)
          /\ c.active = None /\ c.arm = None
          /\ e.arm = None => c.cancelling = e.cancelling
  BY <1>1, ClearGood
<1>4. QED
  BY <1>2, <1>3, KeepsWhole

LEMMA RejudgeWhole ==
  ASSUME NEW e, Whole(e), NEW t \in Nat
  PROVE  LET r == Rejudge(e, t)
         IN  /\ Whole(r.enf) /\ Above(r.enf.hist, e.hist) /\ r.enf.mode = e.mode
             /\ Live(r.enf) = Live(e) /\ r.enf.world = e.world
             /\ r.forced \in StopReason \cup {None}
<1>1. Good(e) /\ Sound(e.hist)
  BY DEF Whole
<1>2. Kept(e, Rejudge(e, t).enf)
  BY <1>1, RejudgeKeeps
<1>3. LET r == Rejudge(e, t)
      IN  /\ Good(r.enf) /\ Live(r.enf) = Live(e) /\ r.enf.world = e.world
          /\ r.forced \in StopReason \cup {None}
  BY <1>1, RejudgeGood
<1>4. QED
  BY <1>2, <1>3, KeepsWhole

\* Every refusal (lib.rs handle and reject).
LEMMA RefuseServes ==
  ASSUME Whole(enf), now \in Nat, NEW f \in StopReason \cup {None},
         Return(Output(Drop(enf, now), now, f, FALSE, FALSE))
  PROVE  Served
<1>1. LET c == Drop(enf, now)
      IN  Whole(c) /\ Above(c.hist, enf.hist) /\ c.mode = enf.mode /\ Live(c) = Live(enf)
  BY DropWhole
<1> DEFINE e == Drop(enf, now)
<1>2. Return(Output(e, now, f, FALSE, FALSE))
  OBVIOUS
<1>3. Whole(e) /\ Above(e.hist, enf.hist) /\ e.mode = enf.mode /\ Live(e) = Live(enf)
  BY <1>1
<1> HIDE DEF e
<1>4. QED
  BY <1>2, <1>3, ReturnServes DEF Prepared

LEMMA DenyServes == ASSUME Whole(enf), now \in Nat, Deny PROVE Served
<1>1. "Denied" \in StopReason \cup {None}
  BY DEF StopReason
<1>2. QED
  BY <1>1, RefuseServes DEF Deny, Rejected

LEMMA UnarmedServes == ASSUME Whole(enf), now \in Nat, NEW s, HandleUnarmed(s) PROVE Served
<1>1. "Unarmed" \in StopReason \cup {None}
  BY DEF StopReason
<1>2. QED
  BY <1>1, RefuseServes DEF HandleUnarmed

LEMMA TickServes == ASSUME Whole(enf), now \in Nat, Tick PROVE Served
<1> DEFINE r == Rejudge(enf, now)
<1>1. /\ Whole(r.enf) /\ Above(r.enf.hist, enf.hist) /\ r.enf.mode = enf.mode
      /\ Live(r.enf) = Live(enf) /\ r.forced \in StopReason \cup {None}
  BY RejudgeWhole
<1>2. Return(Output(r.enf, now, r.forced, FALSE, FALSE))
  BY DEF Tick
<1> HIDE DEF r
<1>3. QED
  BY <1>1, <1>2, ReturnServes DEF Prepared

\* A stop clears, and arms its source unless a cancellation is settling.
LEMMA StopServes == ASSUME Whole(enf), now \in Nat, NEW s \in Source, HandleStop(s) PROVE Served
<1> DEFINE c == ClearActive(enf, FALSE, now)
           a == [c EXCEPT !.armed = c.armed \cup {s}, !.everArmed = TRUE]
           e == IF c.cancelling THEN c ELSE a
<1>1. Whole(c) /\ Above(c.hist, enf.hist) /\ c.mode = enf.mode /\ Live(c) = Live(enf)
      /\ c.active = None
  BY ClearWhole
<1>2. Return(Output(e, now, None, FALSE, FALSE))
  BY DEF HandleStop
<1> HIDE DEF c
<1>3. ASSUME ~c.cancelling
      PROVE  Whole(a) /\ a.hist = c.hist /\ a.mode = c.mode /\ Live(a) = Live(c)
  <2>1. /\ a \in Enforcer /\ a.active = c.active /\ a.hist = c.hist /\ a.arm = c.arm
        /\ a.cancelling = c.cancelling /\ a.cancelPending = c.cancelPending
        /\ a.world = c.world /\ a.mode = c.mode
    BY <1>1 DEF Whole, Good, Enforcer
  <2>2. Good(a) /\ Live(a) = Live(c)
    BY <1>1, <1>3, <2>1 DEF Whole, Good, Live
  <2>3. QED
    BY <1>1, <2>1, <2>2 DEF Whole, WorldIsFloor, Tied
<1>4. Prepared(e, None, FALSE, FALSE)
  BY <1>1, <1>3 DEF Prepared
<1> HIDE DEF e
<1>5. QED
  BY <1>2, <1>4, ReturnServes

\* In a household the admitted step is the newest the floor names, and newer
\* than everything consumed before: it is reserved as the only step of its epoch.
LEMMA TrajectoryServes ==
  ASSUME Whole(enf), now \in Nat, NEW p \in Trajectory, ~MustRearm(p.src),
         TrajectoryAllowed(enf, p, now), AdmitTrajectory(p)
  PROVE  Served
<1> DEFINE c == ClearActive(enf, FALSE, now)
           a == [src |-> p.src, rev |-> p.rev, step |-> p.step, started |-> now,
                 end |-> now + p.len, expires |-> now + p.ttl]
           h == IF Household THEN Reserve(c.hist, p.rev, p.step, now, p.len) ELSE c.hist
           e == [c EXCEPT !.arm = a, !.hist = h]
<1>1. enf.arm = None /\ ~enf.cancelling
  BY DEF MustRearm
<1>2. /\ Whole(c) /\ Above(c.hist, enf.hist) /\ c.mode = enf.mode /\ c.world = enf.world
      /\ c.arm = None /\ c.active = None /\ c.cancelling = enf.cancelling
  BY <1>1, ClearWhole
<1>3. enf.hist.pending = None => c.hist = enf.hist
  <2>1. enf \in Enforcer /\ Sound(enf.hist)
    BY DEF Whole, Good
  <2> DEFINE r == Retire(enf.hist, FALSE)
  <2>2. enf.hist.pending = None => r = enf.hist
    BY DEF Retire, Interrupt
  <2> HIDE DEF r
  <2>3. Retire(enf.hist, FALSE) = r
    BY DEF r
  <2>4. c.hist = r
    BY <1>1, <2>1, <2>3 DEF ClearActive, Enforcer
  <2>5. QED
    BY <2>2, <2>4
<1>4. /\ p.src \in Source /\ p.rev \in Nat /\ p.step \in StepKey
      /\ p.len \in Nat /\ p.ttl \in Nat
  BY DEF Trajectory
<1>5. Return(Output(e, now, None, TRUE, FALSE))
  BY DEF AdmitTrajectory
<1>6. ASSUME Household
      PROVE  /\ AdmissionAllowed(enf.hist, p.rev, p.step) /\ p.rev # 0
             /\ p.len \in 0..MaxDuration
             /\ p.rev = enf.hist.floor /\ p.step = enf.hist.floorStep
             /\ c.hist = enf.hist
  <2>1. /\ enf.world # None /\ CheckTrajectory(enf.world, p)
        /\ CheckProposal(enf.world, p, now) /\ AdmissionAllowed(enf.hist, p.rev, p.step)
    BY <1>6 DEF TrajectoryAllowed, Fresh
  <2>2. p.rev # 0 /\ p.rev = enf.world.rev /\ p.step = enf.world.step
    BY <2>1 DEF CheckProposal
  <2>3. p.len \in 0..MaxDuration
    BY <1>4, <1>6, <2>1, EnforcerAssumption, HistoryAssumption DEF CheckTrajectory
  <2>4. p.rev = enf.hist.floor /\ p.step = enf.hist.floorStep
    BY <1>6, <2>1, <2>2 DEF Whole, WorldIsFloor
  <2>5. QED
    BY <1>3, <2>1, <2>2, <2>3, <2>4 DEF AdmissionAllowed
<1> HIDE DEF c
<1>7. /\ Sound(h) /\ Above(h, enf.hist)
      /\ Household => /\ p.rev > enf.hist.epoch /\ h.pending = p.step /\ h.epoch = p.rev
                      /\ h.floor = enf.hist.floor /\ h.floorStep = enf.hist.floorStep
  <2>1. CASE Household
    <3> DEFINE g == Reserve(enf.hist, p.rev, p.step, now, p.len)
    <3>1. Sound(enf.hist) /\ p.rev \in Nat \ {0}
      BY <1>4, <1>6, <2>1 DEF Whole
    <3>2. /\ Sound(g) /\ Above(g, enf.hist) /\ p.rev > enf.hist.epoch /\ g.pending = p.step
          /\ g.epoch = p.rev /\ g.floor = enf.hist.floor /\ g.floorStep = enf.hist.floorStep
      BY <1>4, <1>6, <2>1, <3>1, ReserveSound
    <3>3. h = g
      BY <1>6, <2>1
    <3> HIDE DEF g, h
    <3>4. QED
      BY <3>2, <3>3
  <2>2. CASE ~Household
    BY <1>2, <2>2 DEF Whole
  <2>3. QED
    BY <2>1, <2>2
<1>8. a \in ActiveArm /\ a # None /\ a.rev = p.rev
  BY <1>4, AbsentAssumption DEF ActiveArm
<1> HIDE DEF a, h
<1>9. /\ e \in Enforcer /\ e.active = c.active /\ e.hist = h /\ e.arm = a
      /\ e.cancelling = c.cancelling /\ e.cancelPending = c.cancelPending
      /\ e.world = c.world /\ e.mode = c.mode
  BY <1>2, <1>7, <1>8 DEF Whole, Good, Enforcer, Sound, GoodHistory
<1> HIDE DEF e
<1>10. Good(e)
  BY <1>1, <1>2, <1>7, <1>8, <1>9 DEF Whole, Good, Sound
<1>11. Whole(e)
  BY <1>2, <1>4, <1>7, <1>9, <1>10, HistoryAssumption DEF Whole, WorldIsFloor, Tied
<1>12. Prepared(e, None, TRUE, FALSE)
  BY <1>2, <1>7, <1>8, <1>9, <1>11 DEF Prepared
<1>13. QED
  BY <1>5, <1>12, ReturnServes

\* An accepted world is the new floor; its stop evidence resolves a motion only
\* when no cancel is owed, so what is still owed stays pending.
LEMMA WorldServes ==
  ASSUME Whole(enf), now \in Nat, enf.cancelPending => enf.settle = 0,
         NEW w \in World, WorldAccepted(enf, w, now), AcceptWorld(w)
  PROVE  Served
<1> DEFINE h  == IF Household THEN Observe(enf.hist, w) ELSE enf.hist
           e0 == [enf EXCEPT !.world = w, !.hist = h]
           e1 == UpdateArmSettle(e0)
           r  == Rejudge(e1, now)
           d  == r.enf
           g  == ObserveStop(d.hist, w, now, d.cancelling)
           e3 == [d EXCEPT !.hist = g]
           e2 == IF d.arm = None THEN e3 ELSE d
<1>1. w.rev \in Nat /\ w.step \in StepKey /\ w.stamp \in Nat /\ w # None
  BY AbsentAssumption DEF World
<1>2. Return(Output(e2, now, r.forced, FALSE, TRUE))
  BY DEF AcceptWorld
<1>3. /\ Sound(h) /\ Above(h, enf.hist) /\ h.pending = enf.hist.pending
      /\ Household /\ w.rev # 0 => h.floor = w.rev /\ h.floorStep = w.step
  <2>1. Sound(enf.hist)
    BY DEF Whole
  <2>2. CASE Household
    <3> DEFINE o == Observe(enf.hist, w)
    <3>1. WorldAllowed(enf.hist, w)
      BY <2>2 DEF WorldAccepted
    <3>2. /\ Sound(o) /\ Above(o, enf.hist) /\ o.pending = enf.hist.pending
          /\ w.rev # 0 => o.floor = w.rev /\ o.floorStep = w.step
      BY <1>1, <2>1, <3>1, ObserveSound
    <3>3. h = o
      BY <2>2
    <3> HIDE DEF o, h
    <3>4. QED
      BY <3>2, <3>3
  <2>3. CASE ~Household
    BY <2>1, <2>3, FollowsItself
  <2>4. QED
    BY <2>2, <2>3
<1> HIDE DEF h
<1>4. /\ e0 \in Enforcer /\ e0.active = enf.active /\ e0.hist = h /\ e0.arm = enf.arm
      /\ e0.armed = enf.armed /\ e0.cancelling = enf.cancelling /\ e0.world = w
      /\ e0.cancelPending = enf.cancelPending /\ e0.settle = enf.settle
      /\ e0.mode = enf.mode
  BY <1>3 DEF Whole, Good, Enforcer, Sound, GoodHistory
<1> HIDE DEF e0
<1>5. Good(e0) /\ Live(e0) = Live(enf) /\ (e0.cancelPending => e0.settle = 0)
  BY <1>3, <1>4 DEF Whole, Good, Sound, Live
<1>6. Whole(e0)
  BY <1>3, <1>4, <1>5 DEF Whole, WorldIsFloor, Tied
<1>7. Whole(e1) /\ Above(e1.hist, e0.hist) /\ e1.mode = e0.mode /\ e1.world = w
      /\ Live(e1) = Live(e0)
  <2>1. Good(e1) /\ Live(e1) = Live(e0) /\ e1.world = w
    BY <1>4, <1>5, SettleGood
  <2>2. Kept(e0, e1)
    BY <1>4, <1>6, SettleKeeps DEF Whole
  <2> HIDE DEF e1
  <2>3. QED
    BY <1>4, <1>6, <2>1, <2>2, KeepsWhole
<1> HIDE DEF e1
<1>8. /\ Whole(d) /\ Above(d.hist, e1.hist) /\ d.mode = e1.mode
      /\ Live(d) = Live(e1) /\ d.world = w /\ r.forced \in StopReason \cup {None}
  BY <1>7, RejudgeWhole
<1>9. d.cancelling \in BOOLEAN /\ Good(d) /\ Sound(d.hist)
  BY <1>8 DEF Whole, Good, Enforcer
<1> HIDE DEF r, d
<1>10. /\ Sound(g) /\ Above(g, d.hist) /\ g.floor = d.hist.floor
       /\ g.floorStep = d.hist.floorStep /\ (d.cancelling => g = d.hist)
  BY <1>1, <1>9, ObserveStopSound
<1> HIDE DEF g
<1>11. /\ e3 \in Enforcer /\ e3.active = d.active /\ e3.hist = g /\ e3.arm = d.arm
       /\ e3.armed = d.armed /\ e3.cancelling = d.cancelling /\ e3.world = d.world
       /\ e3.cancelPending = d.cancelPending /\ e3.mode = d.mode
  BY <1>9, <1>10 DEF Good, Enforcer, Sound, GoodHistory
<1> HIDE DEF e3
<1>12. d.arm = None => Whole(e3)
  <2>1. Good(e3)
    BY <1>9, <1>10, <1>11 DEF Good, Sound
  <2>2. d.arm = None /\ Live(e3) => g = d.hist /\ Live(d)
    BY <1>9, <1>10, <1>11 DEF Good, Live
  <2>3. QED
    BY <1>8, <1>10, <1>11, <2>1, <2>2 DEF Whole, WorldIsFloor, Tied
<1>13. Whole(e2) /\ Above(e2.hist, d.hist) /\ e2.mode = d.mode /\ Live(e2) = Live(d)
       /\ e2.world = w
  BY <1>8, <1>9, <1>10, <1>11, <1>12, FollowsItself DEF Live
<1> HIDE DEF e2
<1>14. Above(e2.hist, enf.hist)
  <2>1. /\ Sound(enf.hist) /\ Sound(e0.hist) /\ Sound(e1.hist) /\ Sound(d.hist)
        /\ Sound(e2.hist)
    BY <1>6, <1>7, <1>8, <1>13 DEF Whole
  <2>2. Above(e1.hist, enf.hist)
    BY <1>3, <1>4, <1>7, <2>1, AboveTransitive
  <2>3. Above(d.hist, enf.hist)
    BY <1>8, <2>1, <2>2, AboveTransitive
  <2>4. QED
    BY <1>13, <2>1, <2>3, AboveTransitive
<1>15. Prepared(e2, r.forced, FALSE, TRUE)
  BY <1>1, <1>4, <1>5, <1>7, <1>8, <1>13, <1>14 DEF Prepared
<1>16. QED
  BY <1>2, <1>8, <1>15, ReturnServes

\* A fault raises the mode and drops or judges again what is active.
LEMMA FaultServes ==
  ASSUME Whole(enf), now \in Nat, NEW m \in Mode, HandleFault(m) PROVE Served
<1> DEFINE n == Larger(enf.mode, m)
           e == [enf EXCEPT !.mode = n]
           r == Rejudge(e, now)
           d == Drop(e, now)
<1>1. n \in Mode /\ (StopOnly(enf.mode) => StopOnly(n))
  BY DEF Whole, Good, Enforcer, Larger, Mode, StopOnly, Hold, Normal, EStop
<1>2. \/ Return(Output(d, now, None, FALSE, FALSE))
      \/ Return(Output(r.enf, now, r.forced, FALSE, FALSE))
  BY DEF HandleFault
<1> HIDE DEF n
<1>3. /\ e \in Enforcer /\ e.active = enf.active /\ e.hist = enf.hist /\ e.arm = enf.arm
      /\ e.armed = enf.armed /\ e.cancelling = enf.cancelling /\ e.world = enf.world
      /\ e.cancelPending = enf.cancelPending /\ e.mode = n
  BY <1>1 DEF Whole, Good, Enforcer
<1>4. Whole(e) /\ Live(e) = Live(enf)
  BY <1>3 DEF Whole, Good, Live, WorldIsFloor, Tied
<1> HIDE DEF e
<1>5. /\ Whole(r.enf) /\ Above(r.enf.hist, e.hist) /\ r.enf.mode = n
      /\ Live(r.enf) = Live(enf) /\ r.forced \in StopReason \cup {None}
  BY <1>3, <1>4, RejudgeWhole
<1>6. Whole(d) /\ Above(d.hist, e.hist) /\ d.mode = n /\ Live(d) = Live(enf)
  BY <1>3, <1>4, DropWhole
<1> HIDE DEF r, d
<1>7. Prepared(d, None, FALSE, FALSE) /\ Prepared(r.enf, r.forced, FALSE, FALSE)
  BY <1>1, <1>3, <1>5, <1>6 DEF Prepared
<1>8. QED
  BY <1>2, <1>5, <1>7, ReturnServes

-----------------------------------------------------------------------------
(* The stages.                                                             *)

\* The three counters of the file never go back.
Grows == disk # None => Above(disk'.hist, disk.hist)

\* What was executed names a revision.
LEMMA ExecutedType ==
  ASSUME IInv PROVE \A i \in DOMAIN executed : executed[i].rev \in Nat
<1>1. executed \in Seq(Sent)
  BY DEF IInv, TypeOK
<1>2. \A i \in DOMAIN executed : executed[i] \in Sent
  BY <1>1
<1>3. QED
  BY <1>2 DEF Sent

\* A line of input: nothing reaches the disk or the outside before its stage.
LEMMA ServeHolds ==
  ASSUME IInv, proc = "ready", Served,
         proc' = IF CheckpointFirst(step') THEN "checkpoint" ELSE "emit",
         cleared' = (cleared /\ ~StopOnly(enf'.mode)),
         UNCHANGED <<disk, wire, executed, acked>>
  PROVE  IInv' /\ Grows
<1>1. /\ Sound(enf.hist) /\ Sound(enf'.hist) /\ enf' \in Enforcer
      /\ disk # None /\ Sound(disk.hist) /\ Above(enf.hist, disk.hist)
  BY DEF IInv, Whole, Good, Written, Served
<1>2. Above(enf'.hist, disk.hist)
  BY <1>1, AboveTransitive DEF Served
<1>3. TypeOK'
  BY <1>1 DEF IInv, TypeOK, Served
<1>4. Written'
  BY <1>1, <1>2 DEF IInv, Written, Served
<1>5. Staged'
  BY DEF Staged, Served, Waits, CheckpointFirst, Actuates
<1>6. ASSUME Household PROVE Told'
  <2>1. Newer'
    <3> SUFFICES ASSUME step'.arm = "execute"
                 PROVE  /\ enf'.arm.rev = enf'.hist.epoch
                        /\ \A i \in DOMAIN executed : executed[i].rev < enf'.arm.rev
      BY DEF Newer
    <3>1. enf'.arm.rev = enf'.hist.epoch /\ enf'.arm.rev > enf.hist.epoch
      BY <1>6 DEF Served
    <3>2. enf.hist.epoch >= disk.hist.epoch
      BY <1>1 DEF Above
    <3>3. enf.hist.epoch \in Nat /\ enf'.hist.epoch \in Nat /\ disk.hist.epoch \in Nat
      BY <1>1, Counted
    <3>4. \A i \in DOMAIN executed :
            executed[i].rev \in Nat /\ executed[i].rev <= disk.hist.epoch
      BY <1>6, ExecutedType DEF IInv, Told, Consumes
    <3>5. QED
      BY <3>1, <3>2, <3>3, <3>4
  <2>2. Followed'
    <3>1. step'.arm \in {"none", "execute", "cancel"}
      BY DEF Served, Step
    <3>2. step'.arm = "cancel" => proc' = "emit"
      BY DEF Served, CheckpointFirst, Actuates
    <3>3. wire # None => Live(enf)
      BY <1>6 DEF IInv, Told, Followed
    <3>4. QED
      BY <3>1, <3>2, <3>3 DEF Followed, Served, Live
  <2>3. Consumes' /\ OncePerRevision' /\ DurableFirst'
    BY <1>6 DEF IInv, Told, Consumes, OncePerRevision, DurableFirst, RunningIsPending,
                AcknowledgedIsDurable
  <2>4. QED
    BY <2>1, <2>2, <2>3 DEF Told
<1>7. Whole(enf)' /\ Grows
  BY <1>1, FollowsItself DEF Served, Grows
<1>8. QED
  BY <1>3, <1>4, <1>5, <1>6, <1>7 DEF IInv

\* What a checkpoint holds of a record.
LEMMA CheckpointHolds ==
  ASSUME NEW e, Good(e), Sound(e.hist)
  PROVE  LET h == Serialised(e.hist)
         IN  /\ Checkpoint(e) = [mode |-> e.mode, running |-> TRUE, hist |-> h]
             /\ e.mode \in Mode /\ Sound(h) /\ h \in HistoryState
             /\ h.pending = e.hist.pending /\ h.floor = e.hist.floor
             /\ h.epoch = e.hist.epoch /\ h.blocked = e.hist.blocked
<1> DEFINE h == Serialised(e.hist)
<1>1. Follows(h, e.hist)
  BY SettleFollows DEF Serialised
<1>2. h.blocked = e.hist.blocked
  BY DEF Serialised, Sound, GoodHistory, HistoryState
<1> HIDE DEF h
<1>3. h \in HistoryState
  BY <1>1 DEF Follows, Sound, GoodHistory
<1>4. e.mode \in Mode
  BY DEF Good, Enforcer
<1>5. Checkpoint(e) = [mode |-> e.mode, running |-> TRUE, hist |-> h]
  BY DEF Checkpoint, h
<1>6. QED
  BY <1>1, <1>2, <1>3, <1>4, <1>5 DEF Follows, h

\* A record as it was opened is whole (lib.rs open).
LEMMA OpenedWhole ==
  ASSUME NEW m \in Mode, NEW h, Sound(h), NEW t \in Nat
  PROVE  LET e == Opened(m, h, t)
         IN  /\ Whole(e) /\ e.hist = h /\ e.mode = m /\ e.settle = 0
             /\ e.cancelPending <=> h.pending # None
<1> DEFINE e == Opened(m, h, t)
           b == h.pending # None
           c == IF b THEN 0 ELSE t
<1>1. h \in HistoryState /\ GoodHistory(h) /\ b \in BOOLEAN /\ c \in Nat
  BY DEF Sound, GoodHistory
<1>2. e = [mode |-> m, world |-> None, active |-> None, arm |-> None,
           cancelPending |-> b, cancelling |-> b, cancelSince |-> c,
           lastSettle |-> 0, settle |-> 0, armed |-> {}, everArmed |-> FALSE,
           lastStop |-> "Startup", stateOk |-> TRUE, recorderOk |-> TRUE, hist |-> h]
  BY DEF Opened
<1> HIDE DEF e, c
<1>3. /\ e.hist = h /\ e.mode = m /\ e.settle = 0 /\ e.world = None /\ e.active = None
      /\ e.arm = None /\ e.armed = {} /\ e.cancelPending = b /\ e.cancelling = b
  BY <1>2
<1>4. e \in Enforcer
  <2>1. "Startup" \in StopReason
    BY DEF StopReason
  <2> HIDE DEF b
  <2>2. QED
    BY <1>1, <1>2, <2>1 DEF Enforcer
<1>5. Good(e)
  BY <1>1, <1>3, <1>4 DEF Good
<1>6. Whole(e)
  BY <1>3, <1>5 DEF Whole, WorldIsFloor, Tied, Live
<1>7. QED
  BY <1>3, <1>6 DEF e

\* What a process that is not there remembers is whole too.
LEMMA NoMemoryWhole == Whole(NoMemory) /\ NoMemory.settle = 0 /\ ~NoMemory.cancelPending
<1>1. Hold \in Mode /\ Sound(NewHistory) /\ NewHistory.pending = None
  BY NewSound DEF Mode, Hold, Normal, EStop, NewHistory
<1>2. QED
  BY <1>1, OpenedWhole DEF NoMemory

LEMMA NoStepType == ASSUME NEW t \in Nat PROVE NoStep(t) \in Step
BY EnforcerAssumption DEF NoStep, Step, StopReason

\* The process ends: nothing in memory is left to be true of.
LEMMA DownHolds ==
  ASSUME IInv, Ends, disk' \in StateFile \cup {None}, cleared' \in BOOLEAN,
         UNCHANGED <<now, wire, executed, acked>>,
         disk' # None => /\ Sound(disk'.hist)
                         /\ ~cleared' => disk'.running \/ StopOnly(disk'.mode),
         disk # None => /\ disk' # None /\ Above(disk'.hist, disk.hist)
                        /\ Household /\ wire # None => disk'.hist.pending # None
  PROVE  IInv' /\ Grows
<1>1. Whole(enf') /\ enf'.settle = 0 /\ ~enf'.cancelPending /\ proc' = "down"
  BY NoMemoryWhole DEF Ends
<1>2. TypeOK'
  <2>1. step' \in Step
    BY NoStepType DEF Ends
  <2>2. enf' \in Enforcer
    BY <1>1 DEF Whole, Good
  <2>3. QED
    BY <1>1, <2>1, <2>2 DEF IInv, TypeOK
<1>3. Written' /\ Staged'
  BY <1>1 DEF Written, Staged, Waits
<1>4. ASSUME Household PROVE Told'
  <2>1. Newer' /\ Followed'
    BY <1>1 DEF Newer, Followed, Waits
  <2>2. /\ disk # None => /\ disk.hist.epoch \in Nat /\ disk'.hist.epoch \in Nat
                          /\ disk.hist.floor \in Nat /\ disk'.hist.floor \in Nat
    BY Counted DEF IInv, Written
  <2>3. Consumes'
    BY <1>4, <2>2, ExecutedType DEF IInv, Told, Consumes, Above
  <2>4. OncePerRevision'
    BY <1>4 DEF IInv, Told, OncePerRevision
  <2>5. RunningIsPending'
    BY <1>4 DEF IInv, Told, DurableFirst, RunningIsPending
  <2>6. AcknowledgedIsDurable'
    BY <1>4, <2>2 DEF IInv, TypeOK, Told, DurableFirst, AcknowledgedIsDurable, Above
  <2>7. QED
    BY <2>1, <2>3, <2>4, <2>5, <2>6 DEF Told, DurableFirst
<1>5. QED
  BY <1>1, <1>2, <1>3, <1>4 DEF IInv, Grows

\* The process dies without touching the file.
LEMMA UnsavedHolds ==
  ASSUME IInv, proc # "down", Ends, cleared' = FALSE,
         UNCHANGED <<now, disk, wire, executed, acked>>
  PROVE  IInv' /\ Grows
<1>1. disk # None /\ disk.running /\ Sound(disk.hist) /\ disk \in StateFile \cup {None}
  BY DEF IInv, TypeOK, Written
<1>2. Above(disk.hist, disk.hist)
  BY <1>1, FollowsItself
<1>3. Household /\ wire # None => disk.hist.pending # None
  BY DEF IInv, Told, DurableFirst, RunningIsPending
<1>4. QED
  BY <1>1, <1>2, <1>3, DownHolds

\* It ends with the checkpoint of e in the file, e being what memory came to.
LEMMA SavedHolds ==
  ASSUME IInv, proc \in {"ready", "checkpoint", "save"}, Ends,
         NEW e, Good(e), Follows(e.hist, enf.hist), NEW b \in BOOLEAN,
         disk' = [mode |-> e.mode, running |-> b, hist |-> Serialised(e.hist)],
         cleared' \in BOOLEAN, ~cleared' => b \/ StopOnly(e.mode),
         UNCHANGED <<now, wire, executed, acked>>
  PROVE  IInv' /\ Grows
<1> DEFINE h == Serialised(e.hist)
<1>1. Sound(e.hist) /\ Sound(enf.hist)
  BY DEF Follows, IInv, Whole
<1>2. /\ e.mode \in Mode /\ Sound(h) /\ h \in HistoryState
      /\ h.pending = e.hist.pending /\ h.floor = e.hist.floor
      /\ h.epoch = e.hist.epoch /\ h.blocked = e.hist.blocked
  BY <1>1, CheckpointHolds
<1>3. disk' = [mode |-> e.mode, running |-> b, hist |-> h]
  OBVIOUS
<1> HIDE DEF h
<1>4. /\ disk' \in StateFile /\ disk' # None /\ disk'.hist = h
      /\ disk'.running = b /\ disk'.mode = e.mode
  BY <1>2, <1>3, AbsentFileAssumption DEF StateFile
<1>5. disk # None /\ Sound(disk.hist) /\ Above(enf.hist, disk.hist)
  BY DEF IInv, Written
<1>6. Above(h, disk.hist)
  <2>1. Above(e.hist, disk.hist)
    BY <1>1, <1>5, AboveTransitive DEF Follows
  <2>2. QED
    BY <1>2, <2>1 DEF Above
<1>7. Household /\ wire # None => h.pending # None
  BY <1>2 DEF IInv, Told, Followed, Whole, Tied, Follows
<1>8. QED
  BY <1>2, <1>4, <1>5, <1>6, <1>7, DownHolds

LEMMA CrashHolds == ASSUME IInv, Crash PROVE IInv' /\ Grows
BY UnsavedHolds DEF Crash

\* Ending with the marker still there: what the file holds is old or new.
LEMMA UncleanHolds ==
  ASSUME IInv, proc \in {"ready", "checkpoint", "save"}, Ends,
         NEW e, Good(e), Follows(e.hist, enf.hist),
         disk' \in {disk, Checkpoint(e)}, cleared' = FALSE,
         UNCHANGED <<now, wire, executed, acked>>
  PROVE  IInv' /\ Grows
<1>1. CASE disk' = disk
  BY <1>1, UnsavedHolds
<1>2. CASE disk' = Checkpoint(e)
  <2>1. disk' = [mode |-> e.mode, running |-> TRUE, hist |-> Serialised(e.hist)]
    BY <1>2 DEF Checkpoint
  <2>2. QED
    BY <1>2, <2>1, SavedHolds
<1>3. QED
  BY <1>1, <1>2

LEMMA PersistFailsHolds == ASSUME IInv, PersistFails PROVE IInv' /\ Grows
<1>1. Good(enf) /\ Follows(enf.hist, enf.hist)
  BY FollowsItself DEF IInv, Whole
<1>2. proc \in {"ready", "checkpoint", "save"}
  BY DEF PersistFails
<1>3. QED
  BY <1>1, <1>2, UncleanHolds DEF PersistFails

LEMMA TransportClosesHolds == ASSUME IInv, TransportCloses PROVE IInv' /\ Grows
<1> DEFINE c == Drop(enf, now)
           e == Output(c, now, "Denied", FALSE, FALSE).enf
<1>1. Good(enf) /\ Sound(enf.hist) /\ now \in Nat
  BY DEF IInv, Whole, TypeOK
<1>2. Good(c) /\ Kept(enf, c)
  BY <1>1, DropGood, DropKeeps
<1>3. Sound(c.hist)
  BY <1>2 DEF Kept, Follows
<1> HIDE DEF c
<1>4. "Denied" \in StopReason \cup {None}
  BY DEF StopReason
<1>5. Good(e) /\ Kept(c, e)
  BY <1>1, <1>2, <1>3, <1>4, OutputGood, OutputKeeps
<1>6. Rejected.enf = e
  BY DEF Rejected, c
<1> HIDE DEF e
<1>7. Follows(e.hist, enf.hist)
  BY <1>1, <1>2, <1>5, FollowsTransitive DEF Kept
<1>8. proc \in {"ready", "checkpoint", "save"} /\ disk' \in {disk, Checkpoint(e)}
  BY <1>6 DEF TransportCloses
<1>9. QED
  BY <1>5, <1>7, <1>8, UncleanHolds DEF TransportCloses

\* A close that reaches the marker, whatever it reports, and one that does not:
\* the marker is left with the mode of the process, which only allows stopping
\* unless a reset still stands.
LEMMA CloseHolds == ASSUME IInv, Close \/ CloseFails PROVE IInv' /\ Grows
<1> DEFINE c == ClearActive(enf, FALSE, now)
<1>1. Good(enf) /\ Sound(enf.hist) /\ now \in Nat
  BY DEF IInv, Whole, TypeOK
<1>2. Good(c) /\ Kept(enf, c)
  BY <1>1, ClearGood, ClearKeeps
<1>3. Follows(c.hist, enf.hist) /\ proc \in {"ready", "checkpoint", "save"}
  BY <1>2 DEF Kept, Close, CloseFails
<1>4. cleared \in BOOLEAN /\ (~cleared => StopOnly(c.mode))
  BY <1>2 DEF IInv, TypeOK, Written, Kept, Close, CloseFails
<1>5. Closing = Checkpoint(c)
  BY DEF Closing
<1> HIDE DEF c
<1>6. Ends /\ UNCHANGED <<now, wire, executed, acked>>
  BY DEF Close, CloseFails
<1>7. CASE disk' = CleanFile /\ cleared' = cleared
  <2>1. disk' = [mode |-> c.mode, running |-> FALSE, hist |-> Serialised(c.hist)]
    BY <1>5, <1>7 DEF CleanFile, Checkpoint
  <2>2. QED
    BY <1>2, <1>3, <1>4, <1>6, <1>7, <2>1, SavedHolds
<1>8. CASE disk' \in {disk, Checkpoint(c)} /\ cleared' = FALSE
  BY <1>2, <1>3, <1>6, <1>8, UncleanHolds
<1>9. \/ disk' = CleanFile /\ cleared' = cleared
      \/ disk' \in {disk, Checkpoint(c)} /\ cleared' = FALSE
  BY <1>4, <1>5 DEF Close, CloseFails
<1>10. QED
  BY <1>7, <1>8, <1>9

\* The checkpoint of memory reaches the file.
LEMMA PersistHolds == ASSUME IInv, Persist PROVE IInv' /\ Grows
<1> DEFINE h == Serialised(enf.hist)
<1>1. /\ Good(enf) /\ Sound(enf.hist) /\ disk # None /\ Sound(disk.hist)
      /\ Above(enf.hist, disk.hist) /\ proc \in {"checkpoint", "save"}
  BY DEF IInv, Whole, Written, Persist
<1>2. /\ Checkpoint(enf) = [mode |-> enf.mode, running |-> TRUE, hist |-> h]
      /\ enf.mode \in Mode /\ Sound(h) /\ h \in HistoryState
      /\ h.pending = enf.hist.pending /\ h.floor = enf.hist.floor
      /\ h.epoch = enf.hist.epoch /\ h.blocked = enf.hist.blocked
  BY <1>1, CheckpointHolds
<1>3. h = Serialised(enf.hist)
  OBVIOUS
<1> HIDE DEF h
<1>4. disk' \in StateFile /\ disk' # None /\ disk'.hist = h /\ disk'.running
  <2>1. disk' = [mode |-> enf.mode, running |-> TRUE, hist |-> h]
    BY <1>2 DEF Persist
  <2>2. disk' \in StateFile
    BY <1>2, <2>1 DEF StateFile
  <2>3. QED
    BY <2>1, <2>2, AbsentFileAssumption
<1>5. /\ enf' \in Enforcer /\ enf'.hist = enf.hist /\ enf'.mode = enf.mode
      /\ enf'.active = enf.active /\ enf'.arm = enf.arm /\ enf'.armed = enf.armed
      /\ enf'.cancelling = enf.cancelling /\ enf'.cancelPending = enf.cancelPending
      /\ enf'.settle = enf.settle /\ enf'.world = enf.world
  BY <1>1 DEF Persist, Good, Enforcer
<1>6. Whole(enf') /\ Live(enf') = Live(enf)
  BY <1>5 DEF IInv, Whole, Good, WorldIsFloor, Tied, Live
<1>7. TypeOK'
  BY <1>4, <1>5 DEF IInv, TypeOK, Persist
<1>8. /\ enf.hist.epoch \in Nat /\ disk.hist.epoch \in Nat
      /\ enf.hist.floor \in Nat /\ disk.hist.floor \in Nat
  BY <1>1, Counted
<1>9. Above(enf.hist, h) /\ Above(h, disk.hist)
  BY <1>1, <1>2, FollowsItself DEF Above
<1>10. Written'
  BY <1>2, <1>3, <1>4, <1>5, <1>9 DEF IInv, Written, Persist
<1>11. Staged'
  BY <1>1, <1>5 DEF IInv, Staged, Persist, Waits
<1>12. ASSUME Household PROVE Told'
  <2>1. Newer'
    BY <1>5, <1>12 DEF IInv, Told, Newer, Persist, Waits
  <2>2. Consumes'
    BY <1>1, <1>2, <1>4, <1>8, <1>12, ExecutedType DEF IInv, Told, Consumes, Above, Persist
  <2>3. OncePerRevision'
    BY <1>12 DEF IInv, Told, OncePerRevision, Persist
  <2>4. wire # None => Live(enf) /\ enf.hist.pending # None
    BY <1>1, <1>12 DEF IInv, Told, Followed, Whole, Tied
  <2>5. Followed' /\ RunningIsPending'
    BY <1>2, <1>4, <1>6, <2>4 DEF Followed, RunningIsPending, Persist
  <2>6. AcknowledgedIsDurable'
    BY <1>1, <1>2, <1>4, <1>8, <1>12
    DEF IInv, TypeOK, Told, DurableFirst, AcknowledgedIsDurable, Above, Persist
  <2>7. QED
    BY <2>1, <2>2, <2>3, <2>5, <2>6 DEF Told, DurableFirst
<1>13. Grows
  BY <1>4, <1>9 DEF Grows
<1>14. QED
  BY <1>6, <1>7, <1>10, <1>11, <1>12, <1>13 DEF IInv

\* The reply reaches controller and observer: what it says is already on disk.
LEMMA ReplyHolds == ASSUME IInv, Reply PROVE IInv' /\ Grows
<1>1. /\ Whole(enf) /\ disk # None /\ Sound(disk.hist) /\ proc \in {"reply", "emit"}
      /\ Above(enf.hist, disk.hist) /\ enf \in Enforcer
      /\ proc' \in {"ready", "save"} /\ UNCHANGED <<enf, now, step, disk, cleared>>
  BY DEF IInv, Written, Reply, Whole, Good
<1>2. /\ step.arm \in {"none", "execute", "cancel"}
      /\ step.arm = "execute" => enf.arm # None /\ proc = "reply"
      /\ step.ack => enf.world # None
  BY <1>1 DEF IInv, TypeOK, Step, Staged, CheckpointFirst, Actuates
<1> DEFINE sent == [rev |-> enf.arm.rev, step |-> enf.arm.step]
<1>3. step.arm = "execute" => sent \in Sent /\ sent # None /\ sent.rev = enf.arm.rev
  BY <1>1, <1>2, AbsentFileAssumption DEF Enforcer, ActiveArm, Sent
<1> HIDE DEF sent
<1>4. /\ step.arm = "execute" => wire' = sent /\ executed' = Append(executed, sent)
      /\ step.arm = "cancel" => wire' = None /\ executed' = executed
      /\ step.arm = "none" => wire' = wire /\ executed' = executed
  BY DEF Reply, sent
<1>5. step.ack => enf.world.rev \in Nat
  BY <1>1, <1>2 DEF Enforcer, World
<1>6. executed \in Seq(Sent) /\ \A i \in DOMAIN executed : executed[i].rev \in Nat
  BY ExecutedType DEF IInv, TypeOK
<1>7. TypeOK'
  <2>1. acked' \in Nat
    BY <1>5 DEF IInv, TypeOK, Reply
  <2>2. executed' \in Seq(Sent) /\ wire' \in Sent \cup {None}
    BY <1>2, <1>3, <1>4, <1>6 DEF IInv, TypeOK
  <2>3. QED
    BY <1>1, <2>1, <2>2 DEF IInv, TypeOK
<1>8. Written'
  BY <1>1 DEF IInv, Written
<1>9. Staged'
  BY <1>1 DEF IInv, Staged, Waits
<1>10. ASSUME Household PROVE Told'
  <2>1. Newer'
    BY <1>1 DEF Newer, Waits
  <2>2. proc = "reply" => /\ disk.hist.epoch = enf.hist.epoch
                          /\ disk.hist.floor = enf.hist.floor
                          /\ disk.hist.pending = enf.hist.pending
    BY <1>1, CheckpointHolds DEF IInv, Whole, Written
  <2>3. AcknowledgedIsDurable'
    <3>1. CASE step.ack /\ step.arm # "cancel" /\ enf.world.rev # 0
      <4>1. proc = "reply"
        BY <1>1, <1>10, <3>1 DEF IInv, Staged, CheckpointFirst
      <4>2. acked' = enf.world.rev /\ disk'.hist.floor = enf.world.rev
        BY <1>1, <1>2, <1>10, <2>2, <3>1, <4>1 DEF Whole, WorldIsFloor, Reply
      <4>3. QED
        BY <1>1, <1>5, <3>1, <4>2 DEF AcknowledgedIsDurable
    <3>2. CASE ~(step.ack /\ step.arm # "cancel" /\ enf.world.rev # 0)
      <4>1. acked' = acked
        BY <3>2 DEF Reply
      <4>2. QED
        BY <1>1, <1>10, <4>1 DEF IInv, Told, DurableFirst, AcknowledgedIsDurable
    <3>3. QED
      BY <3>1, <3>2
  <2>4. CASE step.arm = "execute"
    <3>1. /\ sent.rev = enf.hist.epoch /\ disk.hist.epoch = enf.hist.epoch
          /\ \A i \in DOMAIN executed : executed[i].rev < sent.rev
      BY <1>2, <1>3, <1>10, <2>2, <2>4 DEF IInv, Told, Newer, Waits
    <3>2. /\ DOMAIN executed' = 1..(Len(executed) + 1) /\ DOMAIN executed = 1..Len(executed)
          /\ Len(executed) \in Nat
          /\ \A i \in DOMAIN executed : executed'[i] = executed[i]
          /\ executed'[Len(executed) + 1] = sent
      BY <1>3, <1>4, <1>6, <2>4
    <3>3. enf.hist.epoch \in Nat
      BY <1>1, Counted DEF Whole
    <3>4. Consumes'
      <4>1. ASSUME NEW i \in DOMAIN executed'
            PROVE  disk' # None /\ executed'[i].rev <= disk'.hist.epoch
        <5>1. CASE i \in DOMAIN executed
          BY <1>1, <1>10, <3>2, <5>1 DEF IInv, Told, Consumes
        <5>2. CASE i = Len(executed) + 1
          BY <1>1, <3>1, <3>2, <3>3, <5>2
        <5>3. QED
          BY <3>2, <4>1, <5>1, <5>2
      <4>2. QED
        BY <4>1 DEF Consumes
    <3>5. OncePerRevision'
      <4>1. ASSUME NEW i \in DOMAIN executed', NEW j \in DOMAIN executed', i < j
            PROVE  executed'[i].rev < executed'[j].rev
        <5>1. i \in DOMAIN executed
          BY <3>2, <4>1
        <5>2. CASE j \in DOMAIN executed
          BY <1>10, <3>2, <4>1, <5>1, <5>2 DEF IInv, Told, OncePerRevision
        <5>3. CASE j = Len(executed) + 1
          BY <3>1, <3>2, <5>1, <5>3
        <5>4. QED
          BY <3>2, <4>1, <5>2, <5>3
      <4>2. QED
        BY <4>1 DEF OncePerRevision
    <3>6. Live(enf) /\ enf.hist.pending # None /\ enf' = enf /\ disk' = disk
      BY <1>1, <1>2, <1>10, <2>4 DEF Whole, Tied, Live
    <3>7. RunningIsPending'
      BY <1>1, <1>2, <2>2, <2>4, <3>6 DEF RunningIsPending
    <3>8. Followed'
      BY <3>6 DEF Followed, Live
    <3>9. QED
      BY <2>1, <2>3, <3>4, <3>5, <3>7, <3>8 DEF Told, DurableFirst
  <2>5. CASE step.arm # "execute"
    <3>1. executed' = executed /\ wire' \in {wire, None} /\ (step.arm = "cancel" => wire' = None)
      BY <1>2, <1>4, <2>5
    <3>2. Consumes' /\ OncePerRevision'
      BY <1>1, <1>10, <3>1 DEF IInv, Told, Consumes, OncePerRevision
    <3>3. wire # None /\ step.arm # "cancel" => Live(enf)
      BY <1>1, <1>10 DEF IInv, Told, Followed
    <3>4. enf' = enf /\ disk' = disk
      BY <1>1
    <3>5. Followed'
      BY <3>1, <3>3, <3>4 DEF Followed, Live
    <3>6. RunningIsPending'
      BY <1>10, <3>1, <3>4 DEF IInv, Told, DurableFirst, RunningIsPending
    <3>7. QED
      BY <2>1, <2>3, <3>2, <3>5, <3>6 DEF Told, DurableFirst
  <2>6. QED
    BY <2>4, <2>5
<1>11. Grows
  BY <1>1, FollowsItself DEF Grows
<1>12. QED
  BY <1>1, <1>7, <1>8, <1>9, <1>10, <1>11 DEF IInv

\* What opening writes: the history restarted, in a mode that lets nothing move
\* unless the file was left clean.
LEMMA OpeningWrites ==
  ASSUME IInv, Opening
  PROVE  /\ proc = "down" /\ OpenMode \in Mode /\ Sound(OpenHistory)
         /\ disk' \in StateFile /\ disk' # None /\ disk'.running = TRUE
         /\ disk'.hist = OpenHistory
         /\ ~cleared => StopOnly(OpenMode)
         /\ disk # None => /\ Above(disk'.hist, disk.hist)
                           /\ disk'.hist.pending = disk.hist.pending
<1> DEFINE b == IF disk = None THEN NewHistory ELSE disk.hist
<1>1. Sound(b) /\ OpenHistory = Restart(b)
  BY NewSound DEF IInv, Written, OpenHistory
<1>2. disk # None => b = disk.hist
  OBVIOUS
<1> HIDE DEF b
<1>3. Follows(OpenHistory, b)
  BY <1>1, RestartFollows
<1>4. Sound(OpenHistory) /\ OpenHistory \in HistoryState
  BY <1>3 DEF Follows, Sound, GoodHistory
<1>5. disk # None => disk.mode \in Mode
  BY DEF IInv, TypeOK, StateFile
<1>6. OpenMode \in Mode
  BY <1>5 DEF OpenMode, Larger, Mode, Hold, Normal, EStop
<1>7. ~cleared => StopOnly(OpenMode)
  BY <1>5 DEF IInv, Written, OpenMode, StopOnly, Larger, Mode, Hold, Normal, EStop
<1>8. disk' = [mode |-> OpenMode, running |-> TRUE, hist |-> OpenHistory] /\ proc = "down"
  BY DEF Opening
<1>9. disk' \in StateFile
  BY <1>4, <1>6, <1>8 DEF StateFile
<1>10. disk' # None
  BY <1>9, AbsentFileAssumption
<1>11. QED
  BY <1>2, <1>3, <1>4, <1>6, <1>7, <1>8, <1>9, <1>10 DEF Follows

\* What the outside was told survives a change of the file while no process runs.
LEMMA ToldAtRest ==
  ASSUME IInv, Household, disk' \in StateFile, disk' # None, Sound(disk'.hist),
         disk # None => /\ Above(disk'.hist, disk.hist)
                        /\ disk'.hist.pending = disk.hist.pending,
         UNCHANGED <<wire, executed, acked>>
  PROVE  Consumes' /\ OncePerRevision' /\ DurableFirst'
<1>1. /\ disk # None => /\ disk.hist.epoch \in Nat /\ disk'.hist.epoch \in Nat
                        /\ disk.hist.floor \in Nat /\ disk'.hist.floor \in Nat
  BY Counted DEF IInv, Written
<1>2. Consumes'
  BY <1>1, ExecutedType DEF IInv, Told, Consumes, Above
<1>3. OncePerRevision'
  BY DEF IInv, Told, OncePerRevision
<1>4. RunningIsPending'
  BY DEF IInv, Told, DurableFirst, RunningIsPending
<1>5. AcknowledgedIsDurable'
  BY <1>1 DEF IInv, TypeOK, Told, DurableFirst, AcknowledgedIsDurable, Above
<1>6. QED
  BY <1>2, <1>3, <1>4, <1>5 DEF DurableFirst

\* A process opens the file: a motion left pending is cancelled first.
LEMMA OpenHolds == ASSUME IInv, Open PROVE IInv' /\ Grows
<1> DEFINE h == OpenHistory
           m == OpenMode
<1>1. /\ proc = "down" /\ m \in Mode /\ Sound(h)
      /\ disk' \in StateFile /\ disk' # None /\ disk'.running = TRUE
      /\ disk'.hist = h
      /\ ~cleared => StopOnly(m)
      /\ disk # None => /\ Above(disk'.hist, disk.hist)
                        /\ disk'.hist.pending = disk.hist.pending
  BY OpeningWrites DEF Open
<1>2. /\ enf' = Opened(m, h, now) /\ step' = NoStep(now) /\ proc' = "ready"
      /\ UNCHANGED <<now, wire, executed, acked, cleared>> /\ now \in Nat
  BY DEF Open, IInv, TypeOK
<1> HIDE DEF h, m
<1>3. /\ Whole(enf') /\ enf'.hist = h /\ enf'.mode = m /\ enf'.settle = 0
      /\ enf'.cancelPending <=> h.pending # None
  BY <1>1, <1>2, OpenedWhole
<1>4. TypeOK'
  BY <1>1, <1>2, <1>3, NoStepType DEF IInv, TypeOK, Whole, Good
<1>5. Written'
  BY <1>1, <1>2, <1>3, FollowsItself DEF Written
<1>6. Staged'
  BY <1>2, <1>3 DEF Staged, Waits
<1>7. ASSUME Household PROVE Told'
  <2>1. Consumes' /\ OncePerRevision' /\ DurableFirst'
    BY <1>1, <1>2, <1>7, ToldAtRest
  <2>2. Newer'
    BY <1>2 DEF Newer, Waits
  <2>3. Followed'
    BY <1>1, <1>2, <1>3, <2>1 DEF Followed, DurableFirst, RunningIsPending, Live
  <2>4. QED
    BY <2>1, <2>2, <2>3 DEF Told
<1>8. QED
  BY <1>1, <1>3, <1>4, <1>5, <1>6, <1>7 DEF IInv, Grows

\* The file changes while no process runs: an opening that did not come up, and
\* the operator.
LEMMA AtRestHolds ==
  ASSUME IInv, proc = "down", disk' \in StateFile, disk' # None, Sound(disk'.hist),
         disk # None => /\ Above(disk'.hist, disk.hist)
                        /\ disk'.hist.pending = disk.hist.pending,
         cleared' \in BOOLEAN, ~cleared' => disk'.running \/ StopOnly(disk'.mode),
         UNCHANGED <<enf, now, step, proc, wire, executed, acked>>
  PROVE  IInv' /\ Grows
<1>1. TypeOK' /\ Whole(enf)'
  BY DEF IInv, TypeOK
<1>2. Written' /\ Staged'
  BY DEF IInv, Written, Staged, Waits
<1>3. ASSUME Household PROVE Told'
  BY <1>3, ToldAtRest DEF Told, Newer, Followed, Waits
<1>4. QED
  BY <1>1, <1>2, <1>3 DEF IInv, Grows

LEMMA OpenFailsHolds == ASSUME IInv, OpenFails PROVE IInv' /\ Grows
BY OpeningWrites, AtRestHolds DEF OpenFails

LEMMA OperatorHolds ==
  ASSUME IInv, NEW m \in OperatorMode, OperatorSet(m) PROVE IInv' /\ Grows
<1> DEFINE h == IF disk = None THEN NewHistory ELSE disk.hist
<1>1. Sound(h) /\ (disk # None => h = disk.hist)
  BY NewSound DEF IInv, Written
<1>2. disk' = [mode |-> m, running |-> FALSE, hist |-> h] /\ proc = "down"
  BY DEF OperatorSet
<1> HIDE DEF h
<1>3. m \in Mode /\ h \in HistoryState
  BY <1>1, LoopAssumption DEF Sound, GoodHistory
<1>4. disk' \in StateFile
  BY <1>2, <1>3 DEF StateFile
<1>5. disk' # None /\ disk'.hist = h
  BY <1>2, <1>4, AbsentFileAssumption
<1>6. Above(h, h)
  BY <1>1, FollowsItself
<1>7. cleared' \in BOOLEAN /\ (~cleared' => StopOnly(disk'.mode))
  <2>1. cleared' = ~StopOnly(m) /\ StopOnly(m) \in BOOLEAN
    BY DEF OperatorSet, StopOnly
  <2>2. disk'.mode = m
    BY <1>2
  <2>3. QED
    BY <2>1, <2>2
<1>8. QED
  BY <1>1, <1>2, <1>4, <1>5, <1>6, <1>7, AtRestHolds DEF OperatorSet

\* Time passes; nothing the invariant speaks of moves with it.
LEMMA StillHolds ==
  ASSUME IInv, now' \in Nat, UNCHANGED <<enf, step, proc, disk, wire, executed, acked, cleared>>
  PROVE  IInv' /\ Grows
<1>1. TypeOK' /\ Whole(enf)' /\ Written' /\ Staged'
  BY DEF IInv, TypeOK, Written, Staged
<1>2. ASSUME Household PROVE Told'
  BY <1>2 DEF IInv, Told, Newer, Consumes, OncePerRevision, Followed, DurableFirst,
              RunningIsPending, AcknowledgedIsDurable
<1>3. Grows
  BY FollowsItself DEF IInv, Written, Grows
<1>4. QED
  BY <1>1, <1>2, <1>3 DEF IInv

-----------------------------------------------------------------------------
(* The specification.                                                      *)

\* Before the first boot there is no file, and nothing was told.
LEMMA InitHolds == Init => IInv
<1> SUFFICES ASSUME Init PROVE IInv
  OBVIOUS
<1>1. /\ enf = NoMemory /\ Whole(enf) /\ enf.settle = 0 /\ ~enf.cancelPending
      /\ proc = "down" /\ disk = None /\ wire = None /\ executed = << >> /\ acked = 0
  BY NoMemoryWhole DEF Init
<1>2. TypeOK
  <2>1. enf \in Enforcer /\ step \in Step
    BY <1>1, NoStepType DEF Init, Whole, Good
  <2>2. executed \in Seq(Sent)
    BY <1>1
  <2>3. now \in Nat /\ cleared \in BOOLEAN
    BY DEF Init
  <2>4. QED
    BY <1>1, <2>1, <2>2, <2>3 DEF TypeOK
<1>3. Written /\ Staged
  BY <1>1 DEF Written, Staged, Waits
<1>4. Told
  <2>1. DOMAIN executed = {}
    BY <1>1
  <2>2. QED
    BY <1>1, <2>1 DEF Told, Newer, Consumes, OncePerRevision, Followed, DurableFirst,
                      RunningIsPending, AcknowledgedIsDurable, Waits
<1>5. QED
  BY <1>1, <1>2, <1>3, <1>4 DEF IInv

\* A handler that serves is a line of input that keeps the invariant.
LEMMA StageHolds ==
  ASSUME IInv, NEW ACTION handler, Serve(handler), handler => Served
  PROVE  IInv' /\ Grows
BY ServeHolds DEF Serve

\* A world built from the contents of an input is a world.
LEMMA StampedType ==
  ASSUME NEW f \in FactInput, NEW t \in Nat PROVE Stamped(f, t) \in World
BY LoopAssumption DEF Stamped, World

\* Every step keeps the invariant, and the counters of the file.
LEMMA StepHolds == IInv /\ [Next]_vars => IInv' /\ Grows
<1> SUFFICES ASSUME IInv, [Next]_vars PROVE IInv' /\ Grows
  OBVIOUS
<1>0. Whole(enf) /\ now \in Nat /\ (enf.cancelPending => enf.settle = 0)
  BY DEF IInv, TypeOK, Staged
<1>1. ASSUME NEW s \in Source, Serve(HandleStop(s)) PROVE IInv' /\ Grows
  BY <1>0, <1>1, StopServes, StageHolds
<1>2. ASSUME NEW s \in Source, Serve(HandleUnarmed(s)) PROVE IInv' /\ Grows
  BY <1>0, <1>2, UnarmedServes, StageHolds
<1>3. ASSUME NEW p \in TrajectoryInput, Serve(HandleTrajectory(p)) PROVE IInv' /\ Grows
  <2>1. p \in Trajectory
    BY LoopAssumption
  <2>2. HandleTrajectory(p) => Served
    BY <1>0, <2>1, TrajectoryServes, DenyServes DEF HandleTrajectory
  <2>3. QED
    BY <1>3, <2>2, StageHolds
<1>4. ASSUME NEW f \in FactInput, NEW t \in 0..now, Serve(HandleWorld(Stamped(f, t)))
      PROVE  IInv' /\ Grows
  <2>1. Stamped(f, t) \in World
    BY <1>0, StampedType
  <2>2. HandleWorld(Stamped(f, t)) => Served
    BY <1>0, <2>1, WorldServes, DenyServes DEF HandleWorld
  <2>3. QED
    BY <1>4, <2>2, StageHolds
<1>5. ASSUME NEW m \in FaultInput, Serve(HandleFault(m)) PROVE IInv' /\ Grows
  <2>1. HandleFault(m) => Served
    BY <1>0, FaultServes, LoopAssumption
  <2>2. QED
    BY <1>5, <2>1, StageHolds
<1>6. CASE Serve(Reject)
  <2>1. Reject => Served
    BY <1>0, DenyServes DEF Reject
  <2>2. QED
    BY <1>6, <2>1, StageHolds
<1>7. CASE Serve(Tick)
  BY <1>0, <1>7, TickServes, StageHolds
<1>8. CASE Persist
  BY <1>8, PersistHolds
<1>9. CASE PersistFails
  BY <1>9, PersistFailsHolds
<1>10. CASE Reply
  BY <1>10, ReplyHolds
<1>11. CASE Crash
  BY <1>11, CrashHolds
<1>12. CASE TransportCloses
  BY <1>12, TransportClosesHolds
<1>13. CASE Close \/ CloseFails
  BY <1>13, CloseHolds
<1>14. CASE Open
  BY <1>14, OpenHolds
<1>15. CASE OpenFails
  BY <1>15, OpenFailsHolds
<1>16. ASSUME NEW m \in OperatorMode, OperatorSet(m) PROVE IInv' /\ Grows
  BY <1>16, OperatorHolds
<1>17. CASE TimePasses
  BY <1>0, <1>17, StillHolds DEF TimePasses
<1>18. CASE UNCHANGED vars
  BY <1>0, <1>18, StillHolds DEF vars
<1>19. QED
  BY <1>1, <1>2, <1>3, <1>4, <1>5, <1>6, <1>7, <1>8, <1>9, <1>10, <1>11, <1>12, <1>13,
     <1>14, <1>15, <1>16, <1>17, <1>18 DEF Next

\* The inductive invariant of the enforcement process.
THEOREM Invariance == Spec => []IInv
<1>1. IInv /\ [Next]_vars => IInv'
  BY StepHolds
<1>2. QED
  BY <1>1, InitHolds, PTL DEF Spec

\* The variables of the enforcement process always have their types.
THEOREM TypeCorrect == Spec => []TypeOK
<1>1. IInv => TypeOK
  BY DEF IInv
<1>2. QED
  BY <1>1, Invariance, PTL

\* Every file a process may leave behind, wherever it dies, passes the test of
\* the next one: History::validate never refuses it (state.rs open).
THEOREM CheckpointAlwaysReopens == Spec => []CheckpointReopens
<1>1. IInv => CheckpointReopens
  BY SoundValidates DEF IInv, Written, CheckpointReopens
<1>2. QED
  BY <1>1, Invariance, PTL

\* In a household, over any number of crashes, failed writes, restarts and resets,
\* the executed task revisions strictly increase: none is executed twice.
\* Without a household section nothing is reserved (history.rs reserve), and
\* the code promises nothing of the kind.
THEOREM AlwaysOncePerRevision == Household => (Spec => []OncePerRevision)
<1> SUFFICES ASSUME Household PROVE Spec => []OncePerRevision
  OBVIOUS
<1>1. IInv => OncePerRevision
  BY DEF IInv, Told
<1>2. QED
  BY <1>1, Invariance, PTL

\* In a household, a motion that may be running is pending in the file, and the
\* file is not behind an acknowledged revision (main.rs checkpoint_first).
THEOREM AlwaysDurableFirst == Household => (Spec => []DurableFirst)
<1> SUFFICES ASSUME Household PROVE Spec => []DurableFirst
  OBVIOUS
<1>1. IInv => DurableFirst
  BY DEF IInv, Told
<1>2. QED
  BY <1>1, Invariance, PTL

\* Only a reply executes, it waited for the disk in a mode that lets motion out,
\* and no process is in such a mode unless a reset stands.
LEMMA MovesCleared == IInv /\ [Next]_vars => [executed' # executed => cleared]_vars
<1> SUFFICES ASSUME IInv, [Next]_vars, executed' # executed PROVE cleared
  OBVIOUS
<1>1. Reply
  BY DEF Next, Serve, Persist, PersistFails, Crash, TransportCloses, Close, CloseFails,
         Open, OpenFails, OperatorSet, TimePasses, vars
<1>2. step.arm = "execute" /\ proc \in {"reply", "emit"}
  BY <1>1 DEF Reply
<1>3. ~StopOnly(enf.mode)
  BY <1>2 DEF IInv, Staged
<1>4. QED
  BY <1>2, <1>3 DEF IInv, TypeOK, Written

\* After a mode that only allows stopping, and after an end without the clean
\* marker, nothing is executed until the operator has reset the mode: neither a
\* close nor a start in between lowers it (state.rs open, close and set).
THEOREM MotionAlwaysNeedsOperator == Spec => MotionNeedsOperator
<1>1. IInv /\ [Next]_vars => [executed' # executed => cleared]_vars
  BY MovesCleared
<1>2. QED
  BY <1>1, Invariance, PTL DEF Spec, MotionNeedsOperator

\* No write, however it fails, takes back a consumed or a blocked revision
\* (history.rs, state.rs write_atomic).
THEOREM DurableFloorsAlwaysGrow == Spec => DurableFloorsGrow
<1>1. IInv /\ [Next]_vars =>
        [ disk # None => /\ disk'.hist.floor >= disk.hist.floor
                         /\ disk'.hist.epoch >= disk.hist.epoch
                         /\ disk'.hist.blocked >= disk.hist.blocked ]_vars
  BY StepHolds DEF Grows, Above
<1>2. QED
  BY <1>1, Invariance, PTL DEF Spec, DurableFloorsGrow
=============================================================================
