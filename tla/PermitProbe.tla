----------------------------- MODULE PermitProbe -----------------------------
(***************************************************************************)
(* The rig that decides whether a controller refuses what it must refuse: the    *)
(* cases of ros/gazebo/controller_probes.py, judged by the rules of             *)
(* permit_attempts.py and public_report.py from nothing but the telemetry the   *)
(* controller publishes, on a machine that may stall anywhere.                 *)
(*                                                                         *)
(* Two clocks: now is the wall clock, sim the simulation clock of the           *)
(* controller, in updates of 10 ms.  The simulation may stall, MaxStall ticks   *)
(* in an attempt, and never outruns the wall clock.  The rig reads a view of    *)
(* sim that lags by 0 .. MaxLead, anew at every reading; what it signs bears    *)
(* an origin Backdate before that view.  That the lead is at most one update is *)
(* what public_report.py assumes and says is needed (lines 28-36); it is the     *)
(* last conjunct of PermitProbeAssumption.  Without it both parts of            *)
(* VerdictIsTrue fail as those lines say: a correct base is failed for a lapse   *)
(* that looks premature, and a lapse behind a refusal passes.                  *)
(*                                                                         *)
(* The controller under test is either correct or has one Defect.  Nothing is   *)
(* lost: a packet arrives within MaxDelay, far below the waits of one and two   *)
(* seconds, which therefore end only when a verdict never comes.  "altered"     *)
(* stands for unsigned, altered and target: all are refused as "binding".        *)
(* Measured drift is left out; holds are in.                                   *)
(***************************************************************************)
EXTENDS Integers, Sequences, FiniteSetsExt

CONSTANTS
  Targets, Cases, Defects,
  Window,      \* 50 ms: VERIFIER_WINDOW_NS
  Lease,       \* 200 ms: MAX_LEASE_NS
  Backdate,    \* 10 ms: SIM_ORDERING_BACKDATE_NS
  Allowance,   \* 20 ms: LAPSE_ALLOWANCE_NS
  HoldUpdates, \* HOLD_UPDATES
  Period,      \* of telemetry: 20 ms for the base, 50 ms for the arm
  MaxLead,     \* bound on the lead of the simulation over the rig's view of /clock
  MaxStall,    \* bound on the time the simulation stalls in one attempt
  MaxDelay     \* bound on the time a packet is under way

ASSUME PermitProbeAssumption ==
  /\ Targets \subseteq {"base", "arm"}
  /\ Cases \subseteq {"altered", "signature", "delay", "replay", "renewal", "positive"}
  /\ Defects \subseteq {"none", "admits", "unlatched", "restless", "hasty", "forgetful"}
  /\ {Window, Lease, Backdate, Allowance, HoldUpdates, MaxDelay} \subseteq Nat \ {0}
  /\ {MaxLead, MaxStall} \subseteq Nat
  /\ Period \in [Targets -> Nat \ {0}]
  /\ Backdate + MaxLead < Window /\ Window < Lease
  /\ Backdate + MaxLead <= Allowance

VARIABLES test, now, sim, ctl, rows, net, probe

vars == <<test, now, sim, ctl, rows, net, probe>>

None == [kind |-> "none"]

\* What a permit says (permit_fields), and what is wrong with it.
Permit(kind, simOrigin, wallOrigin, seq) ==
  [kind |-> kind, sim |-> simOrigin, wall |-> wallOrigin,
   simEnd |-> simOrigin + Lease, wallEnd |-> wallOrigin + Lease,
   seq |-> seq, flaw |-> "none"]

\* What the rig may read of the simulation clock at this moment.
Views == (sim - MaxLead) .. sim
Signed(kind, seq, view) == Permit(kind, view - Backdate, now, seq)
Kind == IF test.target = "base" THEN "command" ELSE "goal"

-----------------------------------------------------------------------------
(* The controller: permit.hpp, controller.cpp and base_controller.cpp, as far    *)
(* as its telemetry shows it.                                               *)

\* A reset that was signed at 0 on both clocks, and is admitted.
ResetGrants == {Permit("reset", view - Backdate, 0, 1) : view \in (-MaxLead) .. 0}
FreshController(grant) ==
  [grant |-> grant, locked |-> FALSE, reason |-> "accepted", acc |-> 1, rej |-> 0, seq |-> 1,
   holding |-> FALSE, stop |-> 0, cutoff |-> 0,
   due |-> FALSE,                        \* its telemetry is
   bad |-> "none", slipped |-> FALSE]    \* history: what became of the packet under test

\* Both ends of the lease are ahead, the simulation clock being at s.
Live(g, s) == now < g.wallEnd /\ s < g.simEnd

\* live_unlocked, at s on the simulation clock and w on the wall clock
Lapses(c, s, w) == ~c.locked /\ (s >= c.grant.simEnd \/ w >= c.grant.wallEnd)
Lived(c, s, w) ==
  IF Lapses(c, s, w) THEN [c EXCEPT !.locked = TRUE, !.grant = None, !.reason = "expired"] ELSE c

Locks(c, why) == [c EXCEPT !.locked = TRUE, !.grant = None, !.reason = why, !.rej = @ + 1]

\* accept: the first objection, in its order.
Objection(c, p) ==
  CASE p.flaw = "binding" -> "binding"
    [] p.flaw # "binding" /\ p.seq <= c.seq -> "sequence"
    [] p.flaw # "binding" /\ p.seq > c.seq /\
         (sim - p.sim >= Window \/ now - p.wall >= Window \/ p.simEnd <= sim \/ p.wallEnd <= now) -> "freshness"
    [] OTHER -> IF p.flaw = "signature" THEN "signature" ELSE IF c.locked THEN "locked" ELSE "none"

Admits(c, p) == [c EXCEPT !.acc = @ + 1, !.seq = p.seq, !.grant = p, !.locked = FALSE, !.reason = "accepted"]

\* The ingress of the arm's goals looks at the hold and the lease before the permit.
Accept(c0, p) ==
  LET c == Lived(c0, sim, now)
      why == IF p.kind = "goal" /\ (c.holding \/ c.locked) THEN "rejected" ELSE Objection(c, p)
  IN  IF why = "none" THEN Admits(c, p) ELSE Locks(c, why)

\* What one Defect makes of it.
Treat(c, p) ==
  LET right == Accept(c, p)
      refused == right.rej > c.rej
  IN  CASE test.defect = "admits" /\ refused -> Admits(c, p)
        [] test.defect = "forgetful" /\ refused /\ c.bad # "none" ->
          Accept([c EXCEPT !.locked = FALSE, !.grant = p, !.holding = FALSE], p)
        [] test.defect = "unlatched" /\ refused ->
          [right EXCEPT !.locked = Lived(c, sim, now).locked, !.grant = Lived(c, sim, now).grant]
        [] OTHER -> right

\* NEGATIVE_REASONS, RECOVERY_REASONS
Expected == [altered |-> "binding", signature |-> "signature", replay |-> "sequence",
             delay |-> "freshness", renewal |-> "freshness", positive |-> "none"]
RecoveryReason == IF test.target = "base" THEN "locked" ELSE "rejected"

\* History: the packet under test was refused by its own rule while the lease that
\* was admitted last still ran.
Judged(c, n, d) ==
  IF ~n.final THEN d
  ELSE [d EXCEPT !.bad = IF d.acc > c.acc THEN "admitted"
                         ELSE IF /\ d.rej = c.rej + 1 /\ Live(probe.chain[c.acc], sim)
                                 /\ d.reason = Expected[test.case]
                              THEN "refused" ELSE "other",
                 !.slipped = ~d.locked]

\* publish_guard_state
Row(c, s, w) == [pub |-> w, stamp |-> IF test.target = "arm" THEN s ELSE 0,
                 acc |-> c.acc, rej |-> c.rej, reason |-> c.reason,
                 holding |-> c.holding, stop |-> c.stop, cutoff |-> c.cutoff]

\* The arm tells of an admitted goal at once.
Arrives ==
  /\ net # None
  /\ LET c == Judged(ctl, net, Treat(ctl, net.packet))
     IN  /\ ctl' = c
         /\ rows' = IF net.packet.kind = "goal" /\ c.acc > ctl.acc THEN Append(rows, Row(c, sim, now)) ELSE rows
  /\ net' = None
  /\ UNCHANGED <<test, now, sim, probe>>

\* One defect acts by itself: a lease that ends early.
Misbehaves ==
  /\ test.defect = "hasty" /\ ctl # None /\ ~ctl.due /\ ~ctl.locked
  /\ ctl' = [ctl EXCEPT !.locked = TRUE, !.grant = None, !.reason = "expired"]
  /\ UNCHANGED <<test, now, sim, rows, net, probe>>

\* One update looks at the lease, and the arm holds at the first that finds it locked.
Updated(c0, s, w) ==
  LET c == Lived(c0, s, w)
  IN  IF test.target = "base" \/ test.defect = "restless" THEN c
      ELSE [c EXCEPT !.holding = c.locked,
                     !.stop = IF c.locked /\ ~c.holding THEN w ELSE @,
                     !.cutoff = IF c.locked /\ ~c.holding THEN s ELSE @]

\* To publish, the base looks at its lease; the arm tells what its last update saw.
Told == IF test.target = "arm" THEN ctl
        ELSE LET c == Lived(ctl, sim, now) IN [c EXCEPT !.holding = c.locked]
Publishes ==
  /\ ctl # None /\ ctl.due
  /\ ctl' = [Told EXCEPT !.due = FALSE]
  /\ rows' = Append(rows, Row(Told, sim, now))
  /\ UNCHANGED <<test, now, sim, net, probe>>

-----------------------------------------------------------------------------
(* permit_attempts.py.  A judgement is "none" while there is nothing to judge,   *)
(* "pending" while evidence is to come, "delay" (RunnerDelay) or "fail".         *)

Count == Len(rows)
LastRow == rows[Count]
From(since) == since .. Count      \* publication times are distinct: a time is a place in rows
First(S) == Min(S)

\* check_timely, require_fresh_witness; the rig sees the simulation clock at view
Timely(p, view) == view - p.sim < Window /\ now - p.wall < Window /\ now < p.wallEnd /\ view < p.simEnd
FreshWitness(pub) == now - pub < Window

\* stale_permit: both origins more than the window ago, both ends ahead.
Stale(kind, seq, view) == Permit(kind, view - (Window + 1), now - (Window + 1), seq)

\* hold_row and hold_evidence: the row that shows the hold, in time by the stamps
\* of the updates.
Holds(after) == {i \in 1 .. Count : rows[i].holding /\ rows[i].stop # 0 /\ rows[i].stop >= after}
HoldRow(after) == rows[First(Holds(after))]
HoldEvidence(i, after) ==
  LET limit == rows[i].stamp + HoldUpdates
  IN  IF Holds(after) # {}
        THEN IF HoldRow(after).cutoff > limit THEN "fail" ELSE "held"
        ELSE IF LastRow.stamp > limit THEN "fail" ELSE "pending"

\* A mutant: a hold never is.
HoldAtLeaseEndNever(held, g) == FALSE

\* hold_at_lease_end, one update of tolerance on the simulation clock
HoldAtLeaseEnd(held, g) == held.stop >= g.wallEnd \/ held.cutoff >= g.simEnd - 1

\* lapse_evidence: may the event of row i be the end of g?
Lapse(i, g, after) ==
  IF test.target = "base"
    THEN IF rows[i].pub >= g.wallEnd - Allowance THEN "delay" ELSE "fail"
    ELSE IF HoldEvidence(i, after) # "held" THEN HoldEvidence(i, after)
    ELSE IF HoldAtLeaseEnd(HoldRow(after), g) THEN "delay" ELSE "fail"

\* goal_window_evidence
GoalWindow(i, g, after) ==
  IF HoldEvidence(i, after) # "held" THEN HoldEvidence(i, after)
  ELSE IF HoldRow(after).cutoff >= g.sim + Window - 1 THEN "delay" ELSE "fail"

\* require_no_fail_closed, with first_fail_closed and GrantChain.admitted: the
\* first refusal or lock since a checkpoint, in a case that expects none.
LockReason(r, delta) ==
  \/ delta = 0 /\ r.reason = "expired"
  \/ delta = 1 /\ r.reason = "locked"
  \/ delta = 1 /\ r.reason = "rejected" /\ test.target = "arm"
FailClosed(since) == {i \in From(since) : rows[i].rej > 0 \/ rows[i].reason = "expired"}
NoFailClosed(since, after) ==
  LET i == First(FailClosed(since))
      r == rows[i]
      grant == probe.chain[r.acc]
  IN  IF FailClosed(since) = {} THEN "none"
      ELSE IF r.rej = 1 /\ r.reason = "freshness" THEN "delay"
      ELSE IF ~LockReason(r, r.rej) \/ r.acc \notin DOMAIN probe.chain THEN "fail"
      ELSE IF r.reason = "rejected" /\ grant.kind = "goal" THEN GoalWindow(i, grant, after)
      ELSE Lapse(i, grant, after)

\* negative_timing: what delay can put in place of the expected reason
Timing == (IF test.case = "signature" THEN {"freshness"} ELSE {})
            \cup (IF test.target = "arm" /\ test.case # "renewal" THEN {"rejected"} ELSE {})

\* refusal, one row, after the rows before it were passed over.
Found(w, expected, i) ==
  \E j \in From(w.since) : j < i /\ rows[j].rej = w.rej + 1 /\ rows[j].reason = expected
RefusalRow(w, expected, timing, g, after, i) ==
  LET r == rows[i]
      found == Found(w, expected, i)
  IN  IF r.acc # w.acc THEN "fail"
      ELSE IF ~found /\ r.rej <= w.rej
        THEN IF r.reason = "expired" /\ g # None THEN Lapse(i, g, after) ELSE "none"
      ELSE IF i <= w.sent \/ r.rej # w.rej + 1 THEN "fail"
      ELSE IF found \/ r.reason = expected THEN "none"
      ELSE IF r.reason \notin timing THEN "fail"
      ELSE IF r.reason = "freshness" THEN "delay" ELSE Lapse(i, g, after)

\* The refusal's own latch: a holding row that still shows its reason.
Latched(i) == {j \in i .. Count : rows[j].holding /\ rows[j].reason = rows[i].reason}

\* refusal: the verdict of all rows; "ok" once the refusal and its hold are seen.
Hits(w, expected) == {i \in From(w.since) : rows[i].rej = w.rej + 1 /\ rows[i].reason = expected}
Refusal(w, expected, timing, g, after) ==
  LET odd == {i \in From(w.since) : RefusalRow(w, expected, timing, g, after, i) # "none"}
      found == First(Hits(w, expected))
      e == HoldEvidence(found, after)
  IN  IF odd # {} THEN RefusalRow(w, expected, timing, g, after, First(odd))
      ELSE IF Hits(w, expected) = {} THEN "pending"
      ELSE IF test.target = "base" \/ g = None
        THEN IF Latched(found) = {} THEN "pending" ELSE "ok"
      ELSE IF e # "held" THEN e
      ELSE IF Latched(found) = {} THEN "pending"
      ELSE IF HoldAtLeaseEnd(HoldRow(after), g) THEN "delay" ELSE "ok"

\* require_refused_inside_lease, require_refused_inside_stale_window
InsideLease(row, g) == row.pub < g.wallEnd - (IF test.target = "base" THEN Allowance ELSE 0)
InsideStaleWindow(row) ==
  test.case \in {"delay", "renewal"} => row.pub < probe.packet.wallEnd - Allowance

\* refusal_hold: what the arm made of the packet, and when it held.
RefusalHold ==
  LET refused == {i \in From(probe.w.sent + 1) : rows[i].rej > probe.w.rej}
  IN  IF refused = {} THEN "pending" ELSE HoldEvidence(First(refused), probe.after)

\* arm_hold: the arm has counted the packet and holds; the base has nothing to show.
ArmHold == IF test.target = "base" \/ RefusalHold = "held" THEN "delay" ELSE RefusalHold

\* late_stop_verdict: the hold is not older than the renewal it answers.
LateStop(held) == held.stop > probe.w.at

\* require_counted: a valid goal is counted, and refused at most for its age or
\* for the end of a lease.
Counted ==
  IF test.target = "base" THEN "delay"
  ELSE IF LastRow.rej > 0
    THEN IF LastRow.reason \in {"freshness", "rejected", "locked"} THEN "delay" ELSE "fail"
  ELSE IF LastRow.acc > 1 THEN "delay" ELSE "pending"

\* reset_lease_events: until the packet leaves, only time has passed.
ResetLeaseEvents ==
  IF LastRow.acc # 1 \/ LastRow.rej # 0 \/ LastRow.reason \notin {"accepted", "expired"} THEN "fail"
  ELSE NoFailClosed(1, rows[1].pub)

-----------------------------------------------------------------------------
(* controller_probes.py: one attempt.                                        *)

\* Every wait is longer than a correct controller needs.
Wait == MaxDelay + MaxStall + HoldUpdates + Period[test.target] + 1
Dawdle == Lease
Chained == test.case \in {"replay", "renewal", "positive"}

Ended == {"passed", "failed", "delayed", "exhausted"}

\* An attempt from the start; of one that has ended only the verdict counts.
Start ==
  [pc |-> "reset", by |-> 0, chain |-> <<>>, packet |-> None,
   w |-> None, after |-> 0, since |-> 0, row |-> FALSE]

Goes(pc) ==
  probe' = IF pc \in Ended THEN [Start EXCEPT !.pc = pc, !.chain = probe.chain]
           ELSE [probe EXCEPT !.pc = pc, !.by = now + Wait]

\* What a judgement does to the attempt.  A delay first passes through the checks
\* that a packet which has left calls for.
Verdict(v, next) ==
  CASE v = "fail" -> Goes("failed")
    [] v = "delay" -> Goes(next)
    [] v = "pending" -> now >= probe.by /\ Goes("failed")   \* TimeoutError

\* reset: the first row shows the controller unlocked.
Reset ==
  /\ probe.pc = "reset"
  /\ \E grant \in ResetGrants, at \in 1 .. Period[test.target] :
       /\ now' = at /\ sim' = at
       /\ ctl' = FreshController(grant)
       /\ rows' = <<Row(FreshController(grant), at, at)>>
       /\ probe' = [Start EXCEPT !.pc = "build", !.by = at + Dawdle, !.chain = <<grant>>,
                                 !.since = 1, !.after = at]
  /\ net' = None
  /\ UNCHANGED test

\* What a case does to a good packet.
Flaw == IF test.case = "altered" THEN "binding"
        ELSE IF test.case = "signature" THEN "signature" ELSE "none"

\* approve and the packet of the case; the first of a chain is a good one.
Build ==
  /\ probe.pc = "build"
  /\ LET kind == IF Len(probe.chain) > 1 /\ test.target = "arm" THEN "lease" ELSE Kind
     IN  \E view \in Views :
           probe' = [probe EXCEPT !.packet = [Signed(kind, Len(probe.chain) + 1, view) EXCEPT !.flaw = Flaw],
                       !.pc = IF test.case \in {"renewal", "positive"} THEN "send" ELSE "witness"]
  /\ UNCHANGED <<test, now, sim, ctl, rows, net>>

\* The controller as it is before the packet: live, unlocked, just seen.
Witness == [since |-> Count, acc |-> LastRow.acc, rej |-> LastRow.rej, sent |-> 0, at |-> 0]
LiveReset(view) ==
  /\ LastRow.acc = 1 /\ LastRow.rej = 0 /\ LastRow.reason = "accepted"
  /\ ~LastRow.holding /\ FreshWitness(LastRow.pub) /\ Live(probe.chain[1], view)
Look ==
  /\ probe.pc = "witness"
  /\ \E view \in Views :
       IF LiveReset(view)
         THEN probe' = [probe EXCEPT !.pc = "send", !.w = Witness, !.after = LastRow.pub]
         ELSE Goes("settle")     \* precondition_miss
  /\ UNCHANGED <<test, now, sim, ctl, rows, net>>

\* A slow approval, before anything was sent (feed, budget, approve).
Stall ==
  /\ probe.pc \in {"build", "send"} /\ Goes("settle")
  /\ UNCHANGED <<test, now, sim, ctl, rows, net>>

Leaves(p, final) == net' = [kind |-> "packet", packet |-> p, sent |-> now, final |-> final]

\* The last checks, and the packet is gone.
SendFirst ==
  /\ probe.pc = "send"
  /\ \E view \in Views :
     LET last == probe.chain[Len(probe.chain)]
         p == IF test.case = "delay" THEN Stale(Kind, 2, view) ELSE probe.packet
         witnessed == test.case \in {"renewal", "positive"} \/ FreshWitness(probe.after)
         timely == test.case \in {"signature"} \/ Chained => Timely(p, view)
     IN  IF witnessed /\ timely /\ Live(last, view)
           THEN /\ Leaves(p, ~Chained)
                /\ probe' = [probe EXCEPT !.packet = p, !.by = now + Wait,
                               !.pc = IF Chained THEN "admit" ELSE "judge",
                               !.chain = IF Chained THEN Append(@, p) ELSE @,
                               !.since = IF test.case = "replay" THEN Count + 1 ELSE @,
                               !.w = IF test.case \in {"renewal", "positive"}
                                       THEN [since |-> Count, acc |-> Len(probe.chain), rej |-> 0,
                                             sent |-> Count, at |-> now]
                                       ELSE [@ EXCEPT !.sent = Count, !.at = now]]
           ELSE Goes("settle") /\ UNCHANGED net
  /\ UNCHANGED <<test, now, sim, ctl, rows>>

\* fail_closed_settled: the delay leaves after the first event is judged.
Events == IF (Chained /\ Len(probe.chain) > 1) \/ test.case \in {"renewal", "positive"}
            THEN NoFailClosed(probe.since, probe.after) ELSE ResetLeaseEvents

Settled == IF Events = "none" THEN "delay" ELSE Events

Settle ==
  /\ probe.pc = "settle"
  /\ Verdict(Settled, "delayed")
  /\ UNCHANGED <<test, now, sim, ctl, rows, net>>

\* The first of a chain: admitted, or what explains that it is not.
Admitted ==
  /\ Count > probe.w.sent /\ LastRow.acc = probe.w.acc + 1 /\ LastRow.rej = 0
  /\ LastRow.reason = "accepted" /\ ~LastRow.holding
\* base_positive and arm_positive: one packet after the other, each counted
\* before the next is sent; of those counted only the last still governs.
Positive ==
  IF Len(probe.chain) = 3 THEN Goes("passed")
  ELSE probe' = [probe EXCEPT !.pc = "build", !.chain[1] = probe.packet]

\* late_renewal: the arm moves under the goal, which is live.
MovingUnderGoal ==
  /\ FreshWitness(LastRow.pub) /\ \E view \in Views : Live(probe.packet, view)
  /\ probe' = [probe EXCEPT !.pc = "again", !.w = Witness, !.after = LastRow.pub]

AwaitAdmission ==
  /\ probe.pc = "admit"
  /\ LET v == NoFailClosed(probe.since, probe.after)
     IN  IF v # "none" THEN Verdict(v, IF test.case = "renewal" THEN "goal" ELSE "count")
         ELSE IF Admitted
           THEN CASE test.case = "positive" -> Positive
                  [] test.case = "replay" -> probe' = [probe EXCEPT !.pc = "again"]
                  [] test.case = "renewal" -> MovingUnderGoal
         ELSE now >= probe.by /\ Goes("failed")
  /\ UNCHANGED <<test, now, sim, ctl, rows, net>>

\* late_renewal's wait of 200 ms for a moving arm may end first.
MissMotion ==
  /\ test.case = "renewal" /\ probe.pc = "admit" /\ now > probe.w.at
  /\ Goes("goal")
  /\ UNCHANGED <<test, now, sim, ctl, rows, net>>

\* goal_counted, and goal_judged of the late renewal
GoalJudged ==
  IF Counted # "delay" THEN Counted ELSE IF LastRow.acc \notin {1, 2} THEN "fail" ELSE Settled

AwaitCount ==
  /\ probe.pc \in {"count", "goal"}
  /\ Verdict(IF probe.pc = "goal" THEN GoalJudged ELSE Counted, "delayed")
  /\ UNCHANGED <<test, now, sim, ctl, rows, net>>

LateRenewal(view) == Stale("lease", 3, view)

\* The duplicate, or the late renewal, while the first is live.
SendAgain ==
  /\ probe.pc = "again"
  /\ \E view \in Views :
     LET w == IF test.case = "replay" THEN Witness ELSE probe.w
         seen == rows[w.since].pub
         first == probe.chain[2]
         p == IF test.case = "replay" THEN probe.packet ELSE LateRenewal(view)
     IN  IF test.case = "replay" /\ LastRow.holding
           THEN UNCHANGED net /\ IF Events = "none" THEN Goes("failed") ELSE Verdict(Events, "delayed")
         ELSE IF FreshWitness(seen) /\ Live(first, view)
           THEN /\ Leaves(p, TRUE)
                /\ probe' = [probe EXCEPT !.packet = p, !.pc = "judge", !.by = now + Wait,
                               !.w = [w EXCEPT !.sent = Count, !.at = now], !.after = seen]
           ELSE Goes("settle") /\ UNCHANGED net
  /\ UNCHANGED <<test, now, sim, ctl, rows>>

Governing == IF Chained THEN probe.chain[2] ELSE probe.chain[1]

(* public_report.py: the recorded row is judged once more, by the rules of the   *)
(* published report.                                                        *)

\* negative_permit_rejected: the case's own reason, between fresh telemetry and
\* the end of the lease.
NegativePermitRejected(x) ==
  LET before == rows[x.w.since]
  IN  /\ ~before.holding /\ before.reason = "accepted"
      /\ x.refused.reason = Expected[test.case]
      /\ x.refused.acc = x.w.acc /\ x.refused.rej = x.w.rej + 1
      /\ before.pub <= x.w.at /\ x.w.at - before.pub < Window
      /\ x.w.at <= x.refused.pub /\ x.refused.pub < Governing.wallEnd

\* replay_admitted_then_rejected
ReplayAdmittedThenRejected(x) ==
  \E i \in 1 .. x.w.since :
    /\ rows[i].reason = "accepted" /\ rows[i].rej = 0 /\ x.refused.rej > rows[i].rej
    /\ rows[i].acc = 2 /\ x.refused.acc = rows[i].acc
    /\ x.packet = probe.chain[2] /\ rows[i].pub <= x.w.at

\* stale_permit_refused_in_window
StalePermitRefusedInWindow(x) ==
  x.w.at - x.packet.wall >= Window /\ x.refused.pub < x.packet.wallEnd - Allowance

ArmHoldPrompt(x) == x.held.cutoff <= x.refused.stamp + HoldUpdates

\* late_renewal_witnessed: held after the renewal, before either end of the goal.
LateRenewalWitnessed(x) ==
  x.w.at <= x.held.stop /\ x.held.stop < Governing.wallEnd /\ x.held.cutoff < Governing.simEnd - 1

NegativeRowPassed(x) ==
  /\ NegativePermitRejected(x) /\ InsideLease(x.refused, Governing)
  /\ test.case = "replay" => ReplayAdmittedThenRejected(x)
  /\ test.case \in {"delay", "renewal"} => StalePermitRefusedInWindow(x)
  /\ test.target = "arm" => ArmHoldPrompt(x)
  /\ test.case = "renewal" => LateRenewalWitnessed(x)

Refused == Refusal(probe.w, Expected[test.case], Timing, Governing, probe.after)

\* The refusal, where it lies in the lease and in the window, and where the hold.
\* What the report will say of the recorded row is fixed here, so the rows that
\* led to it are no longer needed.
Judge ==
  /\ probe.pc = "judge"
  /\ LET v == Refused
         row == rows[First(Hits(probe.w, Expected[test.case]))]
         held == IF test.target = "arm" THEN HoldRow(probe.after) ELSE None
     IN  IF v # "ok" THEN Verdict(v, "motion")
         ELSE IF ~InsideLease(row, Governing) \/ ~InsideStaleWindow(row) THEN Goes("motion")
         ELSE IF test.case = "renewal" /\ ~LateStop(held) THEN Goes("failed")
         ELSE probe' = [Start EXCEPT !.pc = "recover", !.by = now + Window + 1, !.since = 1,
                          !.row = NegativeRowPassed([w |-> probe.w, refused |-> row,
                                                     packet |-> probe.packet, held |-> held])]
  /\ rows' = IF probe'.pc = "recover" THEN <<LastRow>> ELSE rows
  /\ UNCHANGED <<test, now, sim, ctl, net>>

\* motion_checked: an inconclusive refusal still needs the arm's count and hold.
CheckMotion ==
  /\ probe.pc = "motion"
  /\ Verdict(ArmHold, "delayed")
  /\ UNCHANGED <<test, now, sim, ctl, rows, net>>

\* recover: a good new packet does not open a latched controller.
StillLatched ==
  \A i \in From(probe.since) :
    rows[i].holding /\ rows[i].acc = LastRow.acc /\ rows[i].rej = LastRow.rej
BuildRecovery ==
  /\ probe.pc = "recover"
  /\ \/ \E view \in Views :
          probe' = [probe EXCEPT !.pc = "resend", !.packet = Signed(Kind, 4, view)]
     \/ Goes(IF StillLatched THEN "delayed" ELSE "failed")
  /\ UNCHANGED <<test, now, sim, ctl, rows, net>>

SendRecovery ==
  /\ probe.pc = "resend"
  /\ \E view \in Views :
       IF test.target = "base" /\ ~Timely(probe.packet, view)
       THEN Goes(IF StillLatched THEN "delayed" ELSE "failed") /\ UNCHANGED net
       ELSE /\ Leaves(probe.packet, FALSE)
            /\ probe' = [probe EXCEPT !.pc = "rejudge", !.by = now + Wait,
                           !.w = [since |-> Count + 1, acc |-> LastRow.acc, rej |-> LastRow.rej,
                                   sent |-> Count, at |-> now]]
  /\ UNCHANGED <<test, now, sim, ctl, rows>>

RecoveryRefused ==
  Refusal(probe.w, RecoveryReason, IF test.target = "base" THEN {"freshness"} ELSE {}, None, 0)

\* The recovery is refused; then require_report_row.
JudgeRecovery ==
  /\ probe.pc = "rejudge"
  /\ LET v == RecoveryRefused
     IN  IF v = "pending" THEN Verdict(v, "failed")
         ELSE IF v = "fail" \/ ~LastRow.holding \/ LastRow.acc # probe.w.acc THEN Goes("failed")
         ELSE IF v # "ok" THEN Goes("delayed")
         ELSE Goes(IF probe.row THEN "passed" ELSE "failed")
  /\ UNCHANGED <<test, now, sim, ctl, rows, net>>

\* Time passes while the rig waits or dawdles, within its bound.  A judgement that
\* waits for evidence is passed as soon as the evidence is there: later rows do
\* not change it.
Judgement ==
  CASE probe.pc = "settle"  -> Settled
    [] probe.pc = "count"   -> Counted
    [] probe.pc = "goal"    -> GoalJudged
    [] probe.pc = "motion"  -> ArmHold
    [] probe.pc = "judge"   -> Refused
    [] probe.pc = "rejudge" -> RecoveryRefused
    [] OTHER -> "pending"
Deciding ==
  /\ probe.pc \notin Ended \cup {"reset"}
  /\ now < probe.by
  /\ Judgement = "pending"

\* The wall clock goes on, the simulation with it or not: updates are of the
\* simulation, telemetry is sent by a wall timer, before or after what else
\* happens in its tick.
Tick ==
  /\ Deciding
  /\ net # None => now - net.sent < MaxDelay
  /\ ~ctl.due
  /\ now' = now + 1
  /\ \/ sim' = sim + 1
     \/ now - sim < MaxStall /\ sim' = sim
  /\ LET c == IF sim' = sim THEN ctl ELSE Updated(ctl, sim', now')
     IN  ctl' = [c EXCEPT !.due = (now' - rows[1].pub) % Period[test.target] = 0]
  /\ UNCHANGED <<test, rows, net, probe>>

\* bounded_attempts: only a delay is tried again, from a fresh reset, some
\* number of times.
Retry ==
  /\ probe.pc = "delayed"
  /\ probe' \in {Start, [Start EXCEPT !.pc = "exhausted"]}
  /\ now' = 0 /\ sim' = 0 /\ ctl' = None /\ rows' = <<>> /\ net' = None
  /\ UNCHANGED test

Init ==
  /\ test \in {t \in [target : Targets, case : Cases, defect : Defects] :
                /\ t.case = "renewal" => t.target = "arm"
                /\ t.case = "positive" => t.defect = "none"
                /\ t.defect = "restless" => t.target = "arm"}
  /\ now = 0 /\ sim = 0 /\ ctl = None /\ rows = <<>> /\ net = None
  /\ probe = Start

\* The rig acts in a tick once its telemetry is sent: to act before is to act at
\* the end of the tick before.
Rig ==
  \/ Build \/ Look \/ Stall \/ SendFirst \/ Settle
  \/ AwaitAdmission \/ MissMotion \/ AwaitCount \/ SendAgain
  \/ Judge \/ CheckMotion \/ BuildRecovery \/ SendRecovery \/ JudgeRecovery

Next ==
  \/ Tick \/ Publishes \/ Arrives \/ Misbehaves
  \/ Reset \/ Retry
  \/ ctl # None /\ ~ctl.due /\ Rig

Spec == Init /\ [][Next]_vars

-----------------------------------------------------------------------------
\* A case passes only if the controller refused the packet for the case's own
\* reason while its lease was live, and has kept its lock ever since: no end of a
\* lease, no other refusal and no late telemetry can stand in for it
\* (permit_attempts.py refusal, public_report.py negative_row_passed).  A positive
\* case passes only on the admission of every packet it sent.
PassIsProof ==
  probe.pc = "passed" =>
    IF test.case = "positive" THEN ctl.acc = Len(probe.chain) /\ ctl.rej = 0
    ELSE ctl.bad = "refused" /\ ctl.locked /\ ~ctl.slipped

\* However machine and simulation stall, a correct controller is never failed: the
\* attempt is inconclusive at worst (permit_attempts.py, module docstring).
DelayNeverFails == test.defect = "none" => probe.pc # "failed"

\* What the rig says of a controller is so.
VerdictIsTrue == PassIsProof /\ DelayNeverFails
=============================================================================
