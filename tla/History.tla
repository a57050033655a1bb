------------------------------- MODULE History -------------------------------
(***************************************************************************)
(* The durable motion history of haetae-enforce (history.rs): which task    *)
(* steps have been consumed, the motion whose stop is still unresolved, and *)
(* the observation floor.  The module has no variables: a history is a      *)
(* record, and every operator is one method of the Rust type, a function    *)
(* from a history to a history.                                             *)
(*                                                                         *)
(* Abstractions.  The three monotone counters of a semantic scene           *)
(* (revision, task_revision, observed_ms) are one, the task revision; 0     *)
(* stands for "no scene".  Object facts (items, containers, region kinds)   *)
(* and the pins are left out.  A map that lacks a key holds None there, and *)
(* stopped_ms is kept as a flag.                                            *)
(***************************************************************************)
EXTENDS Integers, FiniteSets

CONSTANTS
  StepKey,          \* the keys "task/step" a scene can name
  MaxSteps,         \* MAX_STEPS: consumed steps kept per task epoch
  MaxDuration,      \* longest trajectory a checkpoint may hold (1000 ms)
  WorldMaxAge,      \* policy.freshness.world_max_age_ms
  HouseholdMaxAge,  \* MAX_AGE_MS: the fixed 200 ms cap of the household code
  None              \* an absent value

ASSUME HistoryAssumption ==
  /\ MaxSteps \in Nat \ {0}
  /\ MaxDuration \in Nat
  /\ WorldMaxAge \in Nat
  /\ HouseholdMaxAge \in Nat
  /\ None \notin StepKey

MotionOutcome == {"Reserved", "AwaitingStop", "MotionSettled", "Interrupted"}

MotionRecord ==
  [rev : Nat, started : Nat, end : Nat, outcome : MotionOutcome, stopped : BOOLEAN]

ASSUME NoneAssumption == None \notin MotionRecord

HistoryState ==
  [floor : Nat, floorStep : StepKey \cup {None}, epoch : Nat,
   steps : [StepKey -> MotionRecord \cup {None}], pending : StepKey \cup {None},
   blocked : Nat, settleStamp : Nat, settleSamples : Nat]

\* History::new
NewHistory ==
  [floor |-> 0, floorStep |-> None, epoch |-> 0, steps |-> [k \in StepKey |-> None],
   pending |-> None, blocked |-> 0, settleStamp |-> 0, settleSamples |-> 0]

Consumed(h) == {k \in StepKey : h.steps[k] # None}

Larger(a, b) == IF a >= b THEN a ELSE b

Smaller(a, b) == IF a <= b THEN a ELSE b

\* An unfinished record: one whose stop has not been measured.
Unresolved(r) ==
  \/ r.outcome \in {"Reserved", "AwaitingStop"}
  \/ r.outcome = "Interrupted" /\ ~r.stopped

\* History::validate: the test a checkpoint must pass before a process opens it.
Validate(h) ==
  /\ Cardinality(Consumed(h)) <= MaxSteps
  /\ h.pending # None => h.pending \in Consumed(h)
  /\ h.epoch <= h.floor
  /\ h.blocked <= h.floor
  /\ h.floor = 0 => Consumed(h) = {}
  /\ \A k \in Consumed(h) :
       /\ h.steps[k].rev = h.epoch
       /\ h.steps[k].started <= h.steps[k].end
       /\ h.steps[k].end - h.steps[k].started <= MaxDuration
       /\ Unresolved(h.steps[k]) => h.pending = k
       /\ h.steps[k].outcome = "MotionSettled" => h.steps[k].stopped
       /\ h.pending = k => ~h.steps[k].stopped

\* History::interrupt
Interrupt(h) ==
  IF h.pending = None
    THEN h
    ELSE [h EXCEPT !.steps[h.pending].outcome = "Interrupted",
                   !.blocked = Larger(@, h.steps[h.pending].rev),
                   !.settleSamples = 0]

\* History::restart
Restart(h) == [Interrupt(h) EXCEPT !.settleStamp = 0, !.settleSamples = 0]

\* A mutant: a motion that ran to its end is no longer pending.
RetireForgets(h, expectedExpiry) ==
  IF ~expectedExpiry \/ h.pending = None
    THEN Interrupt(h)
    ELSE [h EXCEPT !.steps[h.pending].outcome = "AwaitingStop", !.pending = None,
                   !.settleStamp = 0, !.settleSamples = 0]

\* History::retire
Retire(h, expectedExpiry) ==
  IF ~expectedExpiry \/ h.pending = None
    THEN Interrupt(h)
    ELSE [h EXCEPT !.steps[h.pending].outcome = "AwaitingStop",
                   !.settleStamp = 0, !.settleSamples = 0]

\* History::check_world, without the checks on object facts.
WorldAllowed(h, w) ==
  w.rev = 0 \/ (w.rev >= h.floor /\ (w.rev = h.floor => w.step = h.floorStep))

\* History::observe, the observation floor.
Observe(h, w) ==
  IF w.rev = 0 THEN h ELSE [h EXCEPT !.floor = w.rev, !.floorStep = w.step]

\* History::check_admission for a proposal bound to step k of task revision rev.
AdmissionAllowed(h, rev, k) ==
  /\ h.pending = None
  /\ rev >= h.epoch
  /\ rev > h.blocked
  /\ rev = h.epoch => k \notin Consumed(h) /\ Cardinality(Consumed(h)) < MaxSteps

\* History::reserve.  A newer task revision retires the steps of the old one.
Reserve(h, rev, k, start, len) ==
  LET kept == IF rev > h.epoch THEN [j \in StepKey |-> None] ELSE h.steps
  IN  [h EXCEPT !.steps = [kept EXCEPT ![k] =
                             [rev |-> rev, started |-> start, end |-> start + len,
                              outcome |-> "Reserved", stopped |-> FALSE]],
                !.epoch = Larger(@, rev),
                !.pending = k, !.settleSamples = 0, !.settleStamp = 0]

\* The evidence observe_stop demands of one world: trusted, fresh, advancing.
StopEvidence(h, w, now) ==
  /\ w.rev # 0 /\ w.scene # "poor" /\ w.joints # "none"
  /\ w.stamp <= now /\ now - w.stamp <= Smaller(WorldMaxAge, HouseholdMaxAge)
  /\ w.stamp > h.steps[h.pending].started
  /\ w.stamp > h.settleStamp

\* History::observe_stop
ObserveStop(h, w, now, cancelling) ==
  LET r       == h.steps[h.pending]
      counted == [h EXCEPT !.settleStamp = w.stamp, !.settleSamples = @ + 1]
      reached == /\ r.outcome = "AwaitingStop"
                 /\ w.stamp >= r.end /\ w.rev = r.rev /\ w.step = h.pending
                 /\ w.joints = "goal"
      final   == [r EXCEPT !.outcome = IF reached THEN "MotionSettled" ELSE "Interrupted",
                           !.stopped = TRUE]
  IN  IF h.pending = None THEN h
      ELSE IF r.outcome = "Reserved" \/ cancelling THEN h
      ELSE IF ~StopEvidence(h, w, now) THEN [h EXCEPT !.settleSamples = 0]
      ELSE IF w.joints \notin {"rest", "goal"}
        THEN [h EXCEPT !.settleStamp = w.stamp, !.settleSamples = 0]
      ELSE IF counted.settleSamples < 2 THEN counted
      ELSE [counted EXCEPT !.steps[h.pending] = final,
                           !.blocked = IF reached THEN @ ELSE Larger(@, r.rev),
                           !.pending = None]
=============================================================================
