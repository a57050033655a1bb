------------------------------ MODULE ArmFault ------------------------------
(***************************************************************************)
(* The arm fault sessions of the Gazebo rig (ros/gazebo/run_reference.py)  *)
(* under process isolation.  A session activates the controllers afresh,   *)
(* starts a new gate, arms it with at most two OFF requests, dispatches    *)
(* one arm goal and then breaks the gate while the arm moves, to see that  *)
(* the arm's controller stops by itself.                                   *)
(*                                                                         *)
(* An OFF travels rig -> pipe -> source -> DDS -> gate; the source counts  *)
(* it durably before it publishes.  The rig learns of it from three topics *)
(* whose deliveries are not ordered with each other: outcomes, states and  *)
(* the controller's reports.                                               *)
(***************************************************************************)
EXTENDS Integers, Sequences, FiniteSets, SequencesExt

CONSTANTS Cases,      \* the sessions, a sequence over {"kill", "stall", "delay"}
          MaxTokens   \* a bound on the tokens one gate signs

ASSUME ArmFaultAssumption ==
  /\ Cases \in Seq({"kill", "stall", "delay"}) /\ Cases # <<>>
  /\ MaxTokens \in Nat

VARIABLES rig,         \* where the test is, its attempt and the id it expects
          pipe,        \* proposals the rig wrote and the source has not parsed
          counter,     \* the source's durable VLA counter
          dds,         \* the one proposal the gate's reader holds
          armGate,     \* the gate and its engine
          outcomes,    \* outcomes on their way to the rig
          sample,      \* the state on its way to the rig
          report,      \* the arm controller's report on its way to the rig
          seen,        \* what the rig's subscriptions hold
          beat, goal,  \* the tokens on the heartbeat and the goal route
          controller   \* the arm's controller

armVars == <<rig, pipe, counter, dds, armGate, outcomes, sample, report, seen, beat, goal,
             controller>>

None == [kind |-> "none"]
Unseen == [decision |-> None, state |-> None, after |-> FALSE, guard |-> None]

\* A controller activated for session n: locked, nothing accepted.
Activated(n) == [nonce |-> n, seq |-> 0, holding |-> TRUE, executing |-> FALSE,
                 admitted |-> FALSE, leased |-> FALSE, held |-> "activation"]

NoGate == [up |-> "none", matched |-> FALSE, world |-> FALSE, armed |-> FALSE,
           active |-> FALSE, seq |-> 0, nonce |-> 0]

ArmInit ==
  /\ rig = [phase |-> "reset", session |-> 1, attempt |-> 0, id |-> 0]
  /\ pipe = <<>> /\ counter = 0 /\ dds = <<>>
  /\ armGate = NoGate
  /\ outcomes = <<>> /\ sample = None /\ report = None /\ seen = Unseen
  /\ beat = None /\ goal = None
  /\ controller = Activated(0)

Case == Cases[rig.session]

-----------------------------------------------------------------------------
(* The source and DDS. *)

\* A parsed proposal takes the next number before it is published.  A volatile
\* writer that has not discovered the new reader loses the message; the reader
\* keeps the last one only.
SourceParses ==
  /\ pipe # <<>>
  /\ counter' = counter + 1
  /\ pipe' = Tail(pipe)
  /\ LET p == Head(pipe)
     IN  dds' \in {<<[kind |-> p.kind, attempt |-> p.attempt, id |-> counter + 1]>>}
                   \cup (IF armGate.matched THEN {} ELSE {dds})
  /\ UNCHANGED <<rig, armGate, outcomes, sample, report, seen, beat, goal, controller>>

\* Until the writer has found it the reader gets nothing for certain.
WriterMatches ==
  /\ armGate.up = "running" /\ ~armGate.matched
  /\ armGate' = [armGate EXCEPT !.matched = TRUE]
  /\ UNCHANGED <<rig, pipe, counter, dds, outcomes, sample, report, seen, beat, goal, controller>>

-----------------------------------------------------------------------------
(* The gate with its engine. *)

Running == armGate.up = "running"
Status == [kind |-> "state", armed |-> armGate'.armed, active |-> armGate'.active, world |-> armGate'.world]

Token(kind) == [kind |-> kind, seq |-> armGate.seq + 1, nonce |-> armGate.nonce]
CanSign == armGate.seq < MaxTokens

\* A proposal reaches the engine.  OFF stops, arms its source and has the
\* controller reset; an arm goal needs an armed source and no other goal.
GateDecides ==
  /\ Running /\ dds # <<>> /\ CanSign
  /\ LET p == Head(dds)
         off == p.kind = "off" /\ armGate.world
         go == p.kind = "arm" /\ armGate.armed /\ ~armGate.active
     IN  /\ armGate' = [armGate EXCEPT !.armed = @ \/ off, !.active = go \/ (@ /\ ~off),
                                 !.seq = IF off \/ go THEN @ + 1 ELSE @]
         /\ outcomes' = Append(outcomes,
              [kind |-> IF off \/ go THEN "decision" ELSE "rejected",
               stop |-> off, id |-> p.id, attempt |-> p.attempt])
         /\ beat' = IF off THEN Token("reset") ELSE beat
         /\ goal' = IF go THEN Token("goal") ELSE goal
  /\ dds' = <<>>
  /\ sample' = Status
  /\ UNCHANGED <<rig, pipe, counter, report, seen, controller>>

\* A world or a tick: the state is published, and a lease unless a goal was
\* sent that the controller has not been heard to admit.
GateTicks ==
  /\ Running /\ CanSign
  /\ LET renews == armGate.armed /\ (armGate.active => controller.admitted)
     IN  /\ armGate' = [armGate EXCEPT !.world = TRUE, !.seq = IF renews THEN @ + 1 ELSE @]
         /\ beat' = IF renews THEN Token("lease") ELSE beat
  /\ sample' = Status
  /\ UNCHANGED <<rig, pipe, counter, dds, outcomes, report, seen, goal, controller>>

\* The engine revokes: disarmed, its goal cancelled with a signed stop.
GateRevokes ==
  /\ Running /\ armGate.armed /\ CanSign
  /\ armGate' = [armGate EXCEPT !.armed = FALSE, !.active = FALSE, !.seq = @ + 1]
  /\ beat' = Token("stop")
  /\ sample' = Status
  /\ UNCHANGED <<rig, pipe, counter, dds, outcomes, report, seen, goal, controller>>

\* The bridge gives up on an engine that does not answer.  Its 500 ms are more
\* than any lease lasts, so the controller holds by then.
GateAborts ==
  /\ armGate.up = "stalled" /\ controller.holding
  /\ armGate' = [armGate EXCEPT !.up = "dead"]
  /\ beat' = Token("stop")
  /\ UNCHANGED <<rig, pipe, counter, dds, outcomes, sample, report, seen, goal, controller>>

-----------------------------------------------------------------------------
(* The arm's controller. *)

Held == [controller EXCEPT !.holding = TRUE, !.executing = FALSE,
           !.held = IF controller.holding THEN @
                    ELSE IF rig.phase \in {"faulted", "held", "resumed"} THEN "after" ELSE "before"]

\* A token binds to one activation and is used in order.
Acceptable(t) == t.nonce = controller.nonce /\ t.seq > controller.seq

\* A refused token locks, whatever it was.
Accepts(t) ==
  LET c == [controller EXCEPT !.seq = t.seq]
  IN  IF ~Acceptable(t) \/ (controller.holding /\ t.kind \in {"lease", "goal"})
        THEN Held
        ELSE CASE t.kind = "stop"  -> [Held EXCEPT !.seq = t.seq]
               [] t.kind = "reset" -> [c EXCEPT !.holding = FALSE, !.executing = FALSE,
                                                !.admitted = FALSE, !.leased = FALSE]
               [] t.kind = "lease" -> [c EXCEPT !.leased = TRUE]
               [] t.kind = "goal"  -> [c EXCEPT !.executing = TRUE, !.admitted = TRUE]

ControllerBeat ==
  /\ beat # None
  /\ controller' = Accepts(beat)
  /\ beat' = None
  /\ UNCHANGED <<rig, pipe, counter, dds, armGate, outcomes, sample, report, seen, goal>>

ControllerGoal ==
  /\ goal # None
  /\ controller' = Accepts(goal)
  /\ goal' = None
  /\ UNCHANGED <<rig, pipe, counter, dds, armGate, outcomes, sample, report, seen, beat>>

\* The lease runs out: a heartbeat was lost or late, or nobody sends any.
ControllerExpires ==
  /\ ~controller.holding
  /\ controller' = Held
  /\ UNCHANGED <<rig, pipe, counter, dds, armGate, outcomes, sample, report, seen, beat, goal>>

ControllerReports ==
  /\ report' = [kind |-> "guard", nonce |-> controller.nonce, seq |-> controller.seq,
                holding |-> controller.holding, executing |-> controller.executing,
                admitted |-> controller.admitted, leased |-> controller.leased,
                held |-> controller.held]
  /\ report # report'
  /\ UNCHANGED <<rig, pipe, counter, dds, armGate, outcomes, sample, seen, beat, goal, controller>>

-----------------------------------------------------------------------------
(* The rig's subscriptions. *)

ReceiveOutcome ==
  /\ outcomes # <<>>
  /\ seen' = [seen EXCEPT !.decision = Head(outcomes), !.after = FALSE]
  /\ outcomes' = Tail(outcomes)
  /\ UNCHANGED <<rig, pipe, counter, dds, armGate, sample, report, beat, goal, controller>>

ReceiveState ==
  /\ sample # None
  /\ seen' = [seen EXCEPT !.state = sample, !.after = TRUE]
  /\ sample' = None
  /\ UNCHANGED <<rig, pipe, counter, dds, armGate, outcomes, report, beat, goal, controller>>

ReceiveReport ==
  /\ report # None
  /\ seen' = [seen EXCEPT !.guard = report]
  /\ report' = None
  /\ UNCHANGED <<rig, pipe, counter, dds, armGate, outcomes, sample, beat, goal, controller>>

-----------------------------------------------------------------------------
(* The rig.  A wait ends with its condition or with its timeout. *)

Waits(phases) == rig.phase \in phases
Goes(phase) == rig' = [rig EXCEPT !.phase = phase]
Same == UNCHANGED <<pipe, counter, dds, outcomes, sample, report, goal, beat, controller>>

\* Both controllers are deactivated and activated; everything seen is dropped.
ResetControllers ==
  /\ Waits({"reset"}) /\ Goes("activated")
  /\ controller' = Activated(rig.session)
  /\ seen' = Unseen
  /\ UNCHANGED <<pipe, counter, dds, armGate, outcomes, sample, report, beat, goal>>

ActivatedGuardsReady == seen.guard # None /\ seen.guard.nonce # rig.session - 1

\* The new gate has new readers: what its predecessor's held is gone.
StartGate ==
  /\ Waits({"activated"}) /\ ActivatedGuardsReady /\ Goes("owner")
  /\ armGate' = [NoGate EXCEPT !.up = "running", !.nonce = seen.guard.nonce]
  /\ dds' = <<>>
  /\ UNCHANGED <<pipe, counter, outcomes, sample, report, seen, beat, goal, controller>>

\* Any state of the new owner; in isolation it must have matched the writer.
ArmFaultOwnerReady == seen.state # None /\ armGate.matched

OwnerStarts ==
  /\ Waits({"owner"}) /\ ArmFaultOwnerReady /\ Goes("world")
  /\ UNCHANGED <<armGate, seen>> /\ Same

AcceptedWorldReady == seen.state # None /\ seen.state.world /\ ~seen.state.active

\* prepare_arm_fault remembered the nonces before its first wait.
NoncesKept == seen.guard # None /\ seen.guard.nonce = rig.session

\* An OFF: what was published before it says nothing about it any more, except
\* an outcome, which only has to be received later.
SendOff ==
  /\ Waits({"world"}) /\ AcceptedWorldReady /\ NoncesKept
  /\ rig' = [rig EXCEPT !.phase = "waiting", !.attempt = @ + 1, !.id = counter + 1]
  /\ pipe' = Append(pipe, [kind |-> "off", attempt |-> rig.attempt + 1])
  /\ seen' = [seen EXCEPT !.decision = None, !.guard = None, !.after = FALSE]
  /\ report' = None
  /\ controller' = [controller EXCEPT !.leased = FALSE]
  /\ UNCHANGED <<counter, dds, armGate, outcomes, sample, goal, beat>>

RearmReadyAnyId ==
  /\ seen.decision # None /\ seen.decision.kind = "decision" /\ seen.decision.stop
  /\ seen.after /\ seen.state.armed /\ ~seen.state.active

\* The last outcome is the decision on exactly this OFF, the state is later.
RearmReady ==
  /\ seen.decision # None /\ seen.decision.kind = "decision" /\ seen.decision.stop
  /\ seen.decision.id = rig.id
  /\ seen.after /\ seen.state.armed /\ ~seen.state.active

\* The controller is unlocked, idle, and was leased since the OFF and since
\* its own cutoff.
GazeboRearmReady ==
  /\ RearmReady
  /\ NoncesKept
  /\ ~seen.guard.holding /\ ~seen.guard.executing /\ seen.guard.leased

Dispatch ==
  /\ Waits({"waiting"}) /\ GazeboRearmReady /\ Goes("dispatched")
  /\ pipe' = Append(pipe, [kind |-> "arm", attempt |-> 0])
  /\ UNCHANGED <<counter, dds, armGate, outcomes, sample, report, goal, beat, controller, seen>>

\* Only an OFF the source did count may have been lost by DDS; one it has not
\* parsed may still come.
Retries == rig.attempt < 2 /\ counter = rig.id

RearmTimeout ==
  /\ Waits({"waiting"})
  /\ Goes(IF Retries THEN "world" ELSE "failed")
  /\ UNCHANGED <<armGate, seen>> /\ Same

MovingControl ==
  /\ Waits({"dispatched"}) /\ controller.executing /\ Goes("moving")
  /\ UNCHANGED <<armGate, seen>> /\ Same

\* After a report with a fresh lease the gate is killed, stopped, or left
\* without its engine.
Fault ==
  /\ Waits({"moving"}) /\ seen.guard # None /\ ~seen.guard.holding
  /\ Goes("faulted")
  /\ armGate' = [armGate EXCEPT !.up = CASE Case = "kill" -> "dead"
                                   [] Case = "delay" -> "stopped"
                                   [] Case = "stall" -> "stalled"]
  /\ UNCHANGED seen /\ Same

\* The reported cutoff and stop time are not before the fault.
HoldFollowsFault == seen.guard.held = "after"

\* Any report of a hold, received after the fault.
HoldObserved ==
  /\ Waits({"faulted"}) /\ seen.guard # None /\ seen.guard.holding
  /\ Goes(IF HoldFollowsFault THEN "held" ELSE "failed")
  /\ UNCHANGED <<armGate, seen>> /\ Same

\* The gate that was only delayed comes back; nothing may move again.
Resume ==
  /\ Waits({"held"}) /\ Case = "delay" /\ Goes("resumed")
  /\ armGate' = [armGate EXCEPT !.up = "running"]
  /\ UNCHANGED seen /\ Same

Pass ==
  /\ Waits({"held", "resumed"}) /\ (Case = "delay" => Waits({"resumed"}))
  /\ Goes(IF controller.executing THEN "failed" ELSE "passed")
  /\ armGate' = [armGate EXCEPT !.up = "dead"]
  /\ UNCHANGED seen /\ Same

NextCase ==
  /\ Waits({"passed"}) /\ rig.session < Len(Cases)
  /\ rig' = [phase |-> "reset", session |-> rig.session + 1, attempt |-> 0, id |-> 0]
  /\ UNCHANGED <<armGate, seen>> /\ Same

\* Every other wait raises when its time is over, and ends the run.
TimesOut ==
  /\ Waits({"activated", "owner", "world", "dispatched", "moving", "faulted"})
  /\ Goes("failed")
  /\ UNCHANGED <<armGate, seen>> /\ Same

Rig == \/ ResetControllers \/ StartGate \/ OwnerStarts \/ SendOff \/ Dispatch
       \/ RearmTimeout \/ MovingControl \/ Fault \/ HoldObserved \/ Resume \/ Pass
       \/ NextCase \/ TimesOut

System == \/ SourceParses \/ WriterMatches
          \/ GateDecides \/ GateTicks \/ GateRevokes \/ GateAborts
          \/ ControllerBeat \/ ControllerGoal \/ ControllerExpires \/ ControllerReports
          \/ ReceiveOutcome \/ ReceiveState \/ ReceiveReport

\* A failed run stops every process.
ArmNext == rig.phase # "failed" /\ (System \/ Rig)

ArmSpec == ArmInit /\ [][ArmNext]_armVars

-----------------------------------------------------------------------------

InFlight == ToSet(pipe) \cup ToSet(dds)

(* Once the goal is dispatched no OFF is left that could reach the gate      *)
(* after it and stop the arm: the exact id the rig waited for and the order  *)
(* of the one signed writer have drained them all (prepare_arm_fault).       *)
Drained ==
  rig.phase \in {"dispatched", "moving"} => \A p \in InFlight : p.kind # "off"

(* The number the rig predicts for an OFF from the source's durable counter  *)
(* is the number that OFF gets: no decision with this id is about another    *)
(* attempt, so the evidence the rig writes names the right request.          *)
IdNamesAttempt ==
  rig.phase \in {"waiting", "dispatched"} =>
    \A m \in ToSet(dds) \cup ToSet(outcomes) \cup {seen.decision} :
      m # None /\ m.id = rig.id => m.attempt = rig.attempt

(* Every OFF is settled before the arm moves, and settled as what it was.    *)
RequestsSettled == Drained /\ IdNamesAttempt

(* A fault session passes only when the controller came to its hold after    *)
(* the fault, and it still holds then: neither a hold the gate caused before *)
(* its fault nor a delayed gate's late heartbeats are taken for or undo the  *)
(* controller's own stop (exercise_arm_fault).                               *)
PassIsHeld ==
  rig.phase = "passed" => controller.held = "after" /\ controller.holding
=============================================================================
