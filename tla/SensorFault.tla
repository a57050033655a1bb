----------------------------- MODULE SensorFault -----------------------------
(***************************************************************************)
(* The sensor fault tests of the Gazebo rig: the robot drives, the lidar   *)
(* is disconnected or loses its calibration target, and the rig has to     *)
(* tell from what it hears why the engine stopped                          *)
(* (ros/gazebo/stop_evidence.py, exercise_sensor_fault in run_reference.py *)
(* and exercise_compound in compound_fault.py).                            *)
(*                                                                         *)
(* The engine writes its log in its own order.  Commands, states and       *)
(* outcomes reach the rig on three topics, in order on each and in any     *)
(* order between them.                                                     *)
(***************************************************************************)
EXTENDS Integers, Sequences, FiniteSets, SequencesExt

CONSTANTS FaultCase, \* "disconnect", "coverage" or "compound"
          Errors,    \* rejections of the gate: Cuts, and "other" for the rest
          Defects,   \* what may be wrong with the engine; "none" is the real one
          MaxSteps,  \* a bound on the engine's steps until the stop is named
          MaxAfter,  \* and on its steps after that
          MaxWorlds, \* a bound on the worlds published from the fault on
          Burst      \* proposals the compound test must see refused

VARIABLES phase,     \* where the test is: "waiting", "recovering" or a verdict
          reason,    \* the stop the rig named, or "inconclusive"
          engine,    \* the enforcer; cause first disarmed it, moved: it moved since
          log,       \* its records since the fault, until the stop is named
          cmds, states, outs, \* the three topics
          heard,     \* what of the rig's receipts its reports look at
          sensor,    \* [fault, healthy]: broken now; healthy when last published
          wire,      \* the world on its way
          published, \* stamps of worlds published with confidence 0, and with 1
          paused,    \* the world signer is stopped
          recovered  \* refusals heard since the recovery; steps since the stop was named

vars == <<phase, reason, engine, log, cmds, states, outs, heard, sensor, wire,
          published, paused, recovered>>

None == [kind |-> "none"]
Cuts == {"budget", "expired"}        \* WORLD_AUTHORITY_CUTS

Driving(d) == [armed |-> TRUE, active |-> TRUE, unknown |-> FALSE, stale |-> FALSE,
               last |-> "none", cause |-> "none", moved |-> FALSE, steps |-> 0, defect |-> d]

\* Since the fault: the outcomes in order, the stops of disarmed states, the first
\* and the latest of them, whether motion came after the first, whether any and
\* the latest command was zero, what came after the named rejection, and
\* whether an acceptance came between the first stop and that rejection.
Silence == [outcomes |-> <<>>, stops |-> {}, first |-> "none", latest |-> None, motion |-> FALSE,
            zero |-> FALSE, zeroLast |-> FALSE, after |-> {}, between |-> FALSE]

\* Calibrated, explicitly armed and measured moving, a command on its way.
Init ==
  /\ phase = "waiting" /\ reason = "none" /\ log = <<>>
  /\ engine \in {Driving(d) : d \in Defects}
  /\ cmds = <<[kind |-> "cmd", motion |-> TRUE]>>
  /\ states = <<>> /\ outs = <<>> /\ heard = Silence
  /\ sensor = [fault |-> TRUE, healthy |-> TRUE]
  /\ wire \in {None, [kind |-> "world", stamp |-> 0, known |-> TRUE]}
  /\ published = [unknown |-> {}, known |-> {0}, next |-> 1]
  /\ paused = (FaultCase = "compound")
  /\ recovered = [refused |-> FALSE, after |-> 0]

-----------------------------------------------------------------------------
(* The engine, as far as these tests exercise it. *)

\* What the engine does never depends on what the rig received before it named
\* a stop, so the steps up to then are taken first and received afterwards.
Live == /\ phase \in {"waiting", "recovering"}
        /\ reason = "none" => heard = Silence
        /\ IF reason = "none" THEN engine.steps < MaxSteps ELSE recovered.after < MaxAfter

Latched == {"Denied", "Revoked", "Unarmed", "StaleWorld"}

\* output(): a stale world comes first, then what the step forced; a disarmed
\* engine goes on naming the stop that disarmed it.
Reason(e, forced) ==
  IF e.stale THEN "StaleWorld"
  ELSE IF forced # "none" THEN forced
  ELSE IF e.active THEN "none"
  ELSE IF ~e.armed /\ engine.last \in Latched THEN engine.last
  ELSE "NoCommand"

Keeps == {"none", "NoCommand", "Expired"}

\* One step: its rows, the stop's row when the stop is new, then the command,
\* the state and the outcome on their topics.  The state's writer keeps one
\* sample: a state nobody has received yet may be replaced by the next.
Steps(rows, e, forced, outcome, cause) ==
  \E r \in {Reason(e, forced)} :
  \E f \in {[e EXCEPT !.last = r, !.steps = @ + 1,
              !.active = @ /\ r = "none",
              !.moved = @ \/ (e.active /\ r = "none" /\ engine.cause # "none"),
              !.armed = @ /\ r \in Keeps,
              !.cause = IF engine.cause = "none" /\ r \notin Keeps
                          THEN (IF r = "StaleWorld" THEN "stale" ELSE cause) ELSE @]} :
      /\ engine' = f
      /\ log' = IF reason # "none" THEN log
                ELSE log \o [i \in 1..Len(rows) |-> [row |-> rows[i], step |-> f.steps]]
                    \o (IF r \in {engine.last, "none"} THEN <<>>
                        ELSE <<[row |-> [kind |-> "stop", reason |-> r], step |-> f.steps]>>)
      /\ cmds' = Append(cmds, [kind |-> "cmd", motion |-> f.active])
      /\ LET m == [kind |-> "state", stop |-> r, armed |-> f.armed, active |-> f.active]
         IN  states' \in {Append(states, m), <<m>>}
      /\ outs' = IF outcome = None THEN outs ELSE Append(outs, outcome)
      /\ recovered' = [recovered EXCEPT !.after = IF reason = "none" THEN 0 ELSE @ + 1]
      /\ UNCHANGED <<phase, reason, heard, sensor, published, paused>>

Disarmed(e) == [e EXCEPT !.armed = FALSE, !.active = FALSE]
Rejected(error) == [kind |-> "rejected", error |-> error]

\* A signed world.  An unknown one revokes the motion it finds.
EngineWorld ==
  /\ Live /\ wire # None /\ ~paused
  /\ wire' = None
  /\ LET e == [engine EXCEPT !.unknown = ~wire.known, !.stale = FALSE,
                 !.armed = @ \/ (engine.defect = "rearms" /\ wire.known /\ engine.cause # "none")]
         world == [kind |-> "world", known |-> wire.known, stamp |-> wire.stamp]
         outcome == [kind |-> "updated", stamp |-> wire.stamp]
     IN  IF ~wire.known /\ engine.active /\ engine.defect # "blind"
           THEN Steps(<<world, [kind |-> "revoke"]>>, Disarmed(e), "Revoked", outcome, "perception")
           ELSE Steps(<<world>>, e, "none", outcome, "none")

\* A proposal to move: an unarmed source is refused, an unknown world denies.
EngineProposal ==
  /\ Live
  /\ wire' = wire
  /\ CASE ~engine.armed ->
            Steps(<<>>, Disarmed(engine), "Unarmed", Rejected("unarmed"), "other")
       [] engine.armed /\ engine.unknown /\ engine.defect # "blind" ->
            Steps(<<[kind |-> "decision", verdict |-> "bul"]>>, Disarmed(engine), "Denied",
                  [kind |-> "decision", verdict |-> "bul"], "other")
       [] OTHER ->
            Steps(<<[kind |-> "decision", verdict |-> "yun"]>>, [engine EXCEPT !.active = TRUE], "none",
                  [kind |-> "decision", verdict |-> "yun"], "none")

\* The gate's own rejections: its world authority ran out, or something else.
EngineReject ==
  /\ Live
  /\ wire' = wire
  /\ \E error \in Errors :
       Steps(<<[kind |-> "reject", error |-> error]>>, Disarmed(engine), "Denied", Rejected(error),
             IF error \in Cuts THEN "cut" ELSE "other")

\* A tick finds the world too old, or the command at its end.
EngineTick ==
  /\ Live
  /\ wire' = wire
  /\ \/ /\ ~engine.stale
        /\ Steps(<<>>, [engine EXCEPT !.stale = TRUE], "none", None, "stale")
     \/ /\ engine.active
        /\ Steps(<<>>, [engine EXCEPT !.active = FALSE], "Expired", None, "none")

-----------------------------------------------------------------------------
(* The world publisher, the signer and the rig's subscriptions. *)

\* _publish_world: what the sensor says now, at the next stamp.  Best effort:
\* a world nobody has taken yet is gone.
PublishWorld ==
  /\ phase \in {"waiting", "recovering"} /\ published.next <= MaxWorlds
  /\ reason = "none" => heard = Silence
  /\ \E known \in {~sensor.fault, sensor.healthy} :
       /\ wire' = [kind |-> "world", stamp |-> published.next, known |-> known]
       /\ sensor' = [sensor EXCEPT !.healthy = known]
       /\ published' = [published EXCEPT !.next = @ + 1,
             !.unknown = IF known THEN @ ELSE @ \cup {published.next},
             !.known = IF known THEN @ \cup {published.next} ELSE @]
  /\ UNCHANGED <<phase, reason, engine, log, cmds, states, outs, heard, paused, recovered>>

SignerResumes ==
  /\ paused /\ paused' = FALSE
  /\ UNCHANGED <<phase, reason, engine, log, cmds, states, outs, heard, sensor, wire,
                 published, recovered>>

Acceptance(m) == m.kind \in {"updated", "decision"}
IsNamed(m) == m.kind = "rejected" /\ m.error \in (IF FaultCase = "coverage" THEN Cuts ELSE {"budget"})
NamedHeard == \E i \in DOMAIN heard.outcomes : IsNamed(heard.outcomes[i])
Afterwards(what) == heard.after \cup (IF NamedHeard THEN {what} ELSE {})

HearsCommand(m) ==
  [heard EXCEPT !.motion = @ \/ (m.motion /\ heard.first # "none"),
                !.zero = reason = "none" /\ (@ \/ ~m.motion),
                !.zeroLast = reason = "none" /\ ~m.motion,
                !.after = IF m.motion THEN @ ELSE Afterwards("zero")]

HearsState(m) ==
  [heard EXCEPT !.latest = m,
                !.first = IF @ = "none" /\ ~m.armed THEN m.stop ELSE @,
                !.stops = IF reason # "none" \/ (m.armed /\ m.stop # "StaleWorld") THEN @ ELSE @ \cup {m.stop},
                !.after = @ \cup Afterwards("state")
                            \cup (IF m.stop \in {"Denied", "Unarmed"} /\ ~m.armed /\ ~m.active
                                  THEN Afterwards("stop") ELSE {})]

HearsOutcome(m) ==
  [heard EXCEPT !.outcomes = IF reason = "none" THEN Append(@, m) ELSE @,
                !.between = @ \/ (Acceptance(m) /\ heard.first # "none" /\ ~NamedHeard)]

Receives ==
  /\ phase \in {"waiting", "recovering"}
  /\ \/ /\ cmds # <<>> /\ cmds' = Tail(cmds) /\ heard' = HearsCommand(Head(cmds))
        /\ UNCHANGED <<states, outs, recovered>>
     \/ /\ states # <<>> /\ states' = Tail(states) /\ heard' = HearsState(Head(states))
        /\ UNCHANGED <<cmds, outs, recovered>>
     \/ /\ outs # <<>> /\ outs' = Tail(outs) /\ heard' = HearsOutcome(Head(outs))
        /\ recovered' = [recovered EXCEPT
              !.refused = @ \/ (phase = "recovering" /\ Head(outs) = Rejected("unarmed"))]
        /\ UNCHANGED <<cmds, states>>
  /\ UNCHANGED <<phase, reason, engine, log, sensor, wire, published, paused>>

-----------------------------------------------------------------------------
(* The evidence. *)

\* motion_after_stop: receive order only.
MotionAfterStop == heard.motion

\* A revoke record whose last world, accepted since the fault, is unknown.
UnknownRevoked ==
  \E i \in DOMAIN log : /\ log[i].row.kind = "revoke"
                        /\ \E j \in 1..(i - 1) : /\ log[j].row.kind = "world" /\ ~log[j].row.known
                                                 /\ \A k \in (j + 1)..(i - 1) : log[k].row.kind # "world"

PerceptionStop == "Revoked" \in heard.stops /\ UnknownRevoked /\ heard.zero

Heard(m) == m \in ToSet(heard.outcomes)

\* world_expiry_stop_observed.
ExpiryStop == \/ "StaleWorld" \in heard.stops
              \/ "Denied" \in heard.stops /\ Heard(Rejected("expired"))

\* The admission budget's rejection, a disarmed state and a zero after it.
BudgetStop == {"stop", "zero"} \subseteq heard.after

\* sensor_stop_report; lost coverage must be stopped by the perception rule.
SensorStop ==
  IF PerceptionStop THEN "perception_unknown"
  ELSE IF FaultCase = "coverage" THEN "none"
  ELSE IF BudgetStop THEN "budget_exhausted"
  ELSE IF ExpiryStop /\ heard.zero THEN "world_expired"
  ELSE "none"

CutRecordTrusted(error, stamp) == TRUE

\* coverage_cut_record: in the engine's order the named reject comes before any
\* other loss of authority, its own stop with it, the unknown world later.
CutRecord(error, stamp) ==
  \E c \in DOMAIN log :
    /\ log[c].row = [kind |-> "reject", error |-> error]
    /\ \A i \in 1..(c - 1) :
         /\ log[i].row.kind \notin {"reject", "revoke"}
         /\ log[i].row # [kind |-> "decision", verdict |-> "bul"]
         /\ log[i].row.kind = "world" => log[i].row.known
         /\ log[i].row.kind = "stop" => log[i].row.reason \in {"Expired", "NoCommand"}
    /\ c < Len(log) /\ log[c + 1] = [row |-> [kind |-> "stop", reason |-> "Denied"], step |-> log[c].step]
    /\ \E u \in (c + 2)..Len(log) :
         /\ log[u].row = [kind |-> "world", known |-> FALSE, stamp |-> stamp]
         /\ \A i \in (c + 2)..(u - 1) :
              /\ log[i].row # [kind |-> "decision", verdict |-> "yun"]
              /\ log[i].row.kind = "world" => log[i].row.known

\* coverage_cut_first: a named cut stopped the robot before the rule could.
CutFirst ==
  LET o == heard.outcomes
      Unknown(i) == o[i].kind = "updated" /\ o[i].stamp \in published.unknown
  IN  \E c \in DOMAIN o, a \in DOMAIN o :
        /\ IsNamed(o[c])
        /\ \A i \in 1..(c - 1) : /\ o[i].kind # "rejected" /\ ~Unknown(i)
                                /\ o[i] # [kind |-> "decision", verdict |-> "bul"]
        /\ c < a /\ Unknown(a) /\ \A i \in (c + 1)..(a - 1) : ~Unknown(i)
        /\ "state" \in heard.after
        /\ heard.latest.stop \in {"Denied", "Unarmed"} /\ ~heard.latest.armed /\ ~heard.latest.active
        /\ CutRecord(o[c].error, o[a].stamp)
        /\ heard.first = "Denied" /\ ~heard.between /\ ~MotionAfterStop
        /\ heard.zeroLast /\ "zero" \in heard.after

-----------------------------------------------------------------------------
(* The test.  A wait that is not met in time ends it here: no step follows. *)

Stopped == IF SensorStop # "none" THEN SensorStop
           ELSE IF FaultCase = "coverage" /\ CutFirst THEN "inconclusive" ELSE "none"

\* The burst went on and was refused; nothing moved after the zero.
BurstRefused ==
  FaultCase = "compound" =>
    /\ Len(SelectSeq(heard.outcomes, LAMBDA m : m = Rejected("unarmed"))) >= Burst
    /\ ~MotionAfterStop

\* What is still looked at once the stop is named: motion since the first stop
\* and the latest state.
Kept == [Silence EXCEPT !.first = heard.first, !.latest = heard.latest, !.motion = heard.motion]

\* The stop is named, the rig mends the sensor.
StopNamed ==
  /\ phase = "waiting" /\ reason = "none" /\ ~paused
  /\ ~sensor.healthy /\ ~engine.active
  /\ BurstRefused
  /\ reason' \in {Stopped} \ {"none"}
  /\ sensor' = [sensor EXCEPT !.fault = FALSE]
  /\ heard' = Kept /\ log' = <<>>
  /\ UNCHANGED <<phase, engine, cmds, states, outs, wire, published, paused, recovered>>

Recovers ==
  /\ phase = "waiting" /\ reason # "none" /\ sensor.healthy
  /\ phase' = "recovering"
  /\ UNCHANGED <<reason, engine, log, cmds, states, outs, heard, sensor, wire, published,
                 paused, recovered>>

\* A refusal received after the recovery, then 0.3 s: by then worlds, states
\* and commands that were on their way have come.
Settled ==
  /\ phase = "recovering" /\ recovered.refused
  /\ cmds = <<>> /\ states = <<>> /\ outs = <<>> /\ wire = None /\ ~engine.unknown /\ ~engine.stale

\* Nothing armed in the last state, nothing moving, no command since the stop.
RemainsStopped ==
  ~engine.active /\ ~heard.latest.armed /\ ~MotionAfterStop

Judges(verdict) ==
  /\ Settled /\ phase' = verdict
  /\ UNCHANGED <<reason, engine, log, cmds, states, outs, heard, sensor, wire, published,
                 paused, recovered>>

\* An inconclusive attempt is no pass; bounded_attempts starts another.
Pass == Judges("passed") /\ RemainsStopped /\ reason # "inconclusive"
Inconclusive == Judges("inconclusive") /\ RemainsStopped /\ reason = "inconclusive"
Fail == Judges("failed") /\ ~RemainsStopped

Next == \/ EngineWorld \/ EngineProposal \/ EngineReject \/ EngineTick
        \/ PublishWorld \/ SignerResumes \/ Receives
        \/ StopNamed \/ Recovers \/ Pass \/ Inconclusive \/ Fail

Spec == Init /\ [][Next]_vars

-----------------------------------------------------------------------------

(* A lost calibration target can pass only when the perception rule was what *)
(* took the engine's authority first (so an engine that ignores unknown      *)
(* worlds never does), and an attempt is called inconclusive                 *)
(* only when a world-authority cut was: a stop that appears in no outcome    *)
(* (a tick's) is never hidden behind a later rejection, whatever order the   *)
(* three topics arrive in (coverage_cut_first, sensor_stop_report).          *)
CauseIsNamed ==
  FaultCase = "coverage" =>
    /\ reason = "perception_unknown" => engine.cause = "perception"
    /\ reason = "inconclusive" => engine.cause = "cut"

(* In a test that passes the gate published no motion after the engine's    *)
(* first stop since the fault, through the sensor's recovery: not even an    *)
(* engine that arms itself again when the sensor recovers gets through,      *)
(* though a later rejection hides that from the last state and from the      *)
(* robot's speed (motion_after_stop).                                        *)
PassIsQuiet == phase = "passed" => ~engine.moved
=============================================================================
