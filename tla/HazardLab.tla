------------------------------ MODULE HazardLab ------------------------------
(***************************************************************************)
(* The household lab of the Gazebo rig (ros/gazebo/hazard_lab.py): for     *)
(* every hazard it shows that the gate refuses a signed dangerous plan and *)
(* lets a safe one move the arm, then that it refuses a consumed step and  *)
(* wrong bindings.                                                         *)
(*                                                                         *)
(* Three parties run at once: the script (the main thread), the world      *)
(* timer with its semantic snapshot (the spin thread), and the gate, which *)
(* answers over topics.  The script works through Script, one operation    *)
(* after the other; pc says where it is in one.                            *)
(*                                                                         *)
(* A task revision and its step id change together and only in             *)
(* set_semantic_context, so one number, step, stands for both.  The times  *)
(* the script takes (rearm_at, submitted_at, accepted_after) only ever ask *)
(* what came after the latest of them: heard is what came since then.      *)
(***************************************************************************)
EXTENDS Integers, Sequences, FiniteSets, SequencesExt

CONSTANTS Cases,     \* the hazards in order; "chemicals" needs a first transfer
          Chunks,    \* motions of a transfer, and of a retreat (2)
          Attempts,  \* preflights before one dispatch (3)
          Defects,   \* what may be wrong with the gate; "none" is the real one
          Waits,     \* the pcs where a wait may time out or a check may raise
          Faults,    \* what may go wrong around the lab: an "omission" of the semantics, a
                     \* fixture that "moves" or "breaks", a "stale" world, a "rejection"
          MaxFaults  \* a bound on them

Parameters == Len(Cases) > 0 /\ Chunks \in Nat /\ Attempts \in Nat \ {0} /\ MaxFaults \in Nat

VARIABLES task, pc,  \* the script's operation and where it is in it
          tries,     \* preflights of this execute
          binding,   \* the binding of the next proposal
          denial,    \* verified_denial is set
          sent,      \* arm_dispatch: an arm proposal was sent
          ctx,       \* semantic_context: [case, item, contents, step], revision, facts
          scene,     \* [case, fixture, held, failed]: the active case, where the target is and
                     \* where it was when the motion was judged, native.failure
          guard,     \* world.hazard_guard: "off", "motion" (the guard is active) or "closed"
          last,      \* world.semantic_last
          taken,     \* a world whose snapshot is taken and that is not published yet
          wire,      \* the world on its way to the gate
          pipe,      \* signed proposals on their way
          gate,      \* the engine behind its node
          told,      \* the state sample on its way back
          outs,      \* the outcomes on their way back
          heard,     \* the latest state; since the mark: whether it is new, the outcomes,
                     \* accepted stops (2 for more), whether the motion was tracked
          arm,       \* [drift, reached]: it moved since the mark; the step whose goal it reached
          faults

vars == <<task, pc, tries, binding, denial, sent, ctx, scene, guard, last, taken, wire,
          pipe, gate, told, outs, heard, arm, faults>>

lab == <<task, pc, tries, binding, denial, sent>>
rig == <<ctx, scene, guard, last, taken, wire>>
answers == <<told, outs, heard>>

None == [kind |-> "none"]

Faulty(f) == f \in Faults /\ faults < MaxFaults /\ faults' = faults + 1

-----------------------------------------------------------------------------
(* What is to be done. *)

Execute(item, contents) == [op |-> "execute", item |-> item, contents |-> contents, bind |-> "own"]
Reject(item, bind, expected) ==
  [op |-> "reject", item |-> item, contents |-> {}, bind |-> bind, expected |-> expected]

Times(n, t) == [i \in 1..n |-> t]

\* One hazard: park, bring the arm back, place the fixtures; the first transfer
\* of the chemicals; the dangerous plan, the safe one, the consumed step.
CaseScript(i) ==
  LET c == Cases[i]
  IN  <<[op |-> "park", case |-> c]>>
      \o (IF i > 1 THEN <<Execute("inert", {})>> ELSE <<>>)
      \o <<[op |-> "place"]>>
      \o (IF c = "chemicals" THEN Times(Chunks, Execute("bleach", {}))
                                  \o Times(Chunks, Execute("bleach", {"bleach"})) ELSE <<>>)
      \o (IF i = 1 THEN <<[op |-> "initialize", item |-> c, contents |-> {}, bind |-> "own"]>> ELSE <<>>)
      \o <<Reject(c, "own", "hazard"), Execute(c, {})>>
      \o (IF i = 1 THEN <<[op |-> "consumed", bind |-> "own"]>> ELSE <<>>)

\* After the last: bindings that name no scene, another revision, another item.
Script ==
  FlattenSeq([i \in 1..Len(Cases) |-> CaseScript(i)])
  \o <<Reject("inert", "missing", "missing-binding"),
       Reject("inert", "revision", "binding-mismatch"),
       Reject("inert", "item", "binding-mismatch")>>

Task == Script[task]
Running == pc \notin {"failed", "ended", "completed"}
Begins(t) == IF t > Len(Script) THEN "completed"
             ELSE IF Script[t].op = "initialize" THEN "initialize"
             ELSE IF Script[t].op \in {"park", "place"} THEN Script[t].op ELSE "rearm"

Finished == task' = task + 1 /\ pc' = Begins(task + 1) /\ tries' = 0

-----------------------------------------------------------------------------
(* The gate, as far as the lab exercises it. *)

Fresh(d) == [armed |-> FALSE, stop |-> "startup", active |-> None, cancelling |-> FALSE,
             stale |-> FALSE, semantic |-> None, floor |-> None, consumed |-> {}, settled |-> FALSE,
             pending |-> FALSE, retained |-> FALSE, refused |-> FALSE, log |-> {}, defect |-> d]

\* What a state sample tells.
View(g) == [armed |-> g.armed, stop |-> g.stop, active |-> g.active # None, cancelling |-> g.cancelling,
            revision |-> IF g.semantic = None THEN 0 ELSE g.semantic.revision,
            step |-> IF g.semantic = None THEN 0 ELSE g.semantic.facts.step,
            pending |-> g.pending, settled |-> g.settled, retained |-> g.retained]

Latched == {"denied", "unarmed", "stale_world"}

\* clear_active(); armed.clear(), then the ladder of output().
Drops(g) == [g EXCEPT !.armed = FALSE, !.active = None, !.cancelling = @ \/ g.active # None]
Output(g, forced) ==
  LET r == IF g.cancelling THEN "arm_settling"
           ELSE IF g.stale THEN "stale_world"
           ELSE IF forced # "none" THEN forced
           ELSE IF g.active # None THEN "none"
           ELSE IF ~g.armed /\ gate.stop \in Latched THEN gate.stop ELSE "no_command"
      f == IF r = "stale_world" THEN Drops(g) ELSE g
  IN  [f EXCEPT !.stop = r]

\* History::check_world.
WorldFits(g, s) ==
  g.floor # None =>
    /\ s.revision >= g.floor.revision /\ s.facts.step >= g.floor.facts.step
    /\ s.revision = g.floor.revision => s.facts = g.floor.facts

\* A world.  One without semantics, or another scene, ends an arm's motion;
\* contents once seen are remembered.
GateWorld ==
  /\ wire # None /\ wire' = None
  /\ LET s == wire.semantic
         g == [gate EXCEPT !.stale = FALSE, !.semantic = s, !.floor = IF s = None THEN @ ELSE s,
                 !.retained = (@ /\ gate.defect # "forgets") \/ (s # None /\ "bleach" \in s.facts.contents)]
     IN  gate' = IF s # None /\ ~WorldFits(gate, s)
                   THEN Output(Drops([gate EXCEPT !.refused = TRUE]), "denied")
                 ELSE IF gate.active # None /\ (s = None \/ s.revision # gate.active.revision)
                   THEN Output(Drops(g), "revoked")
                 ELSE Output(g, "none")
  /\ UNCHANGED <<lab, ctx, scene, guard, last, taken, pipe, answers, arm, faults>>

Consumes(b) == gate.defect # "replays" /\ b # None /\ b.step \in gate.consumed

\* What the household rules fire on, "none" if nothing.
Fires(p) ==
  LET b == p.binding
      s == gate.semantic
  IN  IF b = None THEN "missing-binding"
      ELSE IF s = None THEN "unavailable"
      ELSE IF gate.defect # "unbound"
              /\ (b.revision # s.revision \/ b.step # s.facts.step \/ b.item # s.facts.item)
        THEN "binding-mismatch"
      ELSE IF p.danger /\ gate.defect # "admits" /\ (s.facts.case = "chemicals" => gate.retained)
        THEN "hazard" ELSE "none"

Answers(o) == outs' = Append(outs, o)

GateZero ==
  /\ pipe # <<>> /\ Head(pipe).kind = "zero" /\ Len(outs) < 2
  /\ pipe' = Tail(pipe)
  /\ gate' = Output(IF gate.cancelling THEN gate ELSE [gate EXCEPT !.armed = TRUE], "none")
  /\ Answers([kind |-> "yun", own |-> None])
  /\ UNCHANGED <<lab, rig, told, heard, arm, faults>>

\* A plan: unarmed, consumed, refused by a rule, or on its way to the arm.
GatePlan ==
  /\ pipe # <<>> /\ Head(pipe).kind = "plan" /\ Len(outs) < 2
  /\ pipe' = Tail(pipe)
  /\ LET p == Head(pipe)
         Logged(v) == [gate EXCEPT !.log = @ \cup {[plan |-> p, verdict |-> v]}]
     IN  IF gate.cancelling \/ gate.active # None \/ ~gate.armed
           THEN gate' = Output(Drops(gate), "unarmed") /\ Answers([kind |-> "rejected", error |-> "unarmed"])
                /\ arm' = arm
         ELSE IF Consumes(p.binding)
           THEN gate' = Output(Drops(gate), "denied") /\ Answers([kind |-> "rejected", error |-> "consumed"])
                /\ arm' = arm
         ELSE IF Fires(p) # "none" \/ gate.stale
           THEN /\ gate' = Output(Drops(Logged("bul")), "denied")
                /\ Answers([kind |-> "bul", fired |-> Fires(p)])
                /\ arm' = [arm EXCEPT !.drift = @ \/ gate.defect = "acts"]
         ELSE /\ gate' = Output([Logged("yun") EXCEPT !.consumed = @ \cup {p.binding.step}, !.pending = TRUE,
                          !.active = [kind |-> "arm", own |-> p.own,
                                      revision |-> gate.semantic.revision, scene |-> gate.semantic.facts]], "none")
              /\ Answers([kind |-> "yun", own |-> p.own])
              /\ arm' = [arm EXCEPT !.drift = TRUE]
  /\ UNCHANGED <<lab, rig, told, heard, faults>>

ArmReaches ==
  /\ gate.active # None /\ arm.reached # gate.active.own.step
  /\ arm' = [arm EXCEPT !.reached = gate.active.own.step]
  /\ UNCHANGED <<lab, rig, pipe, gate, answers, faults>>

\* The lease ends: cancelled, unarmed, and settled by measured stillness.
GateExpires ==
  /\ gate.active # None
  /\ gate' = [Drops(gate) EXCEPT !.stop = "expired"]
  /\ UNCHANGED <<lab, rig, pipe, answers, arm, faults>>

GateSettles ==
  /\ gate.cancelling /\ ~gate.stale
  /\ gate' = [gate EXCEPT !.cancelling = FALSE, !.pending = FALSE, !.settled = TRUE, !.stop = "no_command"]
  /\ UNCHANGED <<lab, rig, pipe, answers, arm, faults>>

\* A tick with no world for too long.
GateStale ==
  /\ ~gate.stale /\ wire = None /\ taken = None
  /\ IF guard = "closed" THEN faults' = faults ELSE Faulty("stale")
  /\ gate' = Output([gate EXCEPT !.stale = TRUE], "none")
  /\ UNCHANGED <<lab, rig, pipe, answers, arm>>

\* A rejection that is not the lab's doing: the world authority ran out.
GateRejects ==
  /\ Faulty("rejection")
  /\ gate' = Output(Drops(gate), "denied")
  /\ UNCHANGED <<lab, rig, pipe, answers, arm>>

\* Best-effort state samples (one like the latest heard says nothing); outcomes
\* in order.
GateTells ==
  /\ told' = View(gate) /\ told' # told
  /\ told' # heard.state \/ ~heard.fresh
  /\ UNCHANGED <<lab, rig, pipe, gate, outs, heard, arm, faults>>

Hears ==
  \/ /\ told # None /\ told' = None
     /\ heard' = [heard EXCEPT !.state = told, !.fresh = TRUE]
     /\ UNCHANGED outs
  \/ /\ outs # <<>> /\ outs' = Tail(outs)
     /\ heard' = IF Head(outs) = [kind |-> "yun", own |-> None]
                   THEN [heard EXCEPT !.stops = IF @ = 2 THEN 2 ELSE @ + 1]
                   ELSE [heard EXCEPT !.outs = @ \cup {Head(outs)}]
     /\ UNCHANGED told

Receive == Running /\ Hears /\ UNCHANGED <<lab, rig, pipe, gate, arm, faults>>

-----------------------------------------------------------------------------
(* The spin thread: the world timer. *)

Facts == [case |-> scene.case, item |-> ctx.item, contents |-> ctx.contents, step |-> ctx.step,
          fixture |-> scene.fixture]

\* The revision counts the changes of the facts.
Revised == IF ctx.facts = Facts THEN ctx ELSE [ctx EXCEPT !.facts = Facts, !.revision = @ + 1]

\* _publish_world up to semantic_snapshot, which holds the semantic lock.  A
\* measurement that is missing, stale or broken leaves the semantics out.  A
\* snapshot like the last one matters only to a gate whose world went stale.
TakeSnapshot ==
  /\ taken = None /\ pc # "completed"
  /\ LET known == [kind |-> "semantic", revision |-> Revised.revision, facts |-> Facts]
         omit == scene.case = "none" \/ ctx.item = "none" \/ scene.failed \/ pc = "ended"
     IN  \/ /\ ~omit
            /\ ctx' = Revised /\ last' = known /\ taken' = [kind |-> "world", semantic |-> known]
            /\ faults' = faults /\ (known # last \/ gate.stale)
         \/ /\ IF omit THEN faults' = faults ELSE Faulty("omission")
            /\ last' = None /\ taken' = [kind |-> "world", semantic |-> None] /\ ctx' = ctx
            /\ last # None \/ gate.stale
  /\ UNCHANGED <<lab, scene, guard, wire, pipe, gate, answers, arm>>

\* healthy(), and the guard in front of the publisher.
Healthy == ~scene.failed /\ scene.fixture = scene.held
GuardAllows == guard = "off" \/ (guard = "motion" /\ Healthy)

Publish ==
  /\ taken # None /\ taken' = None
  /\ wire' = IF GuardAllows THEN taken ELSE wire
  /\ UNCHANGED <<lab, ctx, scene, guard, last, pipe, gate, answers, arm, faults>>

\* A fixture moves, or its driver, the attachment or the tracking fails.
SceneChanges ==
  /\ Running
  /\ \/ Faulty("moves") /\ scene' = [scene EXCEPT !.fixture = @ + 1]
     \/ Faulty("breaks") /\ ~scene.failed /\ scene' = [scene EXCEPT !.failed = TRUE]
  /\ UNCHANGED <<lab, ctx, guard, last, taken, wire, pipe, gate, answers, arm>>

\* monitor_tracking: only a plan seen accepted while it runs is tracked.
Own == [case |-> scene.case, item |-> ctx.item, step |-> ctx.step]
AcceptedOwn == [kind |-> "yun", own |-> Own] \in heard.outs
Track ==
  /\ pc \in {"reach", "settle"} /\ AcceptedOwn /\ gate.active # None /\ ~heard.tracked
  /\ heard' = [heard EXCEPT !.tracked = TRUE]
  /\ UNCHANGED <<lab, rig, pipe, gate, told, outs, arm, faults>>

-----------------------------------------------------------------------------
(* The script. *)

\* Whatever is raised: no world is refreshed any more, and nothing is sent.
Fails ==
  /\ pc' = "failed" /\ guard' = "closed"
  /\ UNCHANGED <<task, tries, binding, denial, sent, ctx, scene, last, taken, wire, pipe, gate,
                 answers, arm, faults>>

Teardown ==
  /\ pc = "failed" /\ pc' = "ended"
  /\ UNCHANGED <<task, tries, binding, denial, sent, rig, pipe, gate, answers, arm, faults>>

\* A wait that is not met, a process that died, a measurement out of bounds.
TimesOut == pc \in Waits /\ Fails

\* A time is taken: what counts from here on.
Mark == /\ heard' = [heard EXCEPT !.fresh = FALSE, !.outs = {}, !.stops = 0, !.tracked = FALSE]
        /\ arm' = [arm EXCEPT !.drift = FALSE]

Park ==
  /\ pc = "park" /\ Finished
  /\ scene' = [scene EXCEPT !.case = Task.case]
  /\ UNCHANGED <<binding, denial, sent, ctx, guard, last, taken, wire, pipe, gate, answers, arm, faults>>

Place ==
  /\ pc = "place" /\ Finished
  /\ scene' = [scene EXCEPT !.fixture = @ + 1]
  /\ UNCHANGED <<binding, denial, sent, ctx, guard, last, taken, wire, pipe, gate, answers, arm, faults>>

\* rearm_for_test: after an ordinary completion or a denial the lab verified.
OrdinaryCompletion(v) == v.stop \in {"no_command", "startup"} /\ ~v.active /\ ~v.cancelling
ExpectedRejection(v) == denial /\ heard.fresh /\ v.stop = "denied" /\ ~v.active /\ ~v.cancelling

Goes(to) == pc' = to /\ UNCHANGED <<task, tries>>

Rearm ==
  /\ pc = "rearm" /\ heard.state # None
  /\ OrdinaryCompletion(heard.state) \/ ExpectedRejection(heard.state)
  /\ Goes("zeros") /\ Mark
  /\ UNCHANGED <<binding, denial, sent, rig, pipe, gate, told, outs, faults>>

\* setup_reset_ready: idle, and the gate has the latest scene.
Baseline ==
  /\ heard.state # None /\ last # None
  /\ ~heard.state.active /\ ~heard.state.cancelling
  /\ heard.state.revision = last.revision /\ heard.state.step = last.facts.step

SendZero ==
  /\ \/ pc = "zeros"
     \/ pc = "reset" /\ Baseline
  /\ Len(pipe) < 1 /\ pipe' = Append(pipe, [kind |-> "zero"])
  /\ UNCHANGED <<lab, rig, gate, answers, arm, faults>>

Rearmed ==
  /\ pc = "zeros" /\ heard.state.armed /\ heard.stops = 2
  /\ denial' = FALSE
  /\ Goes(CASE Task.op = "execute" -> "preflight" [] Task.op = "reject" -> "bind" [] OTHER -> "probe")
  /\ UNCHANGED <<binding, sent, rig, pipe, gate, answers, arm, faults>>

\* initialize_for_test: once, before the first arm proposal.
Initialize ==
  /\ pc = "initialize"
  /\ IF sent \/ denial THEN Fails
     ELSE Goes("bind") /\ UNCHANGED <<binding, denial, sent, rig, pipe, gate, answers, arm, faults>>

Resets ==
  /\ pc = "baseline" /\ Baseline /\ Goes("reset") /\ Mark
  /\ UNCHANGED <<binding, denial, sent, rig, pipe, gate, told, outs, faults>>

Initialized ==
  /\ pc = "reset" /\ Baseline /\ heard.state.armed /\ heard.stops = 2
  /\ Finished
  /\ UNCHANGED <<binding, denial, sent, rig, pipe, gate, answers, arm, faults>>

\* The authority the rearm gave is still there.
Preflight ==
  /\ pc = "preflight"
  /\ IF heard.state.armed /\ ~heard.state.active /\ ~heard.state.cancelling
       THEN pc' = "bind" /\ tries' = tries + 1 /\ UNCHANGED <<task, binding, denial, sent, rig, pipe, gate, answers, arm, faults>>
       ELSE Fails

\* set_semantic_context with a new step.
Bind ==
  /\ pc = "bind" /\ Goes("accepted")
  /\ ctx' = [ctx EXCEPT !.item = Task.item, !.contents = Task.contents, !.step = @ + 1]
  /\ UNCHANGED <<binding, denial, sent, scene, guard, last, taken, wire, pipe, gate, answers, arm, faults>>

\* A mutant: any scene the gate has.
AcceptedContextAny ==
  /\ last # None /\ heard.state # None
  /\ heard.state.revision = last.revision /\ heard.state.step = last.facts.step

\* accepted_context: the gate has this step's scene.
AcceptedContext ==
  /\ last # None /\ heard.state # None
  /\ last.facts.step = ctx.step
  /\ heard.state.revision = last.revision /\ heard.state.step = last.facts.step

Accepted ==
  /\ pc = "accepted" /\ AcceptedContext /\ Goes("take")
  /\ UNCHANGED <<binding, denial, sent, rig, pipe, gate, answers, arm, faults>>

BindingOf(s) == [kind |-> "binding", revision |-> s.revision, step |-> s.facts.step, item |-> s.facts.item]
Overridden(b) == CASE Task.bind = "own" -> b
                   [] Task.bind = "missing" -> None
                   [] Task.bind = "revision" -> [b EXCEPT !.revision = @ + 100]
                   [] Task.bind = "item" -> [b EXCEPT !.item = "unobserved"]

\* The snapshot is read again; the timer may have taken another since.
Take ==
  /\ pc = "take"
  /\ IF last = None THEN Fails
     ELSE /\ binding' = Overridden(BindingOf(last))
          /\ Goes(CASE Task.op = "execute" -> "judge" [] Task.op = "reject" -> "send" [] OTHER -> "baseline")
          /\ UNCHANGED <<denial, sent, rig, pipe, gate, answers, arm, faults>>

\* The observation that is judged, and what must not change before dispatch.
Judge ==
  /\ pc = "judge" /\ ~scene.failed /\ Goes("check")
  /\ scene' = [scene EXCEPT !.held = scene.fixture]
  /\ UNCHANGED <<binding, denial, sent, ctx, guard, last, taken, wire, pipe, gate, answers, arm, faults>>

\* A stale verdict is thrown away, as long as an attempt is left.
Check ==
  /\ pc = "check"
  /\ IF scene.fixture # scene.held THEN Fails
     ELSE /\ pc' \in {"dispatch"} \cup (IF tries < Attempts THEN {"preflight"} ELSE {})
          /\ UNCHANGED <<task, tries, binding, denial, sent, rig, pipe, gate, answers, arm, faults>>

Plan(danger) == [kind |-> "plan", own |-> Own, binding |-> binding, danger |-> danger]

Proposes(danger, to) ==
  /\ Goes(to) /\ Mark /\ sent' = TRUE
  /\ pipe' = Append(pipe, Plan(danger))
  /\ UNCHANGED <<denial, ctx, scene, last, taken, wire, gate, told, outs, faults>>

Dispatch == pc = "dispatch" /\ Proposes(FALSE, "reach") /\ guard' = "motion" /\ UNCHANGED binding

\* DispatchWatch and dispatch_denial: a denial was heard, and the log says it
\* was this very plan's.
Attributed ==
  /\ \E o \in heard.outs : o.kind = "bul"
  /\ [plan |-> Plan(FALSE), verdict |-> "bul"] \in gate.log

Reached ==
  /\ pc = "reach"
  /\ IF Attributed THEN Fails
     ELSE /\ arm.reached = ctx.step /\ Goes("settle")
          /\ UNCHANGED <<binding, denial, sent, rig, pipe, gate, answers, arm, faults>>

Settled ==
  /\ pc = "settle" /\ heard.fresh
  /\ ~heard.state.active /\ ~heard.state.cancelling /\ ~heard.state.pending
  /\ Goes("verdict")
  /\ UNCHANGED <<binding, denial, sent, rig, pipe, gate, answers, arm, faults>>

\* A positive control needs a settled motion, a scene that held, the plan seen
\* accepted, and its tracking.
Verdict ==
  /\ pc = "verdict"
  /\ IF heard.state.settled /\ Healthy /\ AcceptedOwn /\ heard.tracked
       THEN Finished /\ guard' = "off"
            /\ UNCHANGED <<binding, denial, sent, ctx, scene, last, taken, wire, pipe, gate, answers, arm, faults>>
       ELSE Fails

Send == pc = "send" /\ Proposes(Task.expected = "hazard", "refusal") /\ UNCHANGED <<binding, guard>>

\* reject_consumed_step: the step of the last positive control once more.
Probe ==
  /\ pc = "probe"
  /\ IF heard.state.settled /\ ~heard.state.pending /\ last # None
       THEN /\ Goes("refusal") /\ Mark /\ binding' = BindingOf(last)
            /\ pipe' = Append(pipe, [Plan(FALSE) EXCEPT !.binding = BindingOf(last)])
            /\ UNCHANGED <<denial, sent, rig, gate, told, outs, faults>>
       ELSE Fails

Refusal == IF Task.op = "consumed" THEN [kind |-> "rejected", error |-> "consumed"]
           ELSE [kind |-> "bul", fired |-> Task.expected]

\* A mutant: the arm is not measured.
HeldUnmeasured == \A o \in heard.outs : o.kind # "yun"

\* Nothing moved and no plan was accepted since it was sent.
Held == ~arm.drift /\ \A o \in heard.outs : o.kind # "yun"

\* The chemicals are refused by what the gate remembers, not by what it sees.
Remembered ==
  scene.case = "chemicals" /\ Task.op = "reject" /\ Task.expected = "hazard" =>
    last # None /\ last.facts.contents = {} /\ heard.state.retained

\* The refusal is heard, and 0.4 s later all that was on its way has come.
Refused ==
  /\ pc = "refusal" /\ Refusal \in heard.outs /\ outs = <<>> /\ pipe = <<>>
  /\ IF Held /\ Remembered
       THEN Finished /\ denial' = TRUE
            /\ UNCHANGED <<binding, sent, rig, pipe, gate, answers, arm, faults>>
       ELSE Fails

-----------------------------------------------------------------------------

Init ==
  /\ task = 1 /\ pc = Begins(1) /\ tries = 0 /\ binding = None /\ denial = FALSE /\ sent = FALSE
  /\ ctx = [item |-> "none", contents |-> {}, step |-> 0, revision |-> 0, facts |-> None]
  /\ scene = [case |-> "none", fixture |-> 0, held |-> 0, failed |-> FALSE]
  /\ guard = "off" /\ last = None /\ taken = None /\ wire = None /\ pipe = <<>>
  /\ gate \in {Fresh(d) : d \in Defects}
  /\ told = None /\ outs = <<>>
  /\ heard = [state |-> None, fresh |-> FALSE, outs |-> {}, stops |-> 0, tracked |-> FALSE]
  /\ arm = [drift |-> FALSE, reached |-> 0] /\ faults = 0

Gate == \/ GateWorld \/ GateZero \/ GatePlan \/ ArmReaches \/ GateExpires \/ GateSettles
        \/ GateStale \/ GateRejects \/ GateTells

Lab == \/ Park \/ Place \/ Rearm \/ SendZero \/ Rearmed \/ Initialize \/ Resets \/ Initialized
       \/ Preflight \/ Bind \/ Accepted \/ Take \/ Judge \/ Check \/ Dispatch \/ Reached
       \/ Settled \/ Verdict \/ Send \/ Probe \/ Refused

Next == Gate \/ Lab \/ Receive \/ TakeSnapshot \/ Publish \/ SceneChanges \/ Track
        \/ TimesOut \/ Teardown

Spec == Init /\ [][Next]_vars

-----------------------------------------------------------------------------

(* The lab completes only against a sound gate: one that admits a hazard,     *)
(* forgets a contaminant, replays a step, compares no binding or moves the    *)
(* arm on a refused plan fails it, whatever the order in which states,        *)
(* outcomes and worlds arrive (reject_at_gate, reject_consumed_step).         *)
CompletedIsSound == pc = "completed" => gate.defect = "none"

(* A plan the gate executes was judged in the scene of its own step: the case *)
(* and the item the script meant, never a snapshot of the step before or one  *)
(* taken halfway through a change of case (current_binding); and the gate     *)
(* never refuses a world of the lab's for its history: revisions never go     *)
(* back and one revision never names two scenes (semantic_snapshot).          *)
OwnScene ==
  /\ gate.active # None /\ gate.defect # "unbound" =>
       [f \in {"case", "item", "step"} |-> gate.active.scene[f]] = gate.active.own
  /\ ~gate.refused

=============================================================================
