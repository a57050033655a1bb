------------------------------ MODULE GateNode ------------------------------
(***************************************************************************)
(* ros/haetae_gate/node.py and bridge.py: the ROS node between the Rust       *)
(* enforcement process and the controllers, seen from its arm goal: the      *)
(* callbacks of the goal, its result and its cancellation, the requests to    *)
(* the engine around them, the deadlines, and the abort latch.               *)
(*                                                                         *)
(* The executor has one thread, so a callback is one step; what the          *)
(* controller does happens between callbacks.  ctl is the controller's        *)
(* record of every goal it was sent: a callback of a future is possible once   *)
(* that record says so, and may then be late.  Deadlines are counted down by   *)
(* TimePasses; None means not set.                                          *)
(*                                                                         *)
(* node.permits tells the two profiles apart: with signed controller permits   *)
(* (controller_key_path is set) a cancel is a signed stop, which may be lost,    *)
(* and not an action RPC.                                                   *)
(***************************************************************************)
EXTENDS Integers, FiniteSets

CONSTANTS
  Profiles,   \* whether controller_key_path is set: {TRUE}, {FALSE} or both
  Patience,   \* the 250 ms of the goal, cancel and abort deadlines
  MaxGoals    \* bound on the goals sent

ASSUME GateNodeAssumption == Profiles \subseteq BOOLEAN /\ {Patience, MaxGoals} \subseteq Nat

VARIABLES
  node,     \* the HaetaeGate object
  ctl,      \* what became of each goal at the controller
  net,      \* requests on their way to the controller
  eng       \* the enforcer's trajectory: "idle", "active" or "settling"

nodeVars == <<node, ctl, net, eng>>

None     == -1
GoalId   == 1..MaxGoals
Terminal == {"succeeded", "aborted", "canceled"}
Answered == {"rejected", "running", "canceling"} \cup Terminal
CancelOf(g) == <<"cancel", g>>
SignedStop  == <<"stop", 0>>

Fresh(permits) ==
         [permits |-> permits,
          id |-> 0,             \* the last goal sent
          goal |-> "none",      \* "future": arm_goal_future, "handle": arm_goal
          result |-> FALSE,     \* arm_result_future
          rpc |-> 0,            \* arm_cancel_future: the goal it is about
          cancel |-> FALSE,     \* cancel_requested
          goalLeft |-> None, cancelLeft |-> None, abortLeft |-> None,
          challenge |-> FALSE,  \* the arm controller's nonce is known
          failed |-> FALSE, exited |-> FALSE,
          cmd |-> "zero"]       \* the last base command published

NodeInit ==
  /\ \E permits \in Profiles : node = Fresh(permits)
  /\ ctl = [g \in GoalId |-> "unsent"]
  /\ net = {}
  /\ eng = "idle"

\* ---- the private methods: each maps a node, or a node and the network ----

\* A mutant: every request for the same cancellation starts the wait anew.
CancelWaitAgain(n) == Patience

\* The cancel deadline is absolute: set once per cancellation.
CancelWait(n) == IF n.cancelLeft = None THEN Patience ELSE n.cancelLeft

\* _cancel_arm.  A signed stop needs the controller's challenge and replaces
\* the RPC; without a goal nothing else is due.
SignsStop(n) == n.permits /\ n.challenge
SendsRpc(n)  == ~SignsStop(n) /\ n.goal = "handle" /\ n.rpc = 0

\* A mutant: a goal whose acceptance is in flight is not marked.
CancelArmKnownOnly(n) ==
  IF n.goal # "handle" THEN n
  ELSE [n EXCEPT !.cancel = TRUE, !.cancelLeft = CancelWait(n),
                 !.rpc = IF @ = 0 /\ ~SignsStop(n) THEN n.id ELSE @]

CancelArm(n) ==
  IF n.goal = "none" THEN n
  ELSE [n EXCEPT !.cancel = TRUE, !.cancelLeft = CancelWait(n),
                 !.rpc = IF SendsRpc(n) THEN n.id ELSE @]

CancelSends(n) ==
  (IF SignsStop(n) THEN {SignedStop} ELSE {}) \cup
  (IF SendsRpc(n) THEN {CancelOf(n.id)} ELSE {})

\* _publish_zero.
Zeroed(n) == [n EXCEPT !.cmd = "zero"]

\* _abort: latched, a zero command, a cancel, the bridge closed.
Abort(n) ==
  IF n.failed THEN n ELSE [CancelArm(Zeroed(n)) EXCEPT !.failed = TRUE, !.abortLeft = Patience]

AbortSends(n) == IF n.failed THEN {} ELSE CancelSends(n)

\* _execute_arm once the goal is built: the goal goes out, its deadline starts.
SendGoal(n) ==
  [n EXCEPT !.id = @ + 1, !.goal = "future", !.cancel = FALSE, !.goalLeft = Patience]

\* The guard of _execute_arm: neither a future nor a handle is left.
CanExecute(n) == n.goal = "none"

Becomes(n, sends) == node' = n /\ net' = net \cup sends

-----------------------------------------------------------------------------
(* _receive: one request to the engine and what its reply leads to.  A reply  *)
(* is fresh, expired (ExpiredActuation) or stale (StaleActuation) as           *)
(* require_fresh_actuation and _permit find it; only actuating replies are     *)
(* ever expired or stale.                                                    *)

Serving == ~node.failed /\ ~node.exited
Overdue == node.goalLeft = 0 \/ node.cancelLeft = 0

\* The tick looks at the deadlines before it asks the engine.
TickOverdue ==
  /\ Serving
  /\ Overdue
  /\ Becomes(Abort(node), AbortSends(node))
  /\ UNCHANGED <<ctl, eng>>

\* Any request may fail: no answer within the timeout, a closed pipe, a
\* malformed or an impossible answer, or a stale one.
BridgeFails ==
  /\ Serving
  /\ Becomes(Abort(node), AbortSends(node))
  /\ UNCHANGED <<ctl, eng>>

\* A reply without an arm order: the base command is published as it is; the
\* engine may meanwhile have seen the arm come to rest.
ReplyPlain(cmd) ==
  /\ Serving
  /\ Becomes([node EXCEPT !.cmd = cmd], {})
  /\ eng' \in {eng} \cup (IF eng = "settling" THEN {"idle"} ELSE {})
  /\ UNCHANGED ctl

\* A reply that starts a trajectory.
ReplyExecute(cmd) ==
  /\ Serving
  /\ eng = "idle"
  /\ eng' = "active"
  /\ LET n == [node EXCEPT !.cmd = cmd]
     IN  IF CanExecute(n)
           THEN /\ node.id < MaxGoals
                /\ Becomes(SendGoal(n), {})
                /\ ctl' = [ctl EXCEPT ![node.id + 1] = "sent"]
           ELSE /\ Becomes(Abort(n), AbortSends(n))
                /\ UNCHANGED ctl

\* A reply that ends one.
ReplyCancel(cmd) ==
  /\ Serving
  /\ eng = "active"
  /\ eng' = "settling"
  /\ Becomes(CancelArm([node EXCEPT !.cmd = cmd]), CancelSends(node))
  /\ UNCHANGED ctl

\* An actuating reply whose authority lapsed on the way, whatever it ordered:
\* zero and cancel at once, then the engine is told, which ends its motion too.
ReplyExpired ==
  /\ Serving
  /\ Becomes(CancelArm(Zeroed(node)), CancelSends(node))
  /\ eng' = IF eng = "active" THEN "settling" ELSE eng
  /\ UNCHANGED ctl

-----------------------------------------------------------------------------
(* The callbacks of the action client.                                      *)

\* _on_arm_goal, the accepted case of a live node.
GoalAccepted(n) ==
  LET m == [n EXCEPT !.goal = "handle", !.goalLeft = None, !.result = TRUE]
  IN  IF n.cancel THEN CancelArm(m) ELSE m

AcceptSends(n) == IF n.cancel THEN CancelSends(n) ELSE {}

\* _on_arm_goal: after the abort a late goal is cancelled; a rejection is an
\* answer to a signed stop, or a failure.
OnArmGoal ==
  /\ ~node.exited
  /\ node.goal = "future"
  /\ ctl[node.id] \in Answered
  /\ LET n == [node EXCEPT !.goal = "handle", !.goalLeft = None]
         accepted == ctl[node.id] # "rejected"
     IN  CASE n.failed ->
                Becomes(n, IF accepted THEN {CancelOf(n.id)} ELSE {})
           [] ~n.failed /\ accepted ->
                Becomes(GoalAccepted(node), AcceptSends(n))
           [] ~n.failed /\ ~accepted /\ n.permits /\ n.cancel ->
                Becomes([n EXCEPT !.goal = "none", !.cancelLeft = None, !.cancel = FALSE], {})
           [] OTHER -> Becomes(Abort(n), AbortSends(n))
  /\ UNCHANGED <<ctl, eng>>

\* The results that may follow a cancellation (_on_arm_result).
CancelledResult == IF node.permits THEN Terminal ELSE {"canceled"}

\* _on_arm_result.
OnArmResult ==
  /\ ~node.exited
  /\ node.result
  /\ ctl[node.id] \in Terminal
  /\ LET status == ctl[node.id]
         good   == IF node.cancel THEN status \in CancelledResult ELSE status = "succeeded"
     IN  IF good
           THEN Becomes([node EXCEPT !.goal = "none", !.result = FALSE,
                                     !.cancelLeft = None, !.cancel = FALSE], {})
           ELSE Becomes([Abort(node) EXCEPT !.result = FALSE], AbortSends(node))
  /\ UNCHANGED <<ctl, eng>>

\* _on_arm_cancel: the controller may answer that it has nothing to cancel.  The
\* answer may be late: the goal it is about need not be the current one.
OnArmCancel ==
  /\ ~node.exited
  /\ node.rpc # 0
  /\ CancelOf(node.rpc) \notin net
  /\ \/ Becomes([node EXCEPT !.rpc = 0], {})
     \/ /\ ctl[node.rpc] \in Terminal
        /\ node.goal = "handle" /\ ~node.permits
        /\ LET n == [node EXCEPT !.rpc = 0]
           IN  Becomes(Abort(n), AbortSends(n))
  /\ UNCHANGED <<ctl, eng>>

\* PermitSigner.observe: the arm controller's telemetry names its challenge.
Observe ==
  /\ node.permits /\ ~node.exited /\ ~node.challenge
  /\ node' = [node EXCEPT !.challenge = TRUE]
  /\ UNCHANGED <<ctl, net, eng>>

\* _abort_tick: zero again and again until the deadline, then exit.
AbortTick ==
  /\ node.failed /\ ~node.exited
  /\ node' = [Zeroed(node) EXCEPT !.exited = (node.abortLeft = 0)]
  /\ UNCHANGED <<ctl, net, eng>>

\* time.monotonic.  No deadline is passed by more than one tick of the timers.
Down(left) == IF left > 0 THEN left - 1 ELSE left

TimePasses ==
  /\ ~node.exited
  /\ node' = [node EXCEPT !.goalLeft = Down(@), !.cancelLeft = Down(@), !.abortLeft = Down(@)]
  /\ node' # node
  /\ UNCHANGED <<ctl, net, eng>>

-----------------------------------------------------------------------------
(* The controller and the way to it.                                        *)

Controller(g, from, to) ==
  /\ ctl[g] \in from
  /\ ctl' = [ctl EXCEPT ![g] = to]
  /\ UNCHANGED <<node, net, eng>>

\* The goal is admitted or refused; a running one ends on its own, or is
\* stopped by the controller's own lease or tolerances.
GoalAnswered(g) == \E to \in {"running", "rejected"} : Controller(g, {"sent"}, to)
GoalEnded(g) == \E to \in {"succeeded", "aborted"} : Controller(g, {"running", "canceling"}, to)
GoalCanceled(g) == Controller(g, {"canceling"}, "canceled")

\* A cancel request reaches the controller.
CancelArrives(g) ==
  /\ CancelOf(g) \in net
  /\ net' = net \ {CancelOf(g)}
  /\ ctl' = [ctl EXCEPT ![g] = IF @ = "running" THEN "canceling" ELSE @]
  /\ UNCHANGED <<node, eng>>

\* A signed stop locks the controller: the running goal is aborted, one that is
\* still on its way will be refused.  On a best-effort topic it may be lost.
StopArrives ==
  /\ SignedStop \in net
  /\ net' = net \ {SignedStop}
  /\ \/ ctl' = [g \in GoalId |-> CASE ctl[g] \in {"running", "canceling"} -> "aborted"
                                   [] ctl[g] = "sent" -> "rejected"
                                   [] OTHER -> ctl[g]]
     \/ UNCHANGED ctl
  /\ UNCHANGED <<node, eng>>

NodeNext ==
  \/ TickOverdue \/ BridgeFails \/ ReplyExpired
  \/ \E cmd \in {"zero", "move"} : ReplyPlain(cmd) \/ ReplyExecute(cmd) \/ ReplyCancel(cmd)
  \/ OnArmGoal \/ OnArmResult \/ OnArmCancel \/ Observe
  \/ AbortTick \/ TimePasses
  \/ \E g \in GoalId : GoalAnswered(g) \/ GoalEnded(g) \/ GoalCanceled(g) \/ CancelArrives(g)
  \/ StopArrives

NodeSpec == NodeInit /\ [][NodeNext]_nodeVars

\* The wall timers fire and time passes; nothing is assumed of the engine, of
\* the controller or of the network.  An overdue tick comes before anything
\* else that could still change the deadlines.
NodeFairness == WF_nodeVars(TickOverdue) /\ WF_nodeVars(AbortTick) /\ WF_nodeVars(TimePasses)

-----------------------------------------------------------------------------
Underway(g) == ctl[g] \in {"sent", "running", "canceling"}

\* The controller never has two trajectories of this node, neither on their way
\* nor running (node.py _execute_arm, and what clears arm_goal).
OneGoal == \A g, h \in GoalId : Underway(g) /\ Underway(h) => g = h

\* A goal the engine no longer authorises is being cancelled, or the node has
\* given up and is on its way out, even when the cancel came while the goal's
\* acceptance was still in flight (node.py _on_arm_goal, _cancel_arm).
CancelNotForgotten ==
  \A g \in GoalId :
    Underway(g) /\ (g # node.id \/ eng # "active")
      => node.cancel \/ node.failed

\* docs/security-release.md: "The bridge sends zero and requests arm
\* cancellation first".  A goal that runs although its cancellation was asked
\* for has the request on its way, also when it was asked for before the goal
\* was accepted, or when the acceptance came after the node had failed (node.py
\* _cancel_arm and _on_arm_goal, without permits).
CancelIsSent ==
  ~node.permits /\ node.cancel /\ node.goal = "handle" /\ ctl[node.id] = "running"
    => CancelOf(node.id) \in net

\* Once the bridge has failed no motion command stands, whatever callback was
\* running when it failed and whatever comes later (node.py _abort, _abort_tick).
AbortedIsZero == node.failed => node.cmd = "zero"

\* The node never leaves a motion to itself.
NoStrayMotion == OneGoal /\ CancelNotForgotten /\ AbortedIsZero

\* A cancellation and a failure end: the goal is resolved or the node exits,
\* although answers, results and stops may never come (node.py _tick and
\* _abort_tick: the deadlines).
CancelResolves ==
  /\ node.cancel ~> (~node.cancel \/ node.exited)
  /\ node.failed ~> node.exited
=============================================================================
