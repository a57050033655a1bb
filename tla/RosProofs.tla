------------------------------ MODULE RosProofs ------------------------------
(***************************************************************************)
(* The ROS side of a run.  First the way of a trajectory from the engine's  *)
(* decision to the controller: the relay for any number of goals in any     *)
(* state of one another, and the gate node for any number of goals and any  *)
(* deadlines, in both profiles.  Then what a user is shown: the driven      *)
(* person and the fixtures for any number of calls, and the live view for   *)
(* queues of every length and any number of pages and runs.                 *)
(*                                                                         *)
(* At the relay a cancellation arrives because the two places which may     *)
(* pass it on leave no gap: execute's check when the handle becomes known,  *)
(* and cancel's lookup from then on.  Passed says so, and Handles says that *)
(* the lookup finds exactly the goals whose coroutine has got that far.     *)
(*                                                                         *)
(* At the node what the controller may still do is the one goal the node    *)
(* knows (Known), because nothing clears arm_goal before the controller's   *)
(* record of the goal has ended, and no method forgets that a goal is to be *)
(* cancelled or that the node has failed (Keeps).                           *)
(*                                                                         *)
(* The driver copies the wanted target at one time and acknowledges its     *)
(* generation at another; only the newest generation is answered for, and   *)
(* that one Gazebo shows (NativeInv).                                       *)
(*                                                                         *)
(* A late acknowledgement of the fixture driver has another number than the *)
(* command it might stand in for, and a late command leaves no room for     *)
(* one to return before it is done (InTurn, Settled).                       *)
(*                                                                         *)
(* The hub sends rows it may have lost from its queues.  A page misses      *)
(* nothing that matters because the hub keeps the last checkpoint and scene *)
(* beside them: whatever a page has not had is under way to it, or newer    *)
(* than all that is and so in its next batch (Comes), and what it has had   *)
(* it shows (Shows).  A row is known by its number (Numbered), also across  *)
(* a restart, where a page starts again from nothing (Seen).                *)
(***************************************************************************)
EXTENDS Relay, GateNode, NativeScene, FixtureDriver, LiveHub, TLAPS

-----------------------------------------------------------------------------
(* The relay.                                                               *)

RelayGoals == {"none", "executing", "canceling"} \cup Ended
Awaits     == {"none", "sending", "canceling", "waiting", "done"}
Answers    == {"none", "asked", "refused", "executing"} \cup Ended

TypeOK ==
  /\ goal \in [Goals -> RelayGoals]
  /\ pc \in [Goals -> Awaits]
  /\ handles \subseteq Goals
  /\ controller \in [Goals -> Answers]
  /\ cancelSent \subseteq Goals
  /\ ready \in BOOLEAN

\* cancel finds the handle of a goal from the answer to its end.
Handles == \A g \in Goals : g \in handles <=> pc[g] \in {"canceling", "waiting"}

\* A goal is live while its coroutine runs.
Running == \A g \in Goals : pc[g] \in {"sending", "canceling", "waiting"} <=> goal[g] \in Live

\* A cancellation is passed on as soon as there is a handle for it.
Passed == \A g \in Goals : g \in handles /\ goal[g] = "canceling" => g \in cancelSent

IInv == TypeOK /\ Handles /\ Running /\ Passed

LEMMA StepTypes ==
  ASSUME IInv, [Next]_vars
  PROVE  TypeOK'
<1> USE DEF IInv, TypeOK, RelayGoals, Awaits, Answers, Ended
<1>1. CASE Discovered \/ UNCHANGED vars
  BY <1>1 DEF Discovered, vars
<1>2. ASSUME NEW g \in Goals, Execute(g) \/ GoalResponse(g) PROVE TypeOK'
  BY <1>2 DEF Execute, GoalResponse, Aborts
<1>3. ASSUME NEW g \in Goals, Result(g) PROVE TypeOK'
  <2>1. EndsAs(g) \in Ended
    BY <1>3 DEF Result, EndsAs
  <2>2. QED
    BY <1>3, <2>1 DEF Result
<1>4. ASSUME NEW g \in Goals, CancelResponse(g) \/ Cancel(g) PROVE TypeOK'
  BY <1>4 DEF CancelResponse, Cancel, CancelAsks
<1>5. ASSUME NEW g \in Goals, ControllerAnswers(g) \/ ControllerEnds(g) \/ ControllerCancels(g)
      PROVE  TypeOK'
  BY <1>5 DEF ControllerAnswers, ControllerEnds, ControllerCancels
<1> HIDE DEF IInv, TypeOK
<1>6. QED
  BY <1>1, <1>2, <1>3, <1>4, <1>5 DEF Next

\* A step of a goal keeps the books of every goal.
LEMMA StepForwards ==
  ASSUME IInv, [Next]_vars
  PROVE  Handles' /\ Running' /\ Passed'
<1> DEFINE Here(x) == /\ x \in handles <=> pc[x] \in {"canceling", "waiting"}
                      /\ pc[x] \in {"sending", "canceling", "waiting"} <=> goal[x] \in Live
                      /\ x \in handles /\ goal[x] = "canceling" => x \in cancelSent
<1> SUFFICES ASSUME NEW x \in Goals PROVE Here(x)'
  BY DEF Handles, Running, Passed
<1>0. Here(x) /\ goal \in [Goals -> RelayGoals] /\ pc \in [Goals -> Awaits]
  BY DEF IInv, TypeOK, Handles, Running, Passed
<1>1. CASE UNCHANGED <<goal, pc, handles, cancelSent>>
  BY <1>0, <1>1
<1>2. ASSUME NEW g \in Goals, Execute(g) PROVE Here(x)'
  BY <1>0, <1>2 DEF Execute, Aborts, Live
<1>3. ASSUME NEW g \in Goals, GoalResponse(g) PROVE Here(x)'
  BY <1>0, <1>3 DEF GoalResponse, Aborts, Forwards, Live
<1>4. ASSUME NEW g \in Goals, CancelResponse(g) PROVE Here(x)'
  BY <1>0, <1>4 DEF CancelResponse
<1>5. ASSUME NEW g \in Goals, Result(g) PROVE Here(x)'
  <2>1. EndsAs(g) \in Ended
    BY <1>5 DEF Result, EndsAs, Ended
  <2>2. QED
    BY <1>0, <1>5, <2>1 DEF Result, Live, Ended
<1>6. ASSUME NEW g \in Goals, Cancel(g) PROVE Here(x)'
  BY <1>0, <1>6 DEF Cancel, CancelAsks, Live
<1>7. ASSUME NEW g \in Goals, ControllerAnswers(g) \/ ControllerEnds(g) \/ ControllerCancels(g)
      PROVE  Here(x)'
  BY <1>1, <1>7 DEF ControllerAnswers, ControllerEnds, ControllerCancels
<1>8. CASE Discovered \/ UNCHANGED vars
  BY <1>1, <1>8 DEF Discovered, vars
<1> HIDE DEF Here
<1>9. QED
  BY <1>2, <1>3, <1>4, <1>5, <1>6, <1>7, <1>8 DEF Next

LEMMA Invariance ==
  Spec => []IInv
<1>1. Init => IInv
  BY DEF Init, IInv, TypeOK, Handles, Running, Passed, RelayGoals, Awaits, Answers, Live
<1>2. IInv /\ [Next]_vars => IInv'
  BY StepTypes, StepForwards DEF IInv
<1>3. QED
  BY <1>1, <1>2, PTL DEF Spec

\* The relay's tables stay in their types (relay.py, the three callbacks).
THEOREM TypeCorrect ==
  Spec => []TypeOK
<1>1. IInv => TypeOK
  BY DEF IInv
<1>2. QED
  BY <1>1, Invariance, PTL

\* A goal the relay waits for and has been asked to cancel is being cancelled at
\* the controller, at whichever await of execute the request came (relay.py).
THEOREM AlwaysForwarded ==
  Spec => []CancelIsForwarded
<1>1. IInv => CancelIsForwarded
  BY DEF IInv, Handles, Passed, CancelIsForwarded
<1>2. QED
  BY <1>1, Invariance, PTL

\* The gate hears of a success or a cancellation only what the controller did,
\* and of a cancellation only when it asked for one (relay.py execute, the end).
THEOREM EndsTruly ==
  Spec => EndIsTrue
<1> DEFINE True == \A g \in Goals : goal'[g] # goal[g] =>
                     /\ goal'[g] = "succeeded" => controller[g] = "succeeded"
                     /\ goal'[g] = "canceled" => controller[g] = "canceled" /\ goal[g] = "canceling"
<1>1. ASSUME IInv, [Next]_vars PROVE True
  <2>1. SUFFICES ASSUME NEW x \in Goals, goal'[x] # goal[x]
                 PROVE  /\ goal'[x] = "succeeded" => controller[x] = "succeeded"
                        /\ goal'[x] = "canceled" => controller[x] = "canceled" /\ goal[x] = "canceling"
    OBVIOUS
  <2>2. goal \in [Goals -> RelayGoals]
    BY <1>1 DEF IInv, TypeOK
  <2>3. ASSUME NEW g \in Goals, Execute(g) \/ GoalResponse(g) \/ Cancel(g)
        PROVE  goal'[x] \notin {"succeeded", "canceled"}
    BY <2>1, <2>2, <2>3 DEF Execute, GoalResponse, Aborts, Cancel
  <2>4. ASSUME NEW g \in Goals, Result(g)
        PROVE  /\ goal'[x] = "succeeded" => controller[x] = "succeeded"
               /\ goal'[x] = "canceled" => controller[x] = "canceled" /\ goal[x] = "canceling"
    BY <2>1, <2>2, <2>4 DEF Result, EndsAs
  <2>5. ASSUME NEW g \in Goals, CancelResponse(g) \/ ControllerAnswers(g) \/ ControllerEnds(g)
                                \/ ControllerCancels(g)
        PROVE  FALSE
    BY <2>1, <2>5 DEF CancelResponse, ControllerAnswers, ControllerEnds, ControllerCancels
  <2>6. ~(Discovered \/ UNCHANGED vars)
    BY <2>1 DEF Discovered, vars
  <2>7. QED
    BY <1>1, <2>3, <2>4, <2>5, <2>6 DEF Next
<1>2. QED
  BY <1>1, Invariance, PTL DEF Spec, EndIsTrue

-----------------------------------------------------------------------------
(* The gate node.                                                           *)

\* The HaetaeGate object.
NodeState ==
  [permits : BOOLEAN, id : Nat, goal : {"none", "future", "handle"}, result : BOOLEAN,
   rpc : Nat, cancel : BOOLEAN, goalLeft : Int, cancelLeft : Int, abortLeft : Int,
   challenge : BOOLEAN, failed : BOOLEAN, exited : BOOLEAN, cmd : {"zero", "move"}]

\* What the controller's record of a goal may say.
Fate == {"unsent", "sent"} \cup Answered

NodeTypeOK ==
  /\ node \in NodeState
  /\ ctl \in [GoalId -> Fate]

\* What the controller may still do of the node's is the goal the node knows,
\* and one the engine no longer wants is being cancelled, unless the node failed.
Known(n, c, e) ==
  \A g \in GoalId :
    c[g] \in {"sent", "running", "canceling"} =>
      /\ g = n.id /\ n.goal # "none"
      /\ e = "active" \/ n.cancel \/ n.failed

NodeIInv == NodeTypeOK /\ Known(node, ctl, eng) /\ AbortedIsZero

\* What a private method does to a node: it never forgets a goal, nor that one is
\* to be cancelled, nor a failure, and lets no motion stand after one.
Keeps(m, n) ==
  /\ m \in NodeState
  /\ m.id = n.id /\ m.goal = n.goal
  /\ n.cancel => m.cancel
  /\ n.failed => m.failed
  /\ m.failed => m.cmd = "zero"

LEMMA CancelKeeps ==
  ASSUME NEW n \in NodeState
  PROVE  LET c == CancelArm(n)
         IN  /\ c \in NodeState
             /\ c.id = n.id /\ c.goal = n.goal /\ c.failed = n.failed /\ c.cmd = n.cmd
             /\ c.result = n.result
             /\ n.cancel \/ n.goal # "none" => c.cancel
<1>1. CASE n.goal = "none"
  BY <1>1 DEF CancelArm
<1>2. CASE n.goal # "none"
  <2> DEFINE w == CancelWait(n)
             r == IF SendsRpc(n) THEN n.id ELSE n.rpc
  <2>1. w \in Int /\ r \in Nat
    BY GateNodeAssumption DEF NodeState, CancelWait
  <2>2. CancelArm(n) = [n EXCEPT !.cancel = TRUE, !.cancelLeft = w, !.rpc = r]
    BY <1>2 DEF CancelArm
  <2> HIDE DEF w, r
  <2>3. QED
    BY <2>1, <2>2 DEF NodeState
<1>3. QED
  BY <1>1, <1>2

LEMMA AbortKeeps ==
  ASSUME NEW n \in NodeState, n.failed => n.cmd = "zero"
  PROVE  Keeps(Abort(n), n) /\ Abort(n).failed
<1> DEFINE z == Zeroed(n)
           c == CancelArm(z)
<1>1. z \in NodeState /\ z.cmd = "zero" /\ z.id = n.id /\ z.goal = n.goal /\ z.cancel = n.cancel
  BY DEF NodeState, Zeroed
<1>2. /\ c \in NodeState /\ c.cmd = z.cmd /\ c.id = z.id /\ c.goal = z.goal
      /\ z.cancel => c.cancel
  <2> HIDE DEF z
  <2>1. QED
    BY <1>1, CancelKeeps
<1>3. Abort(n) = IF n.failed THEN n
        ELSE [c EXCEPT !.failed = TRUE, !.abortLeft = Patience]
  BY DEF Abort
<1> HIDE DEF z, c
<1>4. CASE n.failed
  BY <1>3, <1>4 DEF Keeps
<1>5. CASE ~n.failed
  <2> DEFINE m == Abort(n)
  <2>1. m = [c EXCEPT !.failed = TRUE, !.abortLeft = Patience]
    BY <1>3, <1>5
  <2>2. Patience \in Int
    BY GateNodeAssumption
  <2>3. /\ m \in NodeState
        /\ m.id = c.id /\ m.goal = c.goal /\ m.cancel = c.cancel /\ m.cmd = c.cmd /\ m.failed = TRUE
    <3> HIDE DEF m
    <3>1. QED
      BY <1>2, <2>1, <2>2 DEF NodeState
  <2> HIDE DEF m
  <2>4. n.cancel => m.cancel
    BY <1>1, <1>2, <2>3
  <2>5. Keeps(m, n) /\ m.failed
    BY <1>1, <1>2, <1>5, <2>3, <2>4 DEF Keeps
  <2>6. QED
    BY <2>5 DEF m
<1>6. QED
  BY <1>4, <1>5

\* A goal stays known to a node that keeps it, and to be cancelled if it was.
LEMMA StaysKnown ==
  ASSUME NEW n \in NodeState, NEW m \in NodeState, NEW c, NEW e, NEW f,
         Known(n, c, e), m.id = n.id, m.goal # "none" \/ m.goal = n.goal,
         n.cancel => m.cancel, n.failed => m.failed,
         e = "active" => f = "active" \/ m.goal = "none" \/ m.cancel \/ m.failed
  PROVE  Known(m, c, f)
  BY DEF Known

\* Nothing of a goal comes back: the controller's record of one that is not
\* under way is left alone.
LEMMA FewerKnown ==
  ASSUME NEW n, NEW c, NEW d, NEW e, Known(n, c, e),
         \A g \in GoalId : d[g] \in {"sent", "running", "canceling"}
                                  => c[g] \in {"sent", "running", "canceling"}
  PROVE  Known(n, d, e)
  BY DEF Known

LEMMA NodeStarts ==
  ASSUME NodeInit
  PROVE  NodeIInv
<1>1. PICK permits \in Profiles : node = Fresh(permits)
  BY DEF NodeInit
<1>2. node \in NodeState
  BY <1>1, GateNodeAssumption DEF Fresh, None, NodeState
<1>3. ctl \in [GoalId -> Fate] /\ Known(node, ctl, eng)
  BY DEF NodeInit, Known, Fate
<1>4. ~node.failed
  BY <1>1 DEF Fresh
<1>5. QED
  BY <1>2, <1>3, <1>4 DEF NodeIInv, NodeTypeOK, AbortedIsZero

\* The requests to the engine and what their replies lead to.
LEMMA RepliesKeep ==
  ASSUME NodeIInv,
         \/ TickOverdue \/ BridgeFails \/ ReplyExpired
         \/ \E cmd \in {"zero", "move"} :
              ReplyPlain(cmd) \/ ReplyExecute(cmd) \/ ReplyCancel(cmd)
  PROVE  NodeIInv'
<1> USE DEF NodeIInv, NodeTypeOK, AbortedIsZero
<1>1. CASE TickOverdue \/ BridgeFails
  <2>1. node' = Abort(node) /\ ctl' = ctl /\ eng' = eng
    BY <1>1 DEF TickOverdue, BridgeFails, Becomes
  <2>2. Keeps(node', node)
    BY <2>1, AbortKeeps
  <2>3. Known(node', ctl, eng)
    BY <2>2, StaysKnown DEF Keeps
  <2>4. QED
    BY <2>1, <2>2, <2>3 DEF Keeps
<1>2. CASE ReplyExpired
  <2> DEFINE z == Zeroed(node)
  <2>1. node' = CancelArm(z) /\ ctl' = ctl /\ eng' \in {eng, "settling"}
    BY <1>2 DEF ReplyExpired, Becomes
  <2>2. /\ z \in NodeState /\ z.id = node.id /\ z.goal = node.goal /\ z.cancel = node.cancel
        /\ z.failed = node.failed /\ z.cmd = "zero"
    BY DEF Zeroed, NodeState
  <2> HIDE DEF z
  <2>3. /\ node' \in NodeState /\ node'.id = node.id /\ node'.goal = node.goal
        /\ node'.failed = node.failed /\ node'.cmd = "zero"
        /\ node.cancel \/ node.goal # "none" => node'.cancel
    BY <2>1, <2>2, CancelKeeps
  <2>4. Known(node', ctl, eng')
    BY <2>3, StaysKnown
  <2>5. QED
    BY <2>1, <2>3, <2>4
<1>3. ASSUME NEW cmd \in {"zero", "move"}, ReplyPlain(cmd) PROVE NodeIInv'
  <2>1. /\ node' = [node EXCEPT !.cmd = cmd] /\ ctl' = ctl /\ ~node.failed
        /\ eng = "active" => eng' = "active"
    BY <1>3 DEF ReplyPlain, Becomes, Serving
  <2>2. /\ node' \in NodeState /\ node'.id = node.id /\ node'.goal = node.goal
        /\ node'.cancel = node.cancel /\ node'.failed = node.failed
    BY <2>1 DEF NodeState
  <2>3. Known(node', ctl, eng')
    BY <2>1, <2>2, StaysKnown
  <2>4. QED
    BY <2>1, <2>2, <2>3
<1>4. ASSUME NEW cmd \in {"zero", "move"}, ReplyExecute(cmd) PROVE NodeIInv'
  <2> DEFINE n == [node EXCEPT !.cmd = cmd]
  <2>1. /\ n \in NodeState /\ n.id = node.id /\ n.goal = node.goal
        /\ n.cancel = node.cancel /\ n.failed = node.failed
    BY DEF NodeState
  <2>2. ~node.failed /\ eng' = "active"
    BY <1>4 DEF ReplyExecute, Serving
  <2>3. CASE CanExecute(n)
    <3>1. node' = SendGoal(n) /\ ctl' = [ctl EXCEPT ![node.id + 1] = "sent"]
      BY <1>4, <2>3 DEF ReplyExecute, Becomes
    <3> HIDE DEF n
    <3>2. /\ node' \in NodeState /\ node'.id = node.id + 1 /\ node'.goal = "future"
          /\ node'.failed = n.failed
      <4>1. Patience \in Int
        BY GateNodeAssumption
      <4>2. n.id \in Nat /\ n.id + 1 \in Nat
        BY <2>1 DEF NodeState
      <4>3. node' = [n EXCEPT !.id = n.id + 1, !.goal = "future", !.cancel = FALSE,
                             !.goalLeft = Patience]
        BY <3>1 DEF SendGoal
      <4>4. QED
        BY <2>1, <4>1, <4>2, <4>3 DEF NodeState
    <3>3. ctl' \in [GoalId -> Fate]
      BY <3>1 DEF Fate
    <3>4. \A g \in GoalId : ctl[g] \notin {"sent", "running", "canceling"}
      BY <2>1, <2>3 DEF Known, CanExecute
    <3>5. Known(node', ctl', eng')
      BY <2>2, <3>1, <3>2, <3>4 DEF Known
    <3>6. QED
      BY <2>1, <2>2, <3>2, <3>3, <3>5
  <2>4. CASE ~CanExecute(n)
    <3>1. node' = Abort(n) /\ ctl' = ctl
      BY <1>4, <2>4 DEF ReplyExecute, Becomes
    <3> HIDE DEF n
    <3>2. Keeps(node', n)
      BY <2>1, <2>2, <3>1, AbortKeeps
    <3>3. Known(node', ctl, eng')
      BY <2>1, <2>2, <3>2, StaysKnown DEF Keeps
    <3>4. QED
      BY <3>1, <3>2, <3>3 DEF Keeps
  <2>5. QED
    BY <2>3, <2>4
<1>5. ASSUME NEW cmd \in {"zero", "move"}, ReplyCancel(cmd) PROVE NodeIInv'
  <2> DEFINE n == [node EXCEPT !.cmd = cmd]
  <2>1. /\ n \in NodeState /\ n.id = node.id /\ n.goal = node.goal
        /\ n.cancel = node.cancel /\ n.failed = node.failed
    BY DEF NodeState
  <2>2. node' = CancelArm(n) /\ ctl' = ctl /\ ~node.failed
    BY <1>5 DEF ReplyCancel, Becomes, Serving
  <2> HIDE DEF n
  <2>3. /\ node' \in NodeState /\ node'.id = node.id /\ node'.goal = node.goal
        /\ node'.failed = node.failed
        /\ node.cancel \/ node.goal # "none" => node'.cancel
    BY <2>1, <2>2, CancelKeeps
  <2>4. Known(node', ctl, eng')
    BY <2>3, StaysKnown
  <2>5. QED
    BY <2>2, <2>3, <2>4
<1>6. QED
  BY <1>1, <1>2, <1>3, <1>4, <1>5

\* The callbacks of the action client.
LEMMA CallbacksKeep ==
  ASSUME NodeIInv,
         OnArmGoal \/ OnArmResult \/ OnArmCancel
  PROVE  NodeIInv'
<1> USE DEF NodeIInv, NodeTypeOK, AbortedIsZero
<1>0. None \in Int /\ ctl' = ctl /\ eng' = eng
  BY DEF None, OnArmGoal, OnArmResult, OnArmCancel
\* A node that forgets its goal had none under way.
<1>1. ASSUME NEW m \in NodeState, node' = m, m.id = node.id, m.failed = node.failed,
             m.cmd = node.cmd, ctl[node.id] \notin {"sent", "running", "canceling"}
      PROVE  NodeIInv'
  <2>1. \A g \in GoalId : ctl[g] \notin {"sent", "running", "canceling"}
    BY <1>1 DEF Known
  <2>2. Known(node', ctl', eng')
    BY <1>0, <2>1 DEF Known
  <2>3. QED
    BY <1>0, <1>1, <2>2
\* One that keeps it keeps everything.
<1>2. ASSUME NEW n \in NodeState, n.id = node.id, n.goal # "none" \/ n.goal = node.goal,
             n.cancel = node.cancel, n.failed = node.failed, Keeps(node', n)
      PROVE  NodeIInv'
  <2>1. Known(node', ctl, eng)
    BY <1>2, StaysKnown DEF Keeps
  <2>2. QED
    BY <1>0, <1>2, <2>1 DEF Keeps
<1>3. CASE OnArmGoal
  <2> DEFINE n == [node EXCEPT !.goal = "handle", !.goalLeft = None]
             m == [node EXCEPT !.goal = "handle", !.goalLeft = None, !.result = TRUE]
  <2>1. /\ n \in NodeState /\ n.id = node.id /\ n.goal = "handle"
        /\ n.cancel = node.cancel /\ n.failed = node.failed /\ n.cmd = node.cmd
        /\ n.permits = node.permits
    BY <1>0 DEF NodeState
  <2>2. /\ m \in NodeState /\ m.id = node.id /\ m.goal = "handle"
        /\ m.cancel = node.cancel /\ m.failed = node.failed /\ m.cmd = node.cmd
    BY <1>0 DEF NodeState
  <2>3. ctl[node.id] \in Answered
    BY <1>3 DEF OnArmGoal
  <2>4. \/ n.failed /\ node' = n
        \/ ~n.failed /\ ctl[node.id] # "rejected" /\ node' = GoalAccepted(node)
        \/ /\ ~n.failed /\ ctl[node.id] = "rejected"
           /\ node' = [n EXCEPT !.goal = "none", !.cancelLeft = None, !.cancel = FALSE]
        \/ node' = Abort(n)
    BY <1>3 DEF OnArmGoal, Becomes
  <2>5. GoalAccepted(node) = IF m.cancel THEN CancelArm(m) ELSE m
    BY <2>2 DEF GoalAccepted
  <2> HIDE DEF n, m
  <2>6. CASE n.failed /\ node' = n
    BY <1>2, <2>1, <2>6 DEF Keeps
  <2>7. CASE ~n.failed /\ ctl[node.id] # "rejected" /\ node' = GoalAccepted(node)
    <3>1. CASE m.cancel
      <4>1. node' = CancelArm(m)
        BY <2>5, <2>7, <3>1
      <4>2. Keeps(node', m)
        BY <2>1, <2>2, <2>7, <4>1, CancelKeeps DEF Keeps
      <4>3. QED
        BY <1>2, <2>2, <4>2
    <3>2. CASE ~m.cancel
      BY <1>2, <2>1, <2>2, <2>5, <2>7, <3>2 DEF Keeps
    <3>3. QED
      BY <3>1, <3>2
  <2>8. CASE /\ ctl[node.id] = "rejected"
             /\ node' = [n EXCEPT !.goal = "none", !.cancelLeft = None, !.cancel = FALSE]
    <3>1. node' \in NodeState /\ node'.id = n.id /\ node'.failed = n.failed /\ node'.cmd = n.cmd
      BY <1>0, <2>1, <2>8 DEF NodeState
    <3>2. QED
      BY <1>1, <2>1, <2>8, <3>1
  <2>9. CASE node' = Abort(n)
    BY <1>2, <2>1, <2>9, AbortKeeps
  <2>10. QED
    BY <2>4, <2>6, <2>7, <2>8, <2>9
<1>4. CASE OnArmResult
  <2> DEFINE n == Abort(node)
  <2>1. /\ ctl[node.id] \in Terminal
        /\ \/ node' = [node EXCEPT !.goal = "none", !.result = FALSE,
                                   !.cancelLeft = None, !.cancel = FALSE]
           \/ node' = [n EXCEPT !.result = FALSE]
    BY <1>4 DEF OnArmResult, Becomes
  <2>2. Keeps(n, node)
    BY AbortKeeps
  <2> HIDE DEF n
  <2>3. CASE node' = [n EXCEPT !.result = FALSE]
    <3>1. /\ node' \in NodeState /\ node'.id = n.id /\ node'.goal = n.goal
          /\ node'.cancel = n.cancel /\ node'.failed = n.failed /\ node'.cmd = n.cmd
      BY <2>2, <2>3 DEF Keeps, NodeState
    <3>2. Keeps(node', node)
      BY <2>2, <3>1 DEF Keeps
    <3>3. QED
      BY <1>2, <3>2
  <2>4. CASE node' = [node EXCEPT !.goal = "none", !.result = FALSE,
                                  !.cancelLeft = None, !.cancel = FALSE]
    <3>1. /\ node' \in NodeState /\ node'.id = node.id
          /\ node'.failed = node.failed /\ node'.cmd = node.cmd
      BY <1>0, <2>4 DEF NodeState
    <3>2. QED
      BY <1>1, <2>1, <3>1 DEF Terminal
  <2>5. QED
    BY <2>1, <2>3, <2>4
<1>5. CASE OnArmCancel
  <2> DEFINE n == [node EXCEPT !.rpc = 0]
  <2>1. node' = n \/ node' = Abort(n)
    BY <1>5 DEF OnArmCancel, Becomes
  <2>2. /\ n \in NodeState /\ n.id = node.id /\ n.goal = node.goal
        /\ n.cancel = node.cancel /\ n.failed = node.failed /\ n.cmd = node.cmd
    BY DEF NodeState
  <2> HIDE DEF n
  <2>3. Keeps(n, n) /\ Keeps(Abort(n), n)
    BY <2>2, AbortKeeps DEF Keeps
  <2>4. QED
    BY <1>2, <2>1, <2>2, <2>3
<1>6. QED
  BY <1>3, <1>4, <1>5

\* Time, the timers, the telemetry and the controller.
LEMMA RestKeeps ==
  ASSUME NodeIInv,
         \/ Observe \/ AbortTick \/ TimePasses \/ StopArrives
         \/ \E g \in GoalId : \/ GoalAnswered(g) \/ GoalEnded(g)
                                   \/ GoalCanceled(g) \/ CancelArrives(g)
         \/ UNCHANGED nodeVars
  PROVE  NodeIInv'
<1> USE DEF NodeIInv, NodeTypeOK, AbortedIsZero
<1>1. ASSUME Keeps(node', node), ctl' = ctl, eng' = eng PROVE NodeIInv'
  <2>1. Known(node', ctl, eng)
    BY <1>1, StaysKnown DEF Keeps
  <2>2. QED
    BY <1>1, <2>1 DEF Keeps
<1>2. CASE Observe
  <2>1. Keeps(node', node)
    BY <1>2 DEF Observe, Keeps, NodeState
  <2>2. QED
    BY <1>1, <1>2, <2>1 DEF Observe
<1>3. CASE AbortTick
  <2> DEFINE z == Zeroed(node)
             x == node.abortLeft = 0
  <2>1. node' = [z EXCEPT !.exited = x] /\ ctl' = ctl /\ eng' = eng
    BY <1>3 DEF AbortTick
  <2>2. /\ z \in NodeState /\ z.id = node.id /\ z.goal = node.goal /\ z.cancel = node.cancel
        /\ z.failed = node.failed /\ z.cmd = "zero"
    BY DEF Zeroed, NodeState
  <2>3. x \in BOOLEAN
    OBVIOUS
  <2> HIDE DEF z, x
  <2>4. Keeps(node', node)
    BY <2>1, <2>2, <2>3 DEF Keeps, NodeState
  <2>5. QED
    BY <1>1, <2>1, <2>4
<1>4. CASE TimePasses
  <2>1. Down(node.goalLeft) \in Int /\ Down(node.cancelLeft) \in Int
        /\ Down(node.abortLeft) \in Int
    BY DEF Down, NodeState
  <2>2. /\ node' = [node EXCEPT !.goalLeft = Down(@), !.cancelLeft = Down(@),
                                !.abortLeft = Down(@)]
        /\ ctl' = ctl /\ eng' = eng
    BY <1>4 DEF TimePasses
  <2>3. Keeps(node', node)
    BY <2>1, <2>2 DEF Keeps, NodeState
  <2>4. QED
    BY <1>1, <2>2, <2>3
<1>5. ASSUME node' = node, eng' = eng, ctl' \in [GoalId -> Fate],
             \A g \in GoalId : ctl'[g] \in {"sent", "running", "canceling"}
                                      => ctl[g] \in {"sent", "running", "canceling"}
      PROVE  NodeIInv'
  BY <1>5, FewerKnown
<1>6. ASSUME NEW g \in GoalId,
             \/ GoalAnswered(g) \/ GoalEnded(g)
             \/ GoalCanceled(g) \/ CancelArrives(g)
      PROVE  NodeIInv'
  BY <1>5, <1>6 DEF GoalAnswered, GoalEnded, GoalCanceled,
                    CancelArrives, Controller, Fate, Answered, Terminal
<1>7. CASE StopArrives
  BY <1>5, <1>7 DEF StopArrives, Fate, Answered, Terminal
<1>8. CASE UNCHANGED nodeVars
  BY <1>8 DEF nodeVars
<1>9. QED
  BY <1>2, <1>3, <1>4, <1>6, <1>7, <1>8

\* The gate node leaves no motion to itself: the controller has at most the goal
\* the node knows, one the engine withdrew is being cancelled or the node is on
\* its way out, and after a failure no motion command stands (node.py
\* _execute_arm, _cancel_arm, _on_arm_goal, _abort).
THEOREM NeverStrays ==
  NodeSpec => []NoStrayMotion
<1>1. NodeInit => NodeIInv
  BY NodeStarts
<1>2. NodeIInv /\ [NodeNext]_nodeVars => NodeIInv'
  BY RepliesKeep, CallbacksKeep, RestKeeps DEF NodeNext
<1>3. NodeIInv => NoStrayMotion
  BY DEF NodeIInv, Known, NoStrayMotion, OneGoal, CancelNotForgotten, Underway
<1>4. QED
  BY <1>1, <1>2, <1>3, PTL DEF NodeSpec

-----------------------------------------------------------------------------
(* The driven person.                                                       *)

Where == Places \cup {Nowhere}
Target == [place : Where, visible : BOOLEAN, generation : Nat]

NativeTypeOK ==
  /\ target \in Target
  /\ ack \in Nat
  /\ driver \in [pc : {"reads", "calibrates", "publishes"}, copy : Target]
  /\ sent \in Where \cup {"none"}
  /\ status \in {-1, 0, 1}
  /\ gazebo \in [visible : BOOLEAN, place : Where]
  /\ caller \in [pc : {"idle", "waits", "true", "false"}, generation : Nat, visible : BOOLEAN]
  /\ moves \in Nat

NativeInv ==
  /\ NativeTypeOK
  /\ ack <= driver.copy.generation /\ driver.copy.generation <= target.generation
  /\ driver.pc = "calibrates" => ack < driver.copy.generation
  /\ driver.copy.generation = target.generation => driver.copy.visible = target.visible
  /\ ack = target.generation => gazebo.visible = target.visible
  /\ caller.pc \in {"waits", "true"} =>
       caller.generation = target.generation /\ caller.visible = target.visible
  /\ caller.pc = "true" => ack = target.generation

\* The scene starts with the target in place.
LEMMA NativeStart == NativeInit => NativeInv
<1> SUFFICES ASSUME NativeInit PROVE NativeInv
  OBVIOUS
<1>1. target \in Target /\ target.generation = 0 /\ target.visible = TRUE
  BY DEF NativeInit, Target, Where
<1>2. driver.copy = target /\ driver \in [pc : {"reads", "calibrates", "publishes"}, copy : Target]
  BY <1>1 DEF NativeInit
<1>3. gazebo \in [visible : BOOLEAN, place : Where] /\ gazebo.visible = TRUE
  BY DEF NativeInit, Where
<1>4. /\ ack = target.generation /\ driver.copy.generation = target.generation
      /\ target.generation <= target.generation
      /\ driver.pc = "reads" /\ caller.pc = "idle"
  BY <1>1, <1>2 DEF NativeInit
<1>5. driver.copy.visible = target.visible /\ gazebo.visible = target.visible
  BY <1>1, <1>2, <1>3, Zenon
<1>6. NativeTypeOK
  BY <1>1, <1>2, <1>3 DEF NativeInit, NativeTypeOK
<1>7. QED
  BY <1>4, <1>5, <1>6 DEF NativeInv

\* The orchestrator's calls and the driver's steps keep the generations in order.
LEMMA NativeStep == NativeInv /\ [NativeNext]_nativeVars => NativeInv'
<1> SUFFICES ASSUME NativeInv, [NativeNext]_nativeVars PROVE NativeInv'
  OBVIOUS
<1> USE DEF NativeInv, NativeTypeOK, Target
<1>1. ASSUME NEW place \in Places, Drive(place) PROVE NativeInv'
  <2>1. place \in Where
    BY DEF Where
  <2>2. QED
    BY <1>1, <2>1 DEF Drive
<1>2. ASSUME NEW visible \in BOOLEAN, CalibrationVisible(visible) PROVE NativeInv'
  <2>1. /\ target' \in Target
        /\ target'.generation = target.generation + 1 /\ target'.visible = visible
        /\ target.generation \in Nat
    <3>1. target' = [target EXCEPT !.visible = visible, !.generation = target.generation + 1]
      BY <1>2 DEF CalibrationVisible
    <3>2. target \in Target
      OBVIOUS
    <3>3. target.generation \in Nat /\ target'.generation = target.generation + 1
      BY <3>1, <3>2
    <3>4. target'.visible = visible
      BY <3>1, <3>2, Zenon
    <3>5. target' \in Target
      <4>1. target.place \in Where
        BY <3>2
      <4>2. target' = [place |-> target.place, visible |-> visible,
                       generation |-> target.generation + 1]
        BY <3>1, <3>2, Zenon
      <4>3. target.generation + 1 \in Nat
        BY <3>3
      <4>4. QED
        BY <4>1, <4>2, <4>3, Zenon
    <3>6. QED
      BY <3>3, <3>4, <3>5
  <2>2. /\ caller' = [pc |-> "waits", generation |-> target.generation + 1, visible |-> visible]
        /\ UNCHANGED <<ack, driver, sent, status, gazebo, moves>>
    BY <1>2 DEF CalibrationVisible
  <2>3. ack \in Nat /\ driver.copy.generation \in Nat
    OBVIOUS
  <2>4. /\ ack <= target.generation /\ ack # target'.generation
        /\ driver.copy.generation # target'.generation
        /\ driver.copy.generation <= target'.generation
    BY <2>1, <2>3
  <2>5. NativeTypeOK'
    BY <2>1, <2>2
  <2>6. QED
    BY <2>1, <2>2, <2>4, <2>5
<1>3. CASE CalibrationAcked
  BY <1>3 DEF CalibrationAcked
<1>4. CASE CalibrationTimeout
  BY <1>4 DEF CalibrationTimeout
<1>5. CASE DriverReads
  BY <1>5 DEF DriverReads
<1>6. CASE DriverCalibrates
  BY <1>6 DEF DriverCalibrates, AckedGeneration
<1>7. ASSUME NEW b \in BOOLEAN, DriverCalibrationFails(b) PROVE NativeInv'
  BY <1>7 DEF DriverCalibrationFails
<1>8. ASSUME NEW b \in BOOLEAN, DriverPublishes(b) PROVE NativeInv'
  BY <1>8 DEF DriverPublishes, PosePublished
<1>9. CASE UNCHANGED nativeVars
  BY <1>9 DEF nativeVars
<1>10. QED
  BY <1>1, <1>2, <1>3, <1>4, <1>5, <1>6, <1>7, <1>8, <1>9 DEF NativeNext

\* When calibration_visible has answered True, Gazebo shows the calibration target as the
\* caller asked, and no late call for an earlier generation undoes it (native_person.py).
THEOREM AckIsAlwaysApplied == NativeSpec => []AckIsApplied
<1>1. NativeInv => AckIsApplied
  BY DEF NativeInv, AckIsApplied
<1>2. QED
  BY <1>1, NativeStart, NativeStep, PTL DEF NativeSpec

-----------------------------------------------------------------------------
(* The fixtures of the household lab.                                       *)

Commands == {<< >>} \cup {<<id>> : id \in Nat}
Ack      == [id : Nat, done : BOOLEAN]
Acks     == {<< >>} \cup {<<answer>> : answer \in Ack}
Process  == [at : {"idle", "trying", "answering", "dead"}, id : Nat, done : BOOLEAN]

FixtureTypeOK ==
  /\ script \in {"park", "place", "run", "failed", "closed"}
  /\ attached \in {"off", "on", "failed"}
  /\ stopping \in BOOLEAN
  /\ holder \in [who : {"nobody", "script", "attachment"}, id : Nat]
  /\ sequence \in Nat
  /\ commands \in Commands /\ acks \in Acks
  /\ process \in Process
  /\ poses \in Nat /\ returned \in Nat

Busy == process.at \in {"trying", "answering"}

\* Commands, the driver's own and the acknowledgement are in the order of their numbers.
InTurn ==
  /\ commands # << >> => Head(commands) <= sequence
  /\ Busy => process.id <= sequence
  /\ acks # << >> => Head(acks).id <= sequence
  /\ commands # << >> /\ Busy => process.id < Head(commands)
  /\ commands # << >> /\ acks # << >> => Head(acks).id < Head(commands)
  /\ Busy /\ acks # << >> => Head(acks).id < process.id

\* What the driver has done Gazebo shows, and of the last command that was acknowledged too.
DoneIsShown ==
  /\ Busy /\ process.done => process.at = "answering" /\ poses = process.id
  /\ acks # << >> /\ Head(acks).done /\ Head(acks).id = sequence => poses = sequence

\* A caller that waits waits for the last command.
Waits == holder # Free => holder.id = sequence

\* Nothing is under way when a set has returned.
Settled ==
  holder = Free /\ attached # "failed" /\ script \in {"place", "run"} =>
    poses = returned /\ commands = << >> /\ acks = << >> /\ ~Busy

FixtureInv == FixtureTypeOK /\ InTurn /\ DoneIsShown /\ Waits /\ Settled

\* A queue with room for one.
LEMMA Queues ==
  /\ << >> \in Commands /\ << >> \in Acks
  /\ \A id \in Nat : <<id>> \in Commands /\ <<id>> # << >> /\ Head(<<id>>) = id
  /\ \A answer \in Ack : <<answer>> \in Acks /\ <<answer>> # << >> /\ Head(<<answer>>) = answer
  /\ \A c \in Commands : c # << >> => Head(c) \in Nat /\ Tail(c) = << >>
  /\ \A a \in Acks : a # << >> => Head(a) \in Ack
<1>1. ASSUME NEW x PROVE <<x>> # << >> /\ Head(<<x>>) = x /\ Tail(<<x>>) = << >>
  OBVIOUS
<1>2. \A c \in Commands : c # << >> => \E id \in Nat : c = <<id>>
  BY DEF Commands
<1>3. \A a \in Acks : a # << >> => \E answer \in Ack : a = <<answer>>
  BY DEF Acks
<1>4. << >> \in Commands /\ << >> \in Acks
  BY Zenon DEF Commands, Acks
<1>5. ASSUME NEW id \in Nat PROVE <<id>> \in Commands
  BY Zenon DEF Commands
<1>6. ASSUME NEW answer \in Ack PROVE <<answer>> \in Acks
  BY Zenon DEF Acks
<1>7. \A c \in Commands : c # << >> => Head(c) \in Nat /\ Tail(c) = << >>
  <2> SUFFICES ASSUME NEW c \in Commands, c # << >> PROVE Head(c) \in Nat /\ Tail(c) = << >>
    OBVIOUS
  <2>1. PICK id \in Nat : c = <<id>>
    BY <1>2
  <2>2. QED
    BY <1>1, <2>1, Zenon
<1>8. \A a \in Acks : a # << >> => Head(a) \in Ack
  <2> SUFFICES ASSUME NEW a \in Acks, a # << >> PROVE Head(a) \in Ack
    OBVIOUS
  <2>1. PICK answer \in Ack : a = <<answer>>
    BY <1>3
  <2>2. QED
    BY <1>1, <2>1, Zenon
<1>9. QED
  BY <1>1, <1>4, <1>5, <1>6, <1>7, <1>8, Zenon

\* The lab starts with nothing under way.
LEMMA FixtureStart == FixtureInit => FixtureInv
<1> SUFFICES ASSUME FixtureInit PROVE FixtureInv
  OBVIOUS
<1>1. /\ Free \in [who : {"nobody", "script", "attachment"}, id : Nat]
      /\ Idle \in Process /\ Idle.at = "idle"
  BY DEF Free, Idle, Process
<1>2. FixtureTypeOK
  BY <1>1, Queues DEF FixtureInit, FixtureTypeOK
<1>3. QED
  BY <1>1, <1>2 DEF FixtureInit, FixtureInv, Busy, InTurn, DoneIsShown, Waits, Settled

\* The driver serves the commands in turn; nothing it does unsettles what has returned.
LEMMA DriverStep ==
  ASSUME FixtureInv, DriverTakes \/ DriverTries \/ DriverGivesUp \/ DriverAnswers \/ DriverDies
  PROVE  FixtureInv'
<1> USE DEF FixtureInv
<1>1. CASE DriverTakes
  <2>1. /\ process.at = "idle" /\ commands # << >> /\ commands' = Tail(commands)
        /\ process' = [at |-> "trying", id |-> Head(commands), done |-> FALSE]
        /\ UNCHANGED <<script, attached, stopping, holder, sequence, acks, poses, returned>>
    BY <1>1 DEF DriverTakes
  <2>2. Head(commands) \in Nat /\ commands' = << >>
    BY <2>1, Queues DEF FixtureTypeOK
  <2>3. FixtureTypeOK'
    BY <2>1, <2>2, Queues DEF FixtureTypeOK, Process
  <2>4. InTurn' /\ DoneIsShown'
    BY <2>1, <2>2 DEF InTurn, DoneIsShown, Busy
  <2>5. Waits' /\ Settled'
    BY <2>1 DEF Waits, Settled
  <2>6. QED
    BY <2>3, <2>4, <2>5
<1>2. CASE DriverTries
  <2>1. /\ process.at = "trying" /\ poses' = process.id
        /\ process' \in {process, [process EXCEPT !.at = "answering", !.done = TRUE]}
        /\ UNCHANGED <<script, attached, stopping, holder, sequence, commands, acks, returned>>
    BY <1>2 DEF DriverTries
  <2>2. process \in Process /\ process.id \in Nat /\ sequence \in Nat
    BY DEF FixtureTypeOK, Process
  <2>3. /\ process' \in Process /\ process'.id = process.id
        /\ process'.at \in {"trying", "answering"}
        /\ process'.done => process'.at = "answering" \/ process.done
    BY <2>1, <2>2 DEF Process
  <2>4. FixtureTypeOK'
    BY <2>1, <2>2, <2>3 DEF FixtureTypeOK
  <2>5. ~process.done
    BY <2>1 DEF DoneIsShown, Busy
  <2>6. acks # << >> => Head(acks).id \in Nat
    BY Queues DEF FixtureTypeOK, Ack
  <2>7. InTurn' /\ DoneIsShown'
    BY <2>1, <2>2, <2>3, <2>5, <2>6 DEF InTurn, DoneIsShown, Busy
  <2>8. Waits' /\ Settled'
    BY <2>1, <2>3 DEF Waits, Settled, Busy
  <2>9. QED
    BY <2>4, <2>7, <2>8
<1>3. CASE DriverGivesUp
  <2>1. /\ process.at = "trying" /\ process' = [process EXCEPT !.at = "answering"]
        /\ UNCHANGED <<script, attached, stopping, holder, sequence, commands, acks, poses, returned>>
    BY <1>3 DEF DriverGivesUp
  <2>2. process \in Process /\ process' \in Process /\ process'.id = process.id /\ process'.at = "answering"
    BY <2>1 DEF FixtureTypeOK, Process
  <2>3. process'.done = process.done
    BY <2>1, <2>2 DEF Process
  <2>4. FixtureTypeOK' /\ InTurn' /\ DoneIsShown'
    BY <2>1, <2>2, <2>3 DEF FixtureTypeOK, InTurn, DoneIsShown, Busy
  <2>5. Waits' /\ Settled'
    BY <2>1, <2>2 DEF Waits, Settled, Busy
  <2>6. QED
    BY <2>4, <2>5
<1>4. CASE DriverAnswers
  <2> DEFINE answer == [id |-> process.id, done |-> process.done]
  <2>1. /\ process.at = "answering" /\ acks = << >> /\ acks' = <<answer>> /\ process' = Idle
        /\ UNCHANGED <<script, attached, stopping, holder, sequence, commands, poses, returned>>
    BY <1>4 DEF DriverAnswers
  <2>2. answer \in Ack /\ answer.id = process.id
    BY DEF FixtureTypeOK, Process, Ack
  <2>3. answer.done = process.done
    OBVIOUS
  <2> HIDE DEF answer
  <2>4. acks' \in Acks /\ acks' # << >> /\ Head(acks') = answer
    BY <2>1, <2>2, Queues
  <2>5. Idle \in Process /\ Idle.at = "idle"
    BY DEF Idle, Process
  <2>6. FixtureTypeOK'
    BY <2>1, <2>4, <2>5 DEF FixtureTypeOK
  <2>7. InTurn' /\ DoneIsShown'
    BY <2>1, <2>2, <2>3, <2>4, <2>5 DEF InTurn, DoneIsShown, Busy
  <2>8. Waits' /\ Settled'
    BY <2>1 DEF Waits, Settled, Busy
  <2>9. QED
    BY <2>6, <2>7, <2>8
<1>5. CASE DriverDies
  <2>1. /\ process' = [Idle EXCEPT !.at = "dead"]
        /\ UNCHANGED <<script, attached, stopping, holder, sequence, commands, acks, poses, returned>>
    BY <1>5 DEF DriverDies
  <2>2. process' \in Process /\ process'.at = "dead"
    BY <2>1 DEF Idle, Process
  <2>3. QED
    BY <2>1, <2>2 DEF FixtureTypeOK, InTurn, DoneIsShown, Busy, Waits, Settled
<1>6. QED
  BY <1>1, <1>2, <1>3, <1>4, <1>5

\* A call that raises ends its thread.
LEMMA RaisesHolds ==
  ASSUME FixtureTypeOK, NEW who \in {"script", "attachment"}, Raises(who)
  PROVE  /\ holder' = Free /\ script' \in {"park", "place", "run", "failed", "closed"}
         /\ attached' \in {"off", "on", "failed"}
         /\ script' = "failed" \/ attached' = "failed"
BY DEF Raises, FixtureTypeOK

\* A call of set has the newest number.
LEMMA SetStep ==
  ASSUME FixtureInv, NEW who \in {"script", "attachment"}, Set(who)
  PROVE  FixtureInv'
<1> USE DEF FixtureInv
<1>1. /\ holder = Free /\ sequence \in Nat
      /\ UNCHANGED <<stopping, acks, process, poses, returned>>
  BY DEF Set, FixtureTypeOK
<1>2. Free \in [who : {"nobody", "script", "attachment"}, id : Nat]
  BY DEF Free
<1>3. acks # << >> => Head(acks).id \in Nat /\ Head(acks).id <= sequence
  BY Queues DEF FixtureTypeOK, Ack, InTurn
<1>4. process.id \in Nat /\ (Busy => process.id <= sequence) /\ (Busy' <=> Busy)
  BY <1>1 DEF FixtureTypeOK, Process, InTurn, Busy
<1>5. commands # << >> => Head(commands) \in Nat /\ Head(commands) <= sequence
  BY Queues DEF FixtureTypeOK, InTurn
<1>6. CASE process.at = "dead" \/ commands # << >>
  <2>1. Raises(who) /\ commands' = commands /\ sequence' \in {sequence, sequence + 1}
    BY <1>6 DEF Set
  <2>2. /\ holder' = Free /\ script' \in {"park", "place", "run", "failed", "closed"}
        /\ attached' \in {"off", "on", "failed"}
        /\ script' = "failed" \/ attached' = "failed"
    BY <2>1, RaisesHolds
  <2>3. sequence' \in Nat /\ sequence <= sequence'
    BY <1>1, <2>1
  <2>4. FixtureTypeOK'
    BY <1>1, <1>2, <2>1, <2>2, <2>3 DEF FixtureTypeOK
  <2>5. InTurn'
    BY <1>1, <1>3, <1>4, <1>5, <2>1, <2>3 DEF InTurn, Busy
  <2>6. DoneIsShown'
    BY <1>1, <1>3, <2>1 DEF DoneIsShown, Busy
  <2>7. Waits' /\ Settled'
    BY <2>2 DEF Waits, Settled
  <2>8. QED
    BY <2>4, <2>5, <2>6, <2>7
<1>7. CASE ~(process.at = "dead" \/ commands # << >>)
  <2>1. /\ sequence' = sequence + 1 /\ commands = << >> /\ commands' = <<sequence + 1>>
        /\ holder' = [who |-> who, id |-> sequence + 1] /\ UNCHANGED <<script, attached>>
    BY <1>7 DEF Set
  <2>2. sequence + 1 \in Nat
    BY <1>1
  <2>3. commands' \in Commands /\ commands' # << >> /\ Head(commands') = sequence + 1
    BY <2>1, <2>2, Queues
  <2>4. /\ holder' \in [who : {"nobody", "script", "attachment"}, id : Nat]
        /\ holder' # Free /\ holder'.id = sequence + 1
    BY <2>1, <2>2 DEF Free
  <2>5. FixtureTypeOK'
    BY <1>1, <2>1, <2>2, <2>3, <2>4 DEF FixtureTypeOK
  <2>6. InTurn'
    BY <1>1, <1>3, <1>4, <2>1, <2>3 DEF InTurn, Busy
  <2>7. DoneIsShown'
    BY <1>1, <1>3, <2>1 DEF DoneIsShown, Busy
  <2>8. Waits' /\ Settled'
    BY <2>1, <2>4 DEF Waits, Settled
  <2>9. QED
    BY <2>5, <2>6, <2>7, <2>8
<1>8. QED
  BY <1>6, <1>7

\* Only the acknowledgement of the very command lets its caller go on.
LEMMA AcknowledgedStep == ASSUME FixtureInv, Acknowledged PROVE FixtureInv'
<1> USE DEF FixtureInv
<1>1. /\ holder # Free /\ acks # << >> /\ acks' = << >>
      /\ UNCHANGED <<stopping, sequence, commands, process, poses>>
  BY DEF Acknowledged
<1>2. /\ holder \in [who : {"nobody", "script", "attachment"}, id : Nat] /\ holder.id = sequence
      /\ sequence \in Nat /\ returned \in Nat /\ holder.id \in Nat
      /\ Free \in [who : {"nobody", "script", "attachment"}, id : Nat]
  BY <1>1 DEF FixtureTypeOK, Waits, Free
<1>3. acks' \in Acks /\ (Busy' <=> Busy)
  BY <1>1, Queues DEF Busy
<1>4. InTurn' /\ DoneIsShown'
  BY <1>1 DEF InTurn, DoneIsShown, Busy
<1>5. CASE Own(Head(acks))
  <2>1. /\ holder' = Free /\ returned' = holder.id
        /\ IF holder.who = "script"
             THEN /\ script' = IF script = "park" THEN "place" ELSE "run"
                  /\ attached' = IF script = "place" THEN "on" ELSE attached
             ELSE UNCHANGED <<script, attached>>
    BY <1>5 DEF Acknowledged
  <2>2. FixtureTypeOK'
    BY <1>1, <1>2, <1>3, <2>1 DEF FixtureTypeOK
  <2>3. Head(acks).id = sequence /\ Head(acks).done
    BY <1>2, <1>5 DEF Own
  <2>4. /\ commands # << >> => Head(commands) \in Nat
        /\ process.id \in Nat
    BY Queues DEF FixtureTypeOK, Process
  <2>5. commands = << >> /\ ~Busy /\ poses = sequence
    BY <1>1, <1>2, <2>3, <2>4 DEF InTurn, DoneIsShown
  <2>6. Waits' /\ Settled'
    BY <1>1, <1>2, <1>3, <2>1, <2>5 DEF Waits, Settled
  <2>7. QED
    BY <1>4, <2>2, <2>6
<1>6. CASE ~Own(Head(acks))
  <2>1. Raises(holder.who) /\ returned' = returned
    BY <1>6 DEF Acknowledged
  <2>2. /\ holder' = Free /\ script' \in {"park", "place", "run", "failed", "closed"}
        /\ attached' \in {"off", "on", "failed"}
        /\ script' = "failed" \/ attached' = "failed"
    BY <2>1 DEF Raises, FixtureTypeOK
  <2>3. FixtureTypeOK'
    BY <1>1, <1>2, <1>3, <2>1, <2>2 DEF FixtureTypeOK
  <2>4. Waits' /\ Settled'
    BY <2>2 DEF Waits, Settled
  <2>5. QED
    BY <1>4, <2>3, <2>4
<1>7. QED
  BY <1>5, <1>6

\* The script and the attachment, beside their calls of set.
LEMMA ScriptStep ==
  ASSUME FixtureInv, TimesOut \/ NextCase \/ Joined \/ JoinFails \/ Close
  PROVE  FixtureInv'
<1> USE DEF FixtureInv
<1>1. CASE TimesOut
  <2>1. /\ holder' = Free /\ script' \in {"park", "place", "run", "failed", "closed"}
        /\ attached' \in {"off", "on", "failed"}
        /\ script' = "failed" \/ attached' = "failed"
        /\ UNCHANGED <<stopping, sequence, commands, acks, process, poses, returned>>
        /\ Free \in [who : {"nobody", "script", "attachment"}, id : Nat]
    BY <1>1 DEF TimesOut, Raises, FixtureTypeOK, Free
  <2>2. FixtureTypeOK' /\ InTurn' /\ DoneIsShown'
    BY <2>1 DEF FixtureTypeOK, InTurn, DoneIsShown, Busy
  <2>3. Waits' /\ Settled'
    BY <2>1 DEF Waits, Settled
  <2>4. QED
    BY <2>2, <2>3
<1>2. CASE NextCase
  BY <1>2 DEF NextCase, FixtureTypeOK, InTurn, DoneIsShown, Busy, Waits, Settled
<1>3. CASE Joined
  BY <1>3 DEF Joined, FixtureTypeOK, InTurn, DoneIsShown, Busy, Waits, Settled
<1>4. CASE JoinFails
  BY <1>4 DEF JoinFails, FixtureTypeOK, InTurn, DoneIsShown, Busy, Waits, Settled
<1>5. CASE Close
  <2>1. /\ script' = "closed" /\ stopping' = TRUE /\ process' = [Idle EXCEPT !.at = "dead"]
        /\ UNCHANGED <<attached, holder, sequence, commands, acks, poses, returned>>
    BY <1>5 DEF Close
  <2>2. process' \in Process /\ process'.at = "dead"
    BY <2>1 DEF Idle, Process
  <2>3. QED
    BY <2>1, <2>2 DEF FixtureTypeOK, InTurn, DoneIsShown, Busy, Waits, Settled
<1>6. QED
  BY <1>1, <1>2, <1>3, <1>4, <1>5

\* While the lab's script goes on, a set that returned is what Gazebo shows until the next
\* one is called, however late an answer or a command is (the number checked in
\* NativeFixtures.set).
THEOREM ReturnedIsAlwaysShown == FixtureSpec => []ReturnedIsShown
<1>1. FixtureInit => FixtureInv
  BY FixtureStart
<1>2. FixtureInv /\ [FixtureNext]_fixtureVars => FixtureInv'
  <2> SUFFICES ASSUME FixtureInv, [FixtureNext]_fixtureVars PROVE FixtureInv'
    OBVIOUS
  <2>1. CASE DriverTakes \/ DriverTries \/ DriverGivesUp \/ DriverAnswers \/ DriverDies
    BY <2>1, DriverStep
  <2>2. CASE ScriptSets \/ AttachmentSets
    BY <2>2, SetStep DEF ScriptSets, AttachmentSets
  <2>3. CASE Acknowledged
    BY <2>3, AcknowledgedStep
  <2>4. CASE TimesOut \/ NextCase \/ Joined \/ JoinFails \/ Close
    BY <2>4, ScriptStep
  <2>5. CASE UNCHANGED fixtureVars
    BY <2>5 DEF fixtureVars, FixtureInv, FixtureTypeOK, InTurn, DoneIsShown, Busy, Waits, Settled
  <2>6. QED
    BY <2>1, <2>2, <2>3, <2>4, <2>5 DEF FixtureNext
<1>3. FixtureInv => ReturnedIsShown
  BY DEF FixtureInv, Settled, ReturnedIsShown
<1>4. QED
  BY <1>1, <1>2, <1>3, PTL DEF FixtureSpec

-----------------------------------------------------------------------------
(* The live view.                                                           *)

Token   == Nat \X Nat
RowKind == {"telemetry", "phase", "hazard_scene", "checkpoint", "result", "error", "none"}
Row     == [id : Nat, kind : RowKind, token : Token, waiting : BOOLEAN]

Hub == [session : Nat \ {0}, sequence : Nat, messages : Seq(Row), milestones : Seq(Row),
        checkpoint : Token, checkpointState : Row, scene : Row, failure : Row,
        report : {"pending", "passed", "failed"}, scenes : Nat]
Page == [conn : {"lost", "open", "closed"}, cursor : Nat, batch : SUBSET Row, session : Nat,
         last : Nat, token : Token, failed : BOOLEAN, scene : Nat]

HubTypeOK ==
  /\ hub \in Hub
  /\ runner \in {"runs", "waits", "ended", "failing", "failed"}
  /\ browser \in [Browsers -> Page]

\* What the hub, or a connection that is open, still holds of the run's rows.
HubRows(h) ==
  Range(h.messages) \cup Range(h.milestones)
    \cup {NoRow, h.checkpointState, h.scene, h.failure}

Held == HubRows(hub) \cup UNION {browser[b].batch : b \in {c \in Browsers : browser[c].conn = "open"}}

\* A row is known by its number.
Numbered ==
  \A r \in Held : r.id <= hub.sequence /\ \A s \in Held : r.id = s.id => r = s

\* While the run waits the hub keeps the row that says so; no later row takes it back.
Waiting ==
  hub.checkpoint # NoToken =>
    /\ runner = "waits" /\ hub.checkpoint = <<hub.session, hub.scenes>>
    /\ hub.checkpointState.kind = "checkpoint" /\ hub.checkpointState.waiting
    /\ hub.checkpointState.token = hub.checkpoint /\ 0 < hub.checkpointState.id
    /\ \A r \in Held :
         hub.checkpointState.id < r.id => r.kind \notin {"checkpoint", "error", "result"}

\* The hub keeps the newest scene.
NewestScene ==
  /\ hub.scene = NoRow \/ (hub.scene.kind = "hazard_scene" /\ 0 < hub.scene.id)
  /\ \A r \in Held : r.kind = "hazard_scene" => r.id <= hub.scene.id

\* How far a page is in the rows of the present run.
Seen(p) == IF p.session = hub.session THEN p.last ELSE 0

\* A row the hub keeps, and a page has not had, is under way or newer than all that is.
Comes(p, row) ==
  Seen(p) < row.id => row \in p.batch \/ \A r \in p.batch : r.id < row.id

\* What a page shows is what it was told.
Shows(p) ==
  /\ p.session <= hub.session
  /\ p.session = hub.session => p.last <= hub.sequence
  /\ hub.checkpoint # NoToken /\ hub.checkpointState.id <= Seen(p) => p.token = hub.checkpoint
  /\ hub.scene # NoRow /\ hub.scene.id <= Seen(p) => p.scene = hub.scene.id
  /\ p.conn = "lost" => p.batch = {}
  /\ p.conn = "open" =>
       /\ p.cursor = Seen(p)
       /\ \A r \in p.batch : p.cursor < r.id
       /\ Comes(p, hub.checkpointState) /\ Comes(p, hub.scene)

\* A scene is behind the run when its token was clicked.
ScenesPassed ==
  /\ posts \subseteq clicked
  /\ \A n \in 1 .. hub.scenes :
       <<hub.session, n>> \in clicked \/ runner \in {"failing", "failed"}
         \/ (runner = "waits" /\ n = hub.scenes /\ hub.checkpoint = <<hub.session, n>>)
  /\ hub.failure # NoRow => hub.report = "failed" /\ runner \in {"failing", "failed"}

HubInv ==
  /\ HubTypeOK /\ Numbered /\ Waiting /\ NewestScene
  /\ \A b \in Browsers : Shows(browser[b])
  /\ ScenesPassed

\* A queue of bounded length holds what it held and the row that is appended.
LEMMA PushHolds ==
  ASSUME NEW queue \in Seq(Row), NEW row \in Row, NEW max \in Nat \ {0}
  PROVE  Push(queue, row, max) \in Seq(Row) /\ Range(Push(queue, row, max)) \subseteq Range(queue) \cup {row}
<1>1. Append(queue, row) \in Seq(Row) /\ Range(Append(queue, row)) \subseteq Range(queue) \cup {row}
  BY DEF Range
<1>2. CASE Len(queue) < max
  BY <1>1, <1>2 DEF Push
<1>3. CASE ~(Len(queue) < max)
  <2>1. Len(queue) \in Nat /\ Len(queue) > 0 /\ queue # << >>
    BY <1>3
  <2>2. /\ Tail(queue) \in Seq(Row) /\ Len(Tail(queue)) = Len(queue) - 1
        /\ \A i \in 1 .. Len(queue) - 1 : Tail(queue)[i] = queue[i + 1]
    BY <2>1
  <2>3. Range(Tail(queue)) \subseteq Range(queue)
    <3>1. ASSUME NEW x \in Range(Tail(queue)) PROVE x \in Range(queue)
      <4>1. PICK i \in 1 .. Len(queue) - 1 : x = Tail(queue)[i]
        BY <2>1, <2>2 DEF Range
      <4>2. i + 1 \in 1 .. Len(queue) /\ x = queue[i + 1]
        BY <2>1, <2>2, <4>1
      <4>3. QED
        BY <4>2 DEF Range
    <3>2. QED
      BY <3>1
  <2>4. /\ Append(Tail(queue), row) \in Seq(Row)
        /\ Range(Append(Tail(queue), row)) \subseteq Range(Tail(queue)) \cup {row}
    BY <2>2 DEF Range
  <2>5. QED
    BY <1>3, <2>3, <2>4 DEF Push
<1>4. QED
  BY <1>2, <1>3

\* A hub p that was h before it published this row, numbered next, and nothing else.
Told(h, row, p) ==
  /\ row \in Row /\ row.id = h.sequence + 1
  /\ p \in Hub /\ p.session = h.session /\ p.sequence = h.sequence + 1
  /\ p.checkpoint = h.checkpoint /\ p.failure = h.failure /\ p.report = h.report
  /\ p.scenes = h.scenes
  /\ p.scene = IF row.kind = "hazard_scene" THEN row ELSE h.scene
  /\ p.checkpointState = IF row.kind = "checkpoint" THEN row ELSE h.checkpointState
  /\ Range(p.messages) \subseteq Range(h.messages) \cup {row}
  /\ Range(p.milestones) \subseteq Range(h.milestones) \cup {row}

\* Publishing a row numbers it, and changes nothing of the wait, the failure and the report.
LEMMA PublishHolds ==
  ASSUME NEW h \in Hub, NEW kind \in RowKind, NEW token \in Token, NEW waiting \in BOOLEAN
  PROVE  /\ Told(h, NextRow(h, kind, token, waiting), Publish(h, kind, token, waiting))
         /\ NextRow(h, kind, token, waiting).kind = kind
         /\ NextRow(h, kind, token, waiting).token = token
         /\ NextRow(h, kind, token, waiting).waiting = waiting
<1> DEFINE row == NextRow(h, kind, token, waiting)
           p   == Publish(h, kind, token, waiting)
<1>1. h.sequence + 1 \in Nat /\ h.messages \in Seq(Row) /\ h.milestones \in Seq(Row)
  BY DEF Hub
<1>2. row = [id |-> h.sequence + 1, kind |-> kind, token |-> token, waiting |-> waiting]
  BY DEF NextRow
<1> HIDE DEF row
<1>3. row \in Row /\ row.id = h.sequence + 1 /\ row.kind = kind /\ row.token = token
  BY <1>1, <1>2 DEF Row
<1>4. row.waiting = waiting
  BY <1>2
<1> DEFINE a == Push(h.messages, row, MaxMessages)
           b == IF kind \in Milestone THEN Push(h.milestones, row, MaxMilestones) ELSE h.milestones
<1>5. /\ a \in Seq(Row) /\ Range(a) \subseteq Range(h.messages) \cup {row}
      /\ b \in Seq(Row) /\ Range(b) \subseteq Range(h.milestones) \cup {row}
  BY <1>1, <1>3, PushHolds, HubAssumption
<1>6. p = [h EXCEPT !.sequence = row.id, !.messages = a, !.milestones = b,
             !.scene = IF kind = "hazard_scene" THEN row ELSE h.scene,
             !.checkpointState = IF kind = "checkpoint" THEN row ELSE h.checkpointState]
  BY DEF Publish, row
<1> HIDE DEF a, b, p
<1>7. /\ p.session = h.session /\ p.sequence = row.id /\ p.messages = a /\ p.milestones = b
      /\ p.checkpoint = h.checkpoint /\ p.failure = h.failure /\ p.report = h.report
      /\ p.scenes = h.scenes
      /\ p.scene = IF kind = "hazard_scene" THEN row ELSE h.scene
      /\ p.checkpointState = IF kind = "checkpoint" THEN row ELSE h.checkpointState
  BY <1>6 DEF Hub
<1>8. p \in Hub
  BY <1>1, <1>3, <1>5, <1>6 DEF Hub
<1>9. Told(h, row, p)
  BY <1>3, <1>5, <1>7, <1>8 DEF Told
<1>10. QED
  BY <1>3, <1>4, <1>9 DEF row, p

\* What a page holds is what the hub knows, while the connection is open.
LEMMA HeldTypes ==
  ASSUME HubTypeOK
  PROVE  Held \subseteq Row
<1>1. HubRows(hub) \subseteq Row
  <2>1. /\ hub.messages \in Seq(Row) /\ hub.milestones \in Seq(Row)
        /\ {hub.checkpointState, hub.scene, hub.failure} \subseteq Row
    BY DEF HubTypeOK, Hub
  <2>2. Range(hub.messages) \subseteq Row /\ Range(hub.milestones) \subseteq Row
    BY <2>1 DEF Range
  <2>3. NoRow \in Row
    BY DEF NoRow, Row, RowKind, Token
  <2>4. QED
    BY <2>1, <2>2, <2>3 DEF HubRows
<1>2. \A b \in Browsers : browser[b].batch \subseteq Row
  BY DEF HubTypeOK, Page
<1>3. QED
  BY <1>1, <1>2 DEF Held

\* A row that is published keeps what the pages were told, and what is under way.
LEMMA PublishStep ==
  ASSUME HubInv, hub' \in Hub, browser' = browser, NEW row \in Row,
         row.id = hub.sequence + 1, hub'.sequence = row.id, hub'.session = hub.session,
         HubRows(hub') \subseteq HubRows(hub) \cup {row},
         hub'.scene = IF row.kind = "hazard_scene" THEN row ELSE hub.scene,
         \/ hub'.checkpoint = NoToken /\ hub'.checkpointState \in {hub.checkpointState, row, NoRow}
         \/ /\ hub'.checkpoint = hub.checkpoint /\ hub'.checkpointState = hub.checkpointState
            /\ runner' = runner /\ hub'.scenes = hub.scenes
            /\ row.kind \notin {"checkpoint", "error", "result"}
         \/ /\ hub'.checkpointState = row /\ row.kind = "checkpoint" /\ row.waiting
            /\ row.token = hub'.checkpoint /\ runner' = "waits"
            /\ hub'.checkpoint = <<hub.session, hub'.scenes>>
  PROVE  Numbered' /\ Waiting' /\ NewestScene' /\ \A b \in Browsers : Shows(browser[b])'
<1>1. /\ hub.sequence \in Nat /\ hub'.sequence = hub.sequence + 1 /\ row.id \in Nat
      /\ hub.checkpointState \in Held /\ hub.scene \in Held /\ NoRow \in Held
      /\ Held' \subseteq Held \cup {row}
      /\ hub.checkpointState.id \in Nat /\ hub.scene.id \in Nat
      /\ NoRow.id = 0 /\ NoRow.kind = "none"
  BY DEF HubInv, HubTypeOK, Hub, Row, Held, HubRows, NoRow
<1>2. \A r \in Held : r.id \in Nat /\ r.id <= hub.sequence /\ r.id < row.id
  <2>1. \A r \in Held : r.id \in Nat /\ r.id <= hub.sequence
    BY HeldTypes DEF HubInv, Numbered, Row
  <2>2. QED
    BY <1>1, <2>1
<1>3. Numbered'
  BY <1>1, <1>2 DEF HubInv, Numbered
<1>4. Waiting'
  <2>1. CASE hub'.checkpoint = NoToken
    BY <2>1 DEF Waiting
  <2>2. CASE /\ hub'.checkpoint = hub.checkpoint /\ hub'.checkpointState = hub.checkpointState
             /\ runner' = runner /\ hub'.scenes = hub.scenes
             /\ row.kind \notin {"checkpoint", "error", "result"}
    BY <1>1, <2>2 DEF HubInv, Waiting
  <2>3. CASE /\ hub'.checkpointState = row /\ row.kind = "checkpoint" /\ row.waiting
             /\ row.token = hub'.checkpoint /\ runner' = "waits"
             /\ hub'.checkpoint = <<hub.session, hub'.scenes>>
    <3>1. \A r \in Held' : ~(row.id < r.id)
      BY <1>1, <1>2
    <3>2. 0 < row.id
      BY <1>1
    <3>3. QED
      BY <2>3, <3>1, <3>2 DEF Waiting
  <2>4. QED
    BY <2>1, <2>2, <2>3
<1>5. NewestScene'
  <2>1. 0 < row.id /\ row.id <= row.id
    BY <1>1
  <2>2. CASE row.kind = "hazard_scene"
    <3>1. \A r \in Held' : r.id <= row.id
      BY <1>1, <1>2, <2>1
    <3>2. QED
      BY <2>1, <2>2, <3>1 DEF NewestScene
  <2>3. CASE row.kind # "hazard_scene"
    BY <1>1, <2>3 DEF HubInv, NewestScene
  <2>4. QED
    BY <2>2, <2>3
<1>6. ASSUME NEW b \in Browsers
      PROVE  Shows(browser[b])'
  <2> DEFINE q == browser[b]
  <2>1. Shows(q) /\ q \in Page
    BY DEF HubInv, HubTypeOK
  <2>2. browser'[b] = q
    OBVIOUS
  <2>3. /\ q.session \in Nat /\ hub.session \in Nat /\ q.last \in Nat
        /\ q.session = hub.session => q.last <= hub.sequence
    BY <2>1 DEF HubInv, HubTypeOK, Hub, Page, Shows
  <2>4. Seen(q)' = Seen(q) /\ Seen(q) \in Nat /\ Seen(q) < row.id
    BY <1>1, <2>2, <2>3 DEF Seen
  <2>5. q.conn = "open" => \A r \in q.batch : r.id < row.id
    BY <1>2 DEF Held
  <2> HIDE DEF q
  <2>6. ASSUME q.conn = "open", NEW x \in {hub.checkpointState, hub.scene, row, NoRow}
        PROVE  Seen(q) < x.id => x \in q.batch \/ \A r \in q.batch : r.id < x.id
    <3>1. CASE x \in {hub.checkpointState, hub.scene}
      BY <2>1, <2>6, <3>1 DEF Shows, Comes
    <3>2. CASE x = row
      BY <2>5, <2>6, <3>2
    <3>3. CASE x = NoRow
      BY <1>1, <2>4, <3>3
    <3>4. QED
      BY <3>1, <3>2, <3>3
  <2>7. hub'.checkpointState \in {hub.checkpointState, row, NoRow} /\ hub'.scene \in {hub.scene, row}
    OBVIOUS
  <2>8. q.conn = "open" => Comes(q, hub.checkpointState)' /\ Comes(q, hub.scene)'
    BY <2>4, <2>6, <2>7, <2>2 DEF Comes, q
  <2>9. q.session <= hub'.session /\ (q.session = hub'.session => q.last <= hub'.sequence)
    BY <1>1, <2>1, <2>3 DEF Shows
  <2>10. hub'.checkpoint # NoToken /\ hub'.checkpointState.id <= Seen(q) => q.token = hub'.checkpoint
    <3>1. CASE hub'.checkpoint = NoToken
      BY <3>1
    <3>2. CASE hub'.checkpoint = hub.checkpoint /\ hub'.checkpointState = hub.checkpointState
      BY <2>1, <3>2 DEF Shows
    <3>3. CASE hub'.checkpointState = row
      BY <1>1, <2>4, <3>3
    <3>4. QED
      BY <3>1, <3>2, <3>3
  <2>11. hub'.scene # NoRow /\ hub'.scene.id <= Seen(q) => q.scene = hub'.scene.id
    <3>1. CASE hub'.scene = hub.scene
      BY <2>1, <3>1 DEF Shows
    <3>2. CASE hub'.scene = row
      BY <1>1, <2>4, <3>2
    <3>3. QED
      BY <2>7, <3>1, <3>2
  <2>12. /\ q.conn = "lost" => q.batch = {}
         /\ q.conn = "open" => q.cursor = Seen(q) /\ \A r \in q.batch : q.cursor < r.id
    BY <2>1 DEF Shows
  <2>13. QED
    BY <2>2, <2>4, <2>8, <2>9, <2>10, <2>11, <2>12 DEF Shows, q
<1>7. QED
  BY <1>3, <1>4, <1>5, <1>6


\* A page's own step leaves the others as they are.
LEMMA PageStep ==
  ASSUME HubInv, hub' = hub, runner' = runner, NEW b \in Browsers, NEW p \in Page,
         browser' = [browser EXCEPT ![b] = p], Shows(p),
         p.conn = "open" => p.batch \subseteq Held
  PROVE  HubTypeOK' /\ Numbered' /\ Waiting' /\ NewestScene' /\ \A c \in Browsers : Shows(browser[c])'
<1>1. \A c \in Browsers : browser'[c] = IF c = b THEN p ELSE browser[c]
  BY DEF HubInv, HubTypeOK
<1>2. HubTypeOK'
  BY DEF HubInv, HubTypeOK
<1>3. Held' \subseteq Held
  BY <1>1 DEF Held
<1>4. Numbered' /\ Waiting' /\ NewestScene'
  BY <1>3 DEF HubInv, Numbered, Waiting, NewestScene
<1>5. ASSUME NEW c \in Browsers PROVE Shows(browser[c])'
  <2> DEFINE q == IF c = b THEN p ELSE browser[c]
  <2>1. Shows(q)
    BY DEF HubInv
  <2>2. browser'[c] = q
    BY <1>1
  <2> HIDE DEF q
  <2>3. QED
    BY <2>1, <2>2 DEF Shows, Comes, Seen
<1>6. QED
  BY <1>2, <1>4, <1>5

\* What the hub sends after a cursor is what it keeps, and all of it.
LEMMA AfterHolds ==
  ASSUME NEW cursor \in Nat
  PROVE  /\ After(hub, cursor) \subseteq HubRows(hub)
         /\ \A r \in After(hub, cursor) : cursor < r.id
         /\ \A r \in {hub.checkpointState, hub.scene} \cup Range(hub.messages) \cup Range(hub.milestones) :
              cursor < r.id => r \in After(hub, cursor)
BY DEF After, HubRows

\* A connection opens, is given rows, breaks, or its page is loaded anew.
LEMMA ConnectionStep ==
  ASSUME HubInv, NEW b \in Browsers, Connect(b) \/ Fetch(b) \/ Drops(b) \/ Reload(b)
  PROVE  HubTypeOK' /\ Numbered' /\ Waiting' /\ NewestScene' /\ \A c \in Browsers : Shows(browser[c])'
<1> DEFINE q == browser[b]
<1>1. q \in Page /\ Shows(q) /\ hub \in Hub /\ hub' = hub /\ runner' = runner
  BY DEF HubInv, HubTypeOK, Connect, Fetch, Drops, Reload
<1>2. /\ hub.session \in Nat \ {0} /\ hub.sequence \in Nat /\ q.last \in Nat /\ q.session \in Nat
      /\ q.cursor \in Nat
      /\ hub.checkpointState.id \in Nat /\ hub.scene.id \in Nat
  BY <1>1 DEF Hub, Page, Row
<1>3. q.session = hub.session => q.last <= hub.sequence
  BY <1>1 DEF Shows
<1>4. q.conn = "open" => q.batch \subseteq Held
  BY DEF Held
<1> HIDE DEF q
<1>5. CASE Connect(b)
  <2> DEFINE p == [q EXCEPT !.conn = "open", !.cursor = Cursor(q)]
  <2>1. q.conn = "lost" /\ browser' = [browser EXCEPT ![b] = p]
    BY <1>5 DEF Connect, q
  <2>2. Cursor(q) = Seen(q) /\ Seen(q) \in Nat
    BY <1>2, <1>3 DEF Cursor, Seen
  <2>3. p \in Page
    BY <1>1, <2>2 DEF Page
  <2>4. q.batch = {} /\ p.batch = {} /\ p.cursor = Seen(q)
    BY <1>1, <2>1, <2>2 DEF Shows, Page
  <2>5. p.session = q.session /\ p.last = q.last /\ p.token = q.token /\ p.scene = q.scene /\ p.conn = "open"
    BY <1>1 DEF Page
  <2> HIDE DEF p
  <2>6. Seen(p) = Seen(q)
    BY <2>5 DEF Seen
  <2>7. Shows(p)
    BY <1>1, <2>4, <2>5, <2>6 DEF Shows, Comes
  <2>8. QED
    BY <1>1, <2>1, <2>3, <2>4, <2>7, PageStep
<1>6. CASE Fetch(b)
  <2> DEFINE p == [q EXCEPT !.batch = After(hub, q.cursor)]
  <2>1. q.conn = "open" /\ browser' = [browser EXCEPT ![b] = p]
    BY <1>6 DEF Fetch, q
  <2>2. After(hub, q.cursor) \subseteq HubRows(hub) /\ HubRows(hub) \subseteq Held
    BY <1>2, AfterHolds DEF Held
  <2>3. Held \subseteq Row
    BY HeldTypes DEF HubInv
  <2>4. p \in Page
    BY <1>1, <2>2, <2>3 DEF Page
  <2>5. /\ p.session = q.session /\ p.last = q.last /\ p.token = q.token /\ p.scene = q.scene
        /\ p.conn = "open" /\ p.cursor = q.cursor /\ p.batch = After(hub, q.cursor)
    BY <1>1, <2>1 DEF Page
  <2> HIDE DEF p
  <2>6. Seen(p) = Seen(q) /\ q.cursor = Seen(q)
    BY <1>1, <2>1, <2>5 DEF Seen, Shows
  <2>7. Comes(p, hub.checkpointState) /\ Comes(p, hub.scene)
    BY <1>2, <2>5, <2>6, AfterHolds DEF Comes
  <2>8. \A r \in p.batch : p.cursor < r.id
    BY <1>2, <2>5, AfterHolds
  <2>9. Shows(p)
    BY <1>1, <2>5, <2>6, <2>7, <2>8 DEF Shows
  <2>10. QED
    BY <1>1, <2>1, <2>2, <2>4, <2>5, <2>9, PageStep
<1>7. CASE Drops(b)
  <2> DEFINE p == [q EXCEPT !.conn = "lost", !.batch = {}]
  <2>1. browser' = [browser EXCEPT ![b] = p]
    BY <1>7 DEF Drops, q
  <2>2. p \in Page
    BY <1>1 DEF Page
  <2>3. /\ p.session = q.session /\ p.last = q.last /\ p.token = q.token /\ p.scene = q.scene
        /\ p.conn = "lost" /\ p.batch = {}
    BY <1>1 DEF Page
  <2> HIDE DEF p
  <2>4. Seen(p) = Seen(q)
    BY <2>3 DEF Seen
  <2>5. Shows(p)
    BY <1>1, <2>3, <2>4 DEF Shows
  <2>6. QED
    BY <1>1, <2>1, <2>2, <2>3, <2>5, PageStep
<1>8. CASE Reload(b)
  <2>1. browser' = [browser EXCEPT ![b] = NewPage]
    BY <1>8 DEF Reload
  <2>2. NewPage \in Page
    BY DEF NewPage, Page, Token, NoToken
  <2>3. Seen(NewPage) = 0
    BY <1>2 DEF Seen, NewPage
  <2>4. /\ hub.checkpoint # NoToken => 0 < hub.checkpointState.id
        /\ hub.scene # NoRow => 0 < hub.scene.id
    BY DEF HubInv, Waiting, NewestScene
  <2>5. NewPage.session = 0 /\ NewPage.conn = "lost" /\ NewPage.batch = {}
    BY DEF NewPage
  <2>6. Shows(NewPage)
    BY <1>2, <2>3, <2>4, <2>5 DEF Shows
  <2>7. QED
    BY <1>1, <2>1, <2>2, <2>5, <2>6, PageStep
<1>9. QED
  BY <1>5, <1>6, <1>7, <1>8

\* A page that is sent a row then shows what the hub kept up to it.
LEMMA ReceivesStep ==
  ASSUME HubInv, NEW b \in Browsers, PageReceives(b)
  PROVE  HubTypeOK' /\ Numbered' /\ Waiting' /\ NewestScene' /\ \A c \in Browsers : Shows(browser[c])'
<1> DEFINE q == browser[b]
<1>1. q \in Page /\ Shows(q) /\ hub \in Hub /\ hub' = hub /\ runner' = runner /\ q.conn = "open"
  BY DEF HubInv, HubTypeOK, PageReceives
<1>2. PICK row \in q.batch :
        /\ \A r \in q.batch : row.id <= r.id
        /\ browser' = [browser EXCEPT ![b] = Shown(q, row)]
  BY DEF PageReceives
<1>3. q.batch \subseteq Held /\ hub.checkpointState \in Held /\ hub.scene \in Held
  BY <1>1 DEF Held, HubRows
<1>4. Held \subseteq Row /\ \A r \in Held : r.id \in Nat
  BY HeldTypes DEF HubInv, Row
<1>5. \A r \in Held, s \in Held : r.id = s.id => r = s
  BY DEF HubInv, Numbered
<1>6. /\ q.cursor = Seen(q) /\ q.cursor \in Nat /\ q.cursor < row.id
      /\ row.id <= hub.sequence /\ row.id \in Nat /\ row \in Row
      /\ hub.session \in Nat \ {0}
  BY <1>1, <1>2, <1>3, <1>4 DEF HubInv, Numbered, Shows, Page, Hub
<1> HIDE DEF q
<1> DEFINE p == Shown(q, row)
           told == CASE row.kind = "checkpoint" /\ row.waiting -> row.token
                     [] row.kind = "checkpoint" /\ ~row.waiting /\ q.token = row.token -> NoToken
                     [] row.kind \in Closes -> NoToken
                     [] OTHER -> q.token
<1>7. /\ p.session = hub.session /\ p.last = row.id /\ p.cursor = row.id /\ p.batch = q.batch \ {row}
      /\ p.scene = IF row.kind = "hazard_scene" THEN row.id ELSE q.scene
      /\ p.conn = IF row.kind \in Closes THEN "closed" ELSE "open"
      /\ p.token = told
  BY <1>1 DEF Shown, Page
<1>8. told \in Token
  BY <1>1, <1>6 DEF Page, Row, Token, NoToken
<1>9. p \in Page
  <2> DEFINE failed == q.failed \/ row.kind = "error"
             scene  == IF row.kind = "hazard_scene" THEN row.id ELSE q.scene
             conn   == IF row.kind \in Closes THEN "closed" ELSE q.conn
             batch  == q.batch \ {row}
  <2>1. p = [q EXCEPT !.token = told, !.failed = failed, !.scene = scene, !.session = hub.session,
                      !.last = row.id, !.cursor = row.id, !.batch = batch, !.conn = conn]
    BY DEF Shown
  <2>2. /\ failed \in BOOLEAN /\ scene \in Nat /\ conn \in {"lost", "open", "closed"}
        /\ batch \in SUBSET Row
    BY <1>1, <1>6 DEF Page
  <2> HIDE DEF told, failed, scene, conn, batch, p
  <2>3. QED
    BY <1>1, <1>6, <1>8, <2>1, <2>2 DEF Page
<1> HIDE DEF p
<1>10. Seen(p) = row.id
  BY <1>7 DEF Seen
<1>11. ASSUME NEW x \in {hub.checkpointState, hub.scene}, x.id < row.id
       PROVE  x.id <= Seen(q)
  <2>1. x.id \in Nat /\ Comes(q, x)
    BY <1>1, <1>3, <1>4 DEF Shows
  <2>2. QED
    BY <1>2, <1>6, <1>11, <2>1 DEF Comes
<1>12. hub.checkpoint # NoToken /\ hub.checkpointState.id <= row.id => p.token = hub.checkpoint
  <2> SUFFICES ASSUME hub.checkpoint # NoToken, hub.checkpointState.id <= row.id
               PROVE  told = hub.checkpoint
    BY <1>7
  <2>1. Waiting
    BY DEF HubInv
  <2>2. CASE hub.checkpointState.id = row.id
    <3>1. row = hub.checkpointState
      BY <1>3, <1>5, <2>2
    <3>2. row.kind = "checkpoint" /\ row.waiting /\ row.token = hub.checkpoint
      BY <2>1, <3>1 DEF Waiting
    <3>3. told = row.token
      BY <3>2 DEF Closes
    <3>4. QED
      BY <3>2, <3>3, Zenon
  <2>3. CASE hub.checkpointState.id < row.id
    <3>1. row.kind \notin {"checkpoint", "error", "result"}
      BY <1>3, <2>1, <2>3 DEF Waiting
    <3>2. q.token = hub.checkpoint
      BY <1>1, <1>11, <2>3 DEF Shows
    <3>3. row.kind # "checkpoint" /\ row.kind # "error" /\ row.kind # "result"
      BY <3>1
    <3>4. told = q.token
      BY <3>3 DEF Closes
    <3>5. QED
      BY <3>2, <3>4, Zenon
  <2>4. QED
    BY <1>3, <1>4, <1>6, <2>2, <2>3
<1> HIDE DEF told
<1>13. hub.scene # NoRow /\ hub.scene.id <= row.id => p.scene = hub.scene.id
  <2> SUFFICES ASSUME hub.scene # NoRow, hub.scene.id <= row.id PROVE p.scene = hub.scene.id
    OBVIOUS
  <2>1. hub.scene.kind = "hazard_scene" /\ (row.kind = "hazard_scene" => row.id <= hub.scene.id)
    BY <1>3 DEF HubInv, NewestScene
  <2>2. CASE row.kind = "hazard_scene"
    BY <1>3, <1>4, <1>6, <1>7, <2>1, <2>2
  <2>3. CASE row.kind # "hazard_scene"
    <3>1. hub.scene.id < row.id
      BY <1>3, <1>4, <1>5, <1>6, <2>1, <2>3
    <3>2. QED
      BY <1>1, <1>7, <1>11, <2>3, <3>1 DEF Shows
  <2>4. QED
    BY <2>2, <2>3
<1>14. \A r \in p.batch : p.cursor < r.id
  BY <1>2, <1>3, <1>4, <1>5, <1>6, <1>7
<1>15. ASSUME NEW x \in {hub.checkpointState, hub.scene} PROVE Comes(p, x)
  <2>1. x.id \in Nat /\ Comes(q, x)
    BY <1>1, <1>3, <1>4 DEF Shows
  <2>2. QED
    BY <1>6, <1>7, <1>10, <2>1 DEF Comes
<1>16. Shows(p)
  BY <1>6, <1>7, <1>10, <1>12, <1>13, <1>14, <1>15 DEF Shows
<1>17. p.batch \subseteq Held
  BY <1>3, <1>7
<1>18. QED
  BY <1>1, <1>2, <1>9, <1>16, <1>17, PageStep DEF p

\* The rows of a hub that has published, and nothing else, are those it had and the new one.
LEMMA PublishedRows ==
  ASSUME NEW h, NEW p, NEW row,
         Range(p.messages) \subseteq Range(h.messages) \cup {row},
         Range(p.milestones) \subseteq Range(h.milestones) \cup {row},
         p.checkpointState \in {h.checkpointState, row, NoRow}, p.scene \in {h.scene, row},
         p.failure \in {h.failure, row}
  PROVE  HubRows(p) \subseteq HubRows(h) \cup {row}
BY DEF HubRows

\* A callback's row leaves the wait, and the scenes that are passed, as they are.
LEMMA EmitsStep ==
  ASSUME HubInv, NEW kind \in {"telemetry", "phase", "hazard_scene"}, Emits(kind)
  PROVE  HubInv'
<1> DEFINE row == NextRow(hub, kind, NoToken, FALSE)
<1>1. hub \in Hub /\ kind \in RowKind /\ NoToken \in Token
  BY DEF HubInv, HubTypeOK, RowKind, Token, NoToken
<1>2. hub' = Publish(hub, kind, NoToken, FALSE) /\ UNCHANGED <<runner, browser, posts, clicked>>
  BY DEF Emits
<1>3. Told(hub, row, Publish(hub, kind, NoToken, FALSE)) /\ row.kind = kind
  BY <1>1, PublishHolds, Zenon
<1> HIDE DEF row
<1>4. Told(hub, row, hub')
  BY <1>2, <1>3, Zenon
<1>5. HubRows(hub') \subseteq HubRows(hub) \cup {row}
  BY <1>4, PublishedRows DEF Told
<1>6. Numbered' /\ Waiting' /\ NewestScene' /\ \A b \in Browsers : Shows(browser[b])'
  BY <1>2, <1>3, <1>4, <1>5, PublishStep DEF Told
<1>7. HubTypeOK' /\ ScenesPassed'
  BY <1>2, <1>4 DEF HubInv, HubTypeOK, ScenesPassed, Told
<1>8. QED
  BY <1>6, <1>7 DEF HubInv

\* A run that reviews a scene waits for that scene; those before it have been passed.
LEMMA ReviewStep == ASSUME HubInv, Review PROVE HubInv'
<1> DEFINE token == <<hub.session, hub.scenes + 1>>
           h == [hub EXCEPT !.checkpoint = token, !.scenes = hub.scenes + 1]
           row == NextRow(h, "checkpoint", token, TRUE)
<1>1. hub \in Hub /\ hub.session \in Nat \ {0} /\ hub.scenes \in Nat /\ "checkpoint" \in RowKind
  BY DEF HubInv, HubTypeOK, Hub, RowKind
<1>2. token \in Token
  BY <1>1 DEF Token
<1>3. hub' = Publish(h, "checkpoint", token, TRUE) /\ runner = "runs" /\ runner' = "waits"
  BY DEF Review, BeginCheckpoint
<1>4. UNCHANGED <<browser, posts, clicked>>
  BY DEF Review
<1> HIDE DEF token
<1>5. h \in Hub
  <2>1. hub.scenes + 1 \in Nat
    BY <1>1
  <2>2. QED
    BY <1>1, <1>2, <2>1 DEF Hub
<1>6. /\ h.session = hub.session /\ h.sequence = hub.sequence /\ h.checkpoint = token
      /\ h.failure = hub.failure /\ h.report = hub.report /\ h.scenes = hub.scenes + 1
      /\ h.scene = hub.scene /\ h.messages = hub.messages /\ h.milestones = hub.milestones
      /\ h.checkpointState = hub.checkpointState
  BY <1>1 DEF Hub
<1> HIDE DEF h
<1>7. /\ Told(h, row, Publish(h, "checkpoint", token, TRUE))
      /\ row.kind = "checkpoint" /\ row.token = token
  BY <1>1, <1>2, <1>5, PublishHolds, Zenon
<1>8. row.waiting
  BY DEF NextRow
<1> HIDE DEF row
<1>9. Told(h, row, hub')
  BY <1>3, <1>7, Zenon
<1>10. /\ row \in Row /\ row.id = hub.sequence + 1
       /\ hub' \in Hub /\ hub'.session = hub.session /\ hub'.sequence = hub.sequence + 1
       /\ hub'.checkpoint = token /\ hub'.failure = hub.failure /\ hub'.report = hub.report
       /\ hub'.scenes = hub.scenes + 1 /\ hub'.scene = hub.scene /\ hub'.checkpointState = row
       /\ Range(hub'.messages) \subseteq Range(hub.messages) \cup {row}
       /\ Range(hub'.milestones) \subseteq Range(hub.milestones) \cup {row}
  BY <1>6, <1>7, <1>9 DEF Told
<1>11. HubRows(hub') \subseteq HubRows(hub) \cup {row}
  BY <1>10, PublishedRows
<1>12. hub'.checkpoint = <<hub.session, hub'.scenes>>
  BY <1>10 DEF token
<1>13. Numbered' /\ Waiting' /\ NewestScene' /\ \A b \in Browsers : Shows(browser[b])'
  BY <1>3, <1>4, <1>7, <1>8, <1>10, <1>11, <1>12, PublishStep
<1>14. HubTypeOK'
  BY <1>3, <1>4, <1>10 DEF HubInv, HubTypeOK
<1>15. ScenesPassed'
  <2>1. /\ posts' \subseteq clicked'
        /\ hub'.failure # NoRow => hub'.report = "failed" /\ runner' \in {"failing", "failed"}
    BY <1>3, <1>4, <1>10 DEF HubInv, ScenesPassed
  <2>2. ASSUME NEW n \in 1 .. hub'.scenes
        PROVE  <<hub'.session, n>> \in clicked' \/ (n = hub'.scenes /\ hub'.checkpoint = <<hub'.session, n>>)
    <3>1. CASE n = hub.scenes + 1
      BY <1>10, <1>12, <3>1
    <3>2. CASE n \in 1 .. hub.scenes
      BY <1>3, <1>4, <1>10, <3>2 DEF HubInv, ScenesPassed
    <3>3. QED
      BY <1>1, <1>10, <3>1, <3>2
  <2>3. QED
    BY <1>3, <2>1, <2>2 DEF ScenesPassed
<1>16. QED
  BY <1>13, <1>14, <1>15 DEF HubInv

\* A run goes on when its token is gone: the scene was clicked, or the hub has failed.
LEMMA ResumesStep == ASSUME HubInv, Resumes PROVE HubInv'
<1>1. runner = "waits" /\ runner' = "runs" /\ UNCHANGED <<hub, browser, posts, clicked>>
  BY DEF Resumes
<1>2. hub.checkpoint = NoToken
  BY DEF Resumes, HubInv, Waiting
<1>3. Held' = Held
  BY <1>1 DEF Held
<1>4. HubTypeOK' /\ Numbered' /\ NewestScene'
  BY <1>1, <1>3 DEF HubInv, HubTypeOK, Numbered, NewestScene
<1>5. Waiting'
  BY <1>1, <1>2 DEF Waiting
<1>6. \A b \in Browsers : Shows(browser[b])'
  BY <1>1 DEF HubInv, Shows, Comes, Seen
<1>7. ScenesPassed'
  BY <1>1, <1>2 DEF HubInv, ScenesPassed, Resumes
<1>8. QED
  BY <1>4, <1>5, <1>6, <1>7 DEF HubInv

\* A run that ends waits for no scene.
LEMMA EndsStep == ASSUME HubInv, Ends PROVE HubInv'
<1> DEFINE row == NextRow(hub, "result", NoToken, FALSE)
           p == Publish(hub, "result", NoToken, FALSE)
<1>1. hub \in Hub /\ "result" \in RowKind /\ NoToken \in Token
  BY DEF HubInv, HubTypeOK, RowKind, Token, NoToken
<1>2. /\ hub' = [p EXCEPT !.report = "passed"] /\ runner = "runs" /\ runner' = "ended"
      /\ UNCHANGED <<browser, posts, clicked>>
  BY DEF Ends
<1>3. Told(hub, row, p) /\ row.kind = "result"
  BY <1>1, PublishHolds, Zenon
<1> HIDE DEF row, p
<1>4. /\ hub' \in Hub /\ hub'.session = p.session /\ hub'.sequence = p.sequence
      /\ hub'.checkpoint = p.checkpoint /\ hub'.failure = p.failure /\ hub'.scenes = p.scenes
      /\ hub'.scene = p.scene /\ hub'.checkpointState = p.checkpointState
      /\ hub'.messages = p.messages /\ hub'.milestones = p.milestones
  BY <1>2, <1>3 DEF Hub, Told
<1>5. hub.checkpoint = NoToken /\ hub.failure = NoRow
  BY <1>2 DEF HubInv, Waiting, ScenesPassed
<1>6. HubRows(hub') \subseteq HubRows(hub) \cup {row}
  BY <1>3, <1>4, PublishedRows DEF Told
<1>7. hub'.scene = IF row.kind = "hazard_scene" THEN row ELSE hub.scene
  BY <1>3, <1>4 DEF Told
<1>8. Numbered' /\ Waiting' /\ NewestScene' /\ \A b \in Browsers : Shows(browser[b])'
  BY <1>2, <1>3, <1>4, <1>5, <1>6, <1>7, PublishStep DEF Told
<1>9. HubTypeOK' /\ ScenesPassed'
  BY <1>2, <1>3, <1>4, <1>5 DEF HubInv, HubTypeOK, ScenesPassed, Told
<1>10. QED
  BY <1>8, <1>9 DEF HubInv

\* A failure ends the wait, and the report says failed.
LEMMA FailsStep == ASSUME HubInv, Fails PROVE HubInv'
<1> DEFINE row == NextRow(hub, "error", NoToken, FALSE)
           p == Publish(hub, "error", NoToken, FALSE)
<1>1. hub \in Hub /\ "error" \in RowKind /\ NoToken \in Token /\ NoRow \in Row
  BY DEF HubInv, HubTypeOK, RowKind, Token, NoToken, NoRow, Row
<1>2. /\ hub' = [p EXCEPT !.checkpoint = NoToken, !.checkpointState = NoRow,
                          !.failure = row, !.report = "failed"]
      /\ runner' \in {"failing", "failed"} /\ UNCHANGED <<browser, posts, clicked>>
  BY DEF Fails, Fail
<1>3. Told(hub, row, p) /\ row.kind = "error"
  BY <1>1, PublishHolds, Zenon
<1> HIDE DEF row, p
<1>4. /\ hub' \in Hub /\ hub'.session = p.session /\ hub'.sequence = p.sequence
      /\ hub'.checkpoint = NoToken /\ hub'.failure = row /\ hub'.scenes = p.scenes
      /\ hub'.scene = p.scene /\ hub'.checkpointState = NoRow /\ hub'.report = "failed"
      /\ hub'.messages = p.messages /\ hub'.milestones = p.milestones
  BY <1>1, <1>2, <1>3 DEF Hub, Told
<1>5. HubRows(hub') \subseteq HubRows(hub) \cup {row}
  BY <1>3, <1>4, PublishedRows DEF Told
<1>6. hub'.scene = IF row.kind = "hazard_scene" THEN row ELSE hub.scene
  BY <1>3, <1>4 DEF Told
<1>7. Numbered' /\ Waiting' /\ NewestScene' /\ \A b \in Browsers : Shows(browser[b])'
  BY <1>2, <1>3, <1>4, <1>5, <1>6, PublishStep DEF Told
<1>8. HubTypeOK' /\ ScenesPassed'
  BY <1>2, <1>3, <1>4 DEF HubInv, HubTypeOK, ScenesPassed, Told
<1>9. QED
  BY <1>7, <1>8 DEF HubInv

\* An accepted post ends the wait for the scene whose token was clicked.
LEMMA AdvancedStep == ASSUME HubInv, NEW token \in posts, Advanced(token) PROVE HubInv'
<1> DEFINE h == [hub EXCEPT !.checkpoint = NoToken]
           row == NextRow(h, "checkpoint", token, FALSE)
           p == Publish(h, "checkpoint", token, FALSE)
<1>1. hub \in Hub /\ "checkpoint" \in RowKind /\ NoToken \in Token
  BY DEF HubInv, HubTypeOK, RowKind, Token, NoToken
<1>2. hub' = p /\ token = hub.checkpoint /\ token # NoToken /\ UNCHANGED <<runner, browser, posts, clicked>>
  BY DEF Advanced, Accepts, Advance
<1>3. token \in Token
  BY <1>1, <1>2 DEF Hub
<1>4. h \in Hub
  BY <1>1 DEF Hub
<1>5. /\ h.session = hub.session /\ h.sequence = hub.sequence /\ h.checkpoint = NoToken
      /\ h.failure = hub.failure /\ h.report = hub.report /\ h.scenes = hub.scenes
      /\ h.scene = hub.scene /\ h.messages = hub.messages /\ h.milestones = hub.milestones
      /\ h.checkpointState = hub.checkpointState
  BY <1>1 DEF Hub
<1> HIDE DEF h
<1>6. Told(h, row, p) /\ row.kind = "checkpoint"
  BY <1>1, <1>3, <1>4, PublishHolds, Zenon
<1> HIDE DEF row, p
<1>7. /\ row \in Row /\ row.id = hub.sequence + 1
      /\ hub' \in Hub /\ hub'.session = hub.session /\ hub'.sequence = hub.sequence + 1
      /\ hub'.checkpoint = NoToken /\ hub'.failure = hub.failure /\ hub'.report = hub.report
      /\ hub'.scenes = hub.scenes /\ hub'.scene = hub.scene /\ hub'.checkpointState = row
      /\ Range(hub'.messages) \subseteq Range(hub.messages) \cup {row}
      /\ Range(hub'.milestones) \subseteq Range(hub.milestones) \cup {row}
  BY <1>2, <1>5, <1>6 DEF Told
<1>8. HubRows(hub') \subseteq HubRows(hub) \cup {row}
  BY <1>7, PublishedRows
<1>9. Numbered' /\ Waiting' /\ NewestScene' /\ \A b \in Browsers : Shows(browser[b])'
  BY <1>2, <1>6, <1>7, <1>8, PublishStep
<1>10. HubTypeOK'
  BY <1>2, <1>7 DEF HubInv, HubTypeOK
<1>11. hub.checkpoint = <<hub.session, hub.scenes>> /\ hub.checkpoint \in clicked
  BY <1>2 DEF HubInv, Waiting, ScenesPassed
<1>12. ScenesPassed'
  <2>1. ASSUME NEW n \in 1 .. hub'.scenes
        PROVE  <<hub'.session, n>> \in clicked' \/ runner' \in {"failing", "failed"}
    BY <1>2, <1>7, <1>11 DEF HubInv, ScenesPassed
  <2>2. QED
    BY <1>2, <1>7, <2>1 DEF HubInv, ScenesPassed
<1>13. QED
  BY <1>9, <1>10, <1>12 DEF HubInv

\* A click posts the token that the page shows.
LEMMA ClickStep == ASSUME HubInv, NEW b \in Browsers, Click(b) PROVE HubInv'
<1>1. /\ UNCHANGED <<hub, runner, browser>> /\ posts' = posts \cup {browser[b].token}
      /\ clicked' = clicked \cup {browser[b].token}
  BY DEF Click
<1>2. Held' = Held
  BY <1>1 DEF Held
<1>3. HubTypeOK' /\ Numbered' /\ Waiting' /\ NewestScene'
  BY <1>1, <1>2 DEF HubInv, HubTypeOK, Numbered, Waiting, NewestScene
<1>4. \A c \in Browsers : Shows(browser[c])'
  BY <1>1 DEF HubInv, Shows, Comes, Seen
<1>5. ScenesPassed'
  BY <1>1 DEF HubInv, ScenesPassed
<1>6. QED
  BY <1>3, <1>4, <1>5 DEF HubInv

\* A hub that has published nothing has no rows.
LEMMA NewHubHolds ==
  ASSUME NEW session \in Nat \ {0}
  PROVE  /\ NewHub(session) \in Hub /\ HubRows(NewHub(session)) = {NoRow}
         /\ NewHub(session).session = session /\ NewHub(session).sequence = 0
         /\ NewHub(session).checkpoint = NoToken /\ NewHub(session).scenes = 0
         /\ NewHub(session).failure = NoRow /\ NewHub(session).scene = NoRow
         /\ NewHub(session).checkpointState = NoRow
<1>1. NoRow \in Row /\ NoToken \in Token /\ << >> \in Seq(Row)
  BY DEF NoRow, NoToken, Row, RowKind, Token
<1>2. NewHub(session) \in Hub
  BY <1>1 DEF NewHub, Hub
<1>3. Range(<< >>) = {}
  BY DEF Range
<1>4. QED
  BY <1>2, <1>3 DEF NewHub, HubRows

\* Pages that outlive a run start from the first row of the next.
LEMMA RestartStep == ASSUME HubInv, Restart PROVE HubInv'
<1> DEFINE q(b) == browser[b]
           p(b) == IF browser[b].conn = "open" THEN [browser[b] EXCEPT !.conn = "lost", !.batch = {}]
                                               ELSE browser[b]
<1>1. hub.session \in Nat \ {0} /\ hub.session + 1 \in Nat \ {0}
  BY DEF HubInv, HubTypeOK, Hub
<1>2. /\ hub' = NewHub(hub.session + 1) /\ runner' = "runs" /\ UNCHANGED <<posts, clicked>>
      /\ browser' = [b \in Browsers |-> p(b)]
  BY DEF Restart
<1>3. /\ hub' \in Hub /\ HubRows(hub') = {NoRow}
      /\ hub'.session = hub.session + 1 /\ hub'.sequence = 0
      /\ hub'.checkpoint = NoToken /\ hub'.scenes = 0
      /\ hub'.failure = NoRow /\ hub'.scene = NoRow /\ hub'.checkpointState = NoRow
  BY <1>1, <1>2, NewHubHolds
<1>4. ASSUME NEW b \in Browsers
      PROVE  /\ p(b) \in Page /\ p(b).conn # "open" /\ p(b).session <= hub.session
             /\ p(b).conn = "lost" => p(b).batch = {}
  <2>1. q(b) \in Page /\ Shows(q(b))
    BY DEF HubInv, HubTypeOK
  <2>2. QED
    BY <2>1 DEF Page, Shows
<1> HIDE DEF p
<1>5. \A b \in Browsers : browser'[b] = p(b)
  BY <1>2
<1>6. Held' = {NoRow}
  BY <1>3, <1>4, <1>5 DEF Held
<1>7. NoRow.id = 0 /\ NoRow.kind = "none"
  BY DEF NoRow
<1>8. Numbered' /\ Waiting' /\ NewestScene'
  BY <1>3, <1>6, <1>7 DEF Numbered, Waiting, NewestScene
<1>9. \A b \in Browsers : Shows(browser[b])'
  <2>1. ASSUME NEW b \in Browsers PROVE Shows(browser[b])'
    <3>1. p(b).session \in Nat /\ p(b).session # hub'.session /\ p(b).session <= hub'.session
      BY <1>1, <1>3, <1>4 DEF Page
    <3>2. QED
      BY <1>3, <1>4, <1>5, <3>1 DEF Shows
  <2>2. QED
    BY <2>1
<1>10. HubTypeOK'
  BY <1>2, <1>3, <1>4 DEF HubTypeOK
<1>11. ScenesPassed'
  BY <1>2, <1>3 DEF HubInv, ScenesPassed
<1>12. QED
  BY <1>8, <1>9, <1>10, <1>11 DEF HubInv

\* The first run has shown no page anything.
LEMMA HubStart == HubInit => HubInv
<1> SUFFICES ASSUME HubInit PROVE HubInv
  OBVIOUS
<1>1. /\ hub = NewHub(1) /\ runner = "runs" /\ posts = {} /\ clicked = {}
      /\ browser = [b \in Browsers |-> NewPage]
  BY DEF HubInit
<1>2. /\ hub \in Hub /\ HubRows(hub) = {NoRow} /\ hub.session = 1 /\ hub.sequence = 0
      /\ hub.checkpoint = NoToken /\ hub.scenes = 0
      /\ hub.failure = NoRow /\ hub.scene = NoRow /\ hub.checkpointState = NoRow
  BY <1>1, NewHubHolds
<1>3. NewPage \in Page /\ NewPage.conn = "lost" /\ NewPage.session = 0 /\ NewPage.batch = {}
  BY DEF NewPage, Page, Token, NoToken
<1>4. Held = {NoRow}
  BY <1>1, <1>2, <1>3 DEF Held
<1>5. NoRow.id = 0 /\ NoRow.kind = "none"
  BY DEF NoRow
<1>6. Numbered /\ Waiting /\ NewestScene
  BY <1>2, <1>4, <1>5 DEF Numbered, Waiting, NewestScene
<1>7. \A b \in Browsers : Shows(browser[b])
  BY <1>1, <1>2, <1>3 DEF Shows
<1>8. HubTypeOK /\ ScenesPassed
  BY <1>1, <1>2, <1>3 DEF HubTypeOK, ScenesPassed
<1>9. QED
  BY <1>6, <1>7, <1>8 DEF HubInv

\* Every step of the run, of its pages and of their users keeps the hub's invariant.
LEMMA HubStep == HubInv /\ [HubNext]_hubVars => HubInv'
<1> SUFFICES ASSUME HubInv, [HubNext]_hubVars PROVE HubInv'
  OBVIOUS
<1>1. ASSUME NEW kind \in {"telemetry", "phase", "hazard_scene"}, Emits(kind) PROVE HubInv'
  BY <1>1, EmitsStep
<1>2. CASE Review
  BY <1>2, ReviewStep
<1>3. CASE Resumes
  BY <1>3, ResumesStep
<1>4. CASE Ends
  BY <1>4, EndsStep
<1>5. CASE Fails
  BY <1>5, FailsStep
<1>6. CASE Restart
  BY <1>6, RestartStep
<1>7. ASSUME NEW b \in Browsers, Connect(b) \/ Fetch(b) \/ Drops(b) \/ Reload(b) PROVE HubInv'
  <2>1. UNCHANGED <<hub, runner, posts, clicked>>
    BY <1>7 DEF Connect, Fetch, Drops, Reload
  <2>2. ScenesPassed'
    BY <2>1 DEF HubInv, ScenesPassed
  <2>3. QED
    BY <1>7, <2>2, ConnectionStep DEF HubInv
<1>8. ASSUME NEW b \in Browsers, PageReceives(b) PROVE HubInv'
  <2>1. UNCHANGED <<hub, runner, posts, clicked>>
    BY <1>8 DEF PageReceives
  <2>2. ScenesPassed'
    BY <2>1 DEF HubInv, ScenesPassed
  <2>3. QED
    BY <1>8, <2>2, ReceivesStep DEF HubInv
<1>9. ASSUME NEW b \in Browsers, Click(b) PROVE HubInv'
  BY <1>9, ClickStep
<1>10. ASSUME NEW token \in posts, Advanced(token) PROVE HubInv'
  BY <1>10, AdvancedStep
<1>11. CASE UNCHANGED hubVars
  <2>1. UNCHANGED <<hub, runner, browser, posts, clicked>>
    BY <1>11 DEF hubVars
  <2>2. Held' = Held
    BY <2>1 DEF Held
  <2>3. HubTypeOK' /\ Numbered' /\ Waiting' /\ NewestScene' /\ ScenesPassed'
    BY <2>1, <2>2 DEF HubInv, HubTypeOK, Numbered, Waiting, NewestScene, ScenesPassed
  <2>4. \A c \in Browsers : Shows(browser[c])'
    BY <2>1 DEF HubInv, Shows, Comes, Seen
  <2>5. QED
    BY <2>3, <2>4 DEF HubInv
<1>12. QED
  BY <1>1, <1>2, <1>3, <1>4, <1>5, <1>6, <1>7, <1>8, <1>9, <1>10, <1>11 DEF HubNext

\* The run, the connections and the pages keep the hub's invariant, for queues of
\* every length and any number of pages and runs.
THEOREM HubInvariant == HubSpec => []HubInv
<1>1. HubInit => HubInv
  BY HubStart
<1>2. HubInv /\ [HubNext]_hubVars => HubInv'
  BY HubStep
<1>3. QED
  BY <1>1, <1>2, PTL DEF HubSpec

\* The run passes a scene only by a click on that very scene, and the report of a
\* run that has failed says so (do_POST, advance_checkpoint, fail).
THEOREM SceneAlwaysByItsClick == HubSpec => []SceneByItsClick
<1>1. HubInv => SceneByItsClick
  <2> SUFFICES ASSUME HubInv PROVE SceneByItsClick
    OBVIOUS
  <2>1. ScenesPassed
    BY DEF HubInv
  <2>2. QED
    BY <2>1 DEF ScenesPassed, SceneByItsClick
<1>2. QED
  BY <1>1, HubInvariant, PTL

\* A page that has been sent everything shows the checkpoint the run waits at and the
\* present scene, whatever the queues have dropped (after, _stream).
THEOREM WaitingIsAlwaysShown == HubSpec => []WaitingIsShown
<1>1. HubInv => WaitingIsShown
  <2> SUFFICES ASSUME HubInv, NEW b \in Browsers, CaughtUp(b)
               PROVE  /\ hub.checkpoint # NoToken => browser[b].token = hub.checkpoint
                      /\ browser[b].scene = hub.scene.id \/ hub.scene = NoRow
    BY DEF WaitingIsShown
  <2>1. /\ Shows(browser[b]) /\ browser[b].conn = "open" /\ browser[b].cursor \in Nat
        /\ After(hub, browser[b].cursor) = {}
        /\ hub.checkpointState.id \in Nat /\ hub.scene.id \in Nat
    BY DEF HubInv, HubTypeOK, CaughtUp, Page, Hub, Row
  <2>2. browser[b].cursor = Seen(browser[b])
    BY <2>1 DEF Shows
  <2>3. ~(browser[b].cursor < hub.checkpointState.id) /\ ~(browser[b].cursor < hub.scene.id)
    BY <2>1, AfterHolds
  <2>4. QED
    BY <2>1, <2>2, <2>3 DEF Shows
<1>2. QED
  BY <1>1, HubInvariant, PTL
=============================================================================
