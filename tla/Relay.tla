------------------------------- MODULE Relay -------------------------------
(***************************************************************************)
(* The untrusted relay between the gate and the arm's controller           *)
(* (ros/haetae_gate/relay.py): an action server whose execute coroutine is *)
(* a client of the controller's action server.  One thread runs it, so     *)
(* callbacks interleave exactly at the awaits; a cancellation may arrive   *)
(* at any of them.                                                         *)
(***************************************************************************)
EXTENDS Integers, FiniteSets

CONSTANT Goals

VARIABLES goal,        \* state of the relay's own goal: the gate's side
          pc,          \* where goal's execute coroutine waits
          handles,     \* goals whose controller handle is known
          controller,  \* the controller's state of the forwarded goal
          cancelSent,  \* cancel_goal_async was called on its handle
          ready        \* the controller's action server is discovered
vars == <<goal, pc, handles, controller, cancelSent, ready>>

Live == {"executing", "canceling"}
Ended == {"succeeded", "canceled", "aborted"}

Init == /\ goal = [g \in Goals |-> "none"]
        /\ pc = [g \in Goals |-> "none"]
        /\ handles = {}
        /\ controller = [g \in Goals |-> "none"]
        /\ cancelSent = {}
        /\ ready \in BOOLEAN

-----------------------------------------------------------------------------
(* The relay. *)

Aborts(g) == /\ goal' = [goal EXCEPT ![g] = "aborted"]
             /\ pc' = [pc EXCEPT ![g] = "done"]
             /\ handles' = handles \ {g}

(* goal_callback accepts every goal; execute runs up to its first await. *)
Execute(g) ==
  /\ goal[g] = "none"
  /\ IF ready
     THEN /\ goal' = [goal EXCEPT ![g] = "executing"]
          /\ pc' = [pc EXCEPT ![g] = "sending"]
          /\ controller' = [controller EXCEPT ![g] = "asked"]
          /\ UNCHANGED handles
     ELSE Aborts(g) /\ UNCHANGED controller
  /\ UNCHANGED <<cancelSent, ready>>

(* The controller's answer arrives: the handle becomes known, and a        *)
(* cancellation that came before it is passed on now.                      *)
ForwardsNone(g) == FALSE

Forwards(g) == goal[g] = "canceling"

GoalResponse(g) ==
  /\ pc[g] = "sending" /\ controller[g] \notin {"none", "asked"}
  /\ IF controller[g] = "refused"
     THEN Aborts(g) /\ UNCHANGED cancelSent
     ELSE /\ handles' = handles \cup {g}
          /\ cancelSent' = IF Forwards(g) THEN cancelSent \cup {g} ELSE cancelSent
          /\ pc' = [pc EXCEPT ![g] = IF Forwards(g) THEN "canceling" ELSE "waiting"]
          /\ UNCHANGED goal
  /\ UNCHANGED <<controller, ready>>

(* await handle.cancel_goal_async(): any answer of the controller will do. *)
CancelResponse(g) ==
  /\ pc[g] = "canceling"
  /\ pc' = [pc EXCEPT ![g] = "waiting"]
  /\ UNCHANGED <<goal, handles, controller, cancelSent, ready>>

(* The result: canceled() is an invalid transition for a goal nobody asked *)
(* to cancel, and the exception it raises aborts the goal.                 *)
EndsAs(g) ==
  IF controller[g] = "canceled" /\ goal[g] # "canceling" THEN "aborted" ELSE controller[g]

Result(g) ==
  /\ pc[g] = "waiting" /\ controller[g] \in Ended
  /\ goal' = [goal EXCEPT ![g] = EndsAs(g)]
  /\ pc' = [pc EXCEPT ![g] = "done"]
  /\ handles' = handles \ {g}
  /\ UNCHANGED <<controller, cancelSent, ready>>

(* cancel: forwarded when the handle is known, accepted in any case. *)
CancelAsks(g) == IF g \in handles THEN cancelSent \cup {g} ELSE cancelSent

Cancel(g) ==
  /\ goal[g] \in Live
  /\ cancelSent' = CancelAsks(g)
  /\ goal' = [goal EXCEPT ![g] = "canceling"]
  /\ UNCHANGED <<pc, handles, controller, ready>>

-----------------------------------------------------------------------------
(* The controller's action server, as the relay sees it. *)

ControllerAnswers(g) ==
  /\ controller[g] = "asked"
  /\ controller' = [controller EXCEPT ![g] = "executing"] \/ controller' = [controller EXCEPT ![g] = "refused"]
  /\ UNCHANGED <<goal, pc, handles, cancelSent, ready>>

(* It ends a goal by itself (a fault, a lost lease), or as it was asked. *)
ControllerEnds(g) ==
  /\ controller[g] = "executing"
  /\ \E end \in Ended : controller' = [controller EXCEPT ![g] = end]
  /\ UNCHANGED <<goal, pc, handles, cancelSent, ready>>

ControllerCancels(g) ==
  /\ controller[g] = "executing" /\ g \in cancelSent
  /\ controller' = [controller EXCEPT ![g] = "canceled"]
  /\ UNCHANGED <<goal, pc, handles, cancelSent, ready>>

Discovered == /\ ~ready /\ ready' = TRUE
              /\ UNCHANGED <<goal, pc, handles, controller, cancelSent>>

Next == \/ Discovered
        \/ \E g \in Goals : \/ Execute(g) \/ GoalResponse(g) \/ CancelResponse(g) \/ Result(g)
                            \/ Cancel(g)
                            \/ ControllerAnswers(g) \/ ControllerEnds(g) \/ ControllerCancels(g)

Spec == Init /\ [][Next]_vars

(* The executor spins, the controller answers goals and cancellations; it  *)
(* need not end a goal nobody cancels.                                     *)
Fairness == \A g \in Goals : /\ WF_vars(GoalResponse(g)) /\ WF_vars(CancelResponse(g))
                             /\ WF_vars(Result(g))
                             /\ WF_vars(ControllerAnswers(g)) /\ WF_vars(ControllerCancels(g))

-----------------------------------------------------------------------------
(* A goal the relay waits for and has been asked to cancel is always being *)
(* cancelled at the controller, at whichever await the request came        *)
(* (cancel's handle lookup and execute's check after send_goal_async).     *)
CancelIsForwarded ==
  \A g \in Goals : goal[g] = "canceling" /\ pc[g] = "waiting" => g \in cancelSent

(* What the relay tells the gate about a goal agrees with what the         *)
(* controller did, and a cancelled goal is reported only to someone who    *)
(* asked for it (rclpy refuses the transition otherwise).                  *)
EndIsTrue ==
  [][\A g \in Goals : goal'[g] # goal[g] =>
        /\ goal'[g] = "succeeded" => controller[g] = "succeeded"
        /\ goal'[g] = "canceled" => controller[g] = "canceled" /\ goal[g] = "canceling"]_vars

(* A cancelled goal ends at the gate. *)
CancelEnds == \A g \in Goals : goal[g] = "canceling" ~> goal[g] \in Ended
=============================================================================
