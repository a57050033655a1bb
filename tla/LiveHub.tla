------------------------------ MODULE LiveHub ------------------------------
(***************************************************************************)
(* The browser stream of a running simulation (ros/gazebo/live_stream.py): *)
(* the run and its ROS callbacks publish rows into two bounded queues,     *)
(* every browser follows them over a connection that may drop at any row,  *)
(* and in a step-through run the run waits at a checkpoint until a browser *)
(* posts that checkpoint's token back.  The simulator may be restarted     *)
(* under pages that stay open.                                             *)
(***************************************************************************)
EXTENDS Integers, Sequences, Functions

CONSTANTS Browsers,
          MaxMessages, MaxMilestones,  \* lengths of the two queues (512 and 64 in the code)
          MaxSequence,                 \* bound: rows of one session
          MaxSessions                  \* bound: runs of the simulator

\* A queue of length zero would drop the row it is given.
ASSUME HubAssumption == {MaxMessages, MaxMilestones} \subseteq Nat \ {0}

VARIABLES hub,      \* the LiveHub of the current run
          runner,   \* what the run does: "runs", "waits", "ended", "failing", "failed"
          browser,  \* browser[b]: a page, its connection and the row cursor the server keeps for it
          posts,    \* tokens posted to /advance; a post can be delayed or repeated
          clicked   \* tokens some user clicked on
hubVars == <<hub, runner, browser, posts, clicked>>

NoRow == [id |-> 0, kind |-> "none", token |-> <<0, 0>>, waiting |-> FALSE]
NoToken == <<0, 0>>

(* LiveHub.__init__: every run has a session id of its own. *)
NewHub(session) ==
  [session |-> session, sequence |-> 0, messages |-> <<>>, milestones |-> <<>>,
   checkpoint |-> NoToken, checkpointState |-> NoRow, scene |-> NoRow,
   failure |-> NoRow, report |-> "pending", scenes |-> 0]

NewPage == [conn |-> "lost", cursor |-> 0, batch |-> {}, session |-> 0, last |-> 0,
            token |-> NoToken, failed |-> FALSE, scene |-> 0]

HubInit == /\ hub = NewHub(1)
           /\ runner = "runs"
           /\ browser = [b \in Browsers |-> NewPage]
           /\ posts = {}
           /\ clicked = {}

-----------------------------------------------------------------------------
(* The hub's operations, each under its lock. *)

(* deque.append of a queue with a maximum length *)
Push(queue, row, max) ==
  IF Len(queue) < max THEN Append(queue, row) ELSE Append(Tail(queue), row)

Milestone == {"phase", "result"}

NextRow(h, kind, token, waiting) ==
  [id |-> h.sequence + 1, kind |-> kind, token |-> token, waiting |-> waiting]

Publish(h, kind, token, waiting) ==
  LET row == NextRow(h, kind, token, waiting)
  IN [h EXCEPT !.sequence = row.id,
               !.messages = Push(@, row, MaxMessages),
               !.milestones = IF kind \in Milestone THEN Push(@, row, MaxMilestones) ELSE @,
               !.scene = IF kind = "hazard_scene" THEN row ELSE @,
               !.checkpointState = IF kind = "checkpoint" THEN row ELSE @]

BeginCheckpoint(h) ==
  LET token == <<h.session, h.scenes + 1>>
  IN Publish([h EXCEPT !.checkpoint = token, !.scenes = @ + 1], "checkpoint", token, TRUE)

(* fail: a report that was already given is marked failed, whatever it said. *)
Fail(h) ==
  [Publish(h, "error", NoToken, FALSE) EXCEPT
     !.checkpoint = NoToken, !.checkpointState = NoRow,
     !.failure = NextRow(h, "error", NoToken, FALSE), !.report = "failed"]

(* advance_checkpoint: the token must be the one of the present wait. *)
AcceptsAny(h, token) == h.checkpoint # NoToken

Accepts(h, token) == h.checkpoint = token /\ token # NoToken

Advance(h, token) ==
  Publish([h EXCEPT !.checkpoint = NoToken], "checkpoint", token, FALSE)

(* after: the rows beyond the cursor that either queue still holds, with   *)
(* the last checkpoint, scene and failure even when the queues lost them.  *)
(* They are written in the order of their numbers (PageReceives).          *)
AfterQueues(h, cursor) ==
  {r \in Range(h.messages) \cup Range(h.milestones) : r.id > cursor}

AfterForgetsFailure(h, cursor) ==
  {r \in Range(h.messages) \cup Range(h.milestones) \cup {h.checkpointState, h.scene} :
     r.id > cursor}

After(h, cursor) ==
  {r \in Range(h.messages) \cup Range(h.milestones)
            \cup {h.checkpointState, h.scene, h.failure} : r.id > cursor}

-----------------------------------------------------------------------------
(* The run, its ROS callbacks and the user's restart. *)

HasRoom == hub.sequence < MaxSequence

(* A ROS callback publishes a row; one that outlives the join of its thread *)
(* still does so after the run has failed.                                  *)
Emits(kind) ==
  /\ HasRoom
  /\ hub' = Publish(hub, kind, NoToken, FALSE)
  /\ UNCHANGED <<runner, browser, posts, clicked>>

(* review_scene of a step-through run *)
Review ==
  /\ HasRoom
  /\ runner = "runs"
  /\ hub' = BeginCheckpoint(hub)
  /\ runner' = "waits"
  /\ UNCHANGED <<browser, posts, clicked>>

(* The run's wait_for notices that its token is no longer the hub's. *)
Resumes ==
  /\ runner = "waits"
  /\ hub.checkpoint # <<hub.session, hub.scenes>>
  /\ runner' = "runs"
  /\ UNCHANGED <<hub, browser, posts, clicked>>

(* The run publishes its result; its report says what it measured. *)
Ends ==
  /\ HasRoom
  /\ runner = "runs"
  /\ hub' = [Publish(hub, "result", NoToken, FALSE) EXCEPT !.report = "passed"]
  /\ runner' = "ended"
  /\ UNCHANGED <<browser, posts, clicked>>

(* main's two handlers: the run raised, even after a published result when *)
(* a process cannot be stopped, and the failure is raised again once the   *)
(* artifacts are exported; or only that final export failed.               *)
Fails ==
  /\ runner # "failed"
  /\ hub' = Fail(hub)
  /\ runner' \in {"failing", "failed"} \ {runner}
  /\ UNCHANGED <<browser, posts, clicked>>

(* The process is started again; its predecessor's connections break. *)
Restart ==
  /\ hub.session < MaxSessions
  /\ hub' = NewHub(hub.session + 1)
  /\ runner' = "runs"
  /\ browser' = [b \in Browsers |->
       IF browser[b].conn = "open" THEN [browser[b] EXCEPT !.conn = "lost", !.batch = {}]
                                   ELSE browser[b]]
  /\ UNCHANGED <<posts, clicked>>

-----------------------------------------------------------------------------
(* Browsers. *)

(* The row number a reconnecting page continues from: its own only when it *)
(* is of this session, and never beyond the last row published.            *)
Cursor(p) ==
  IF p.session # hub.session THEN 0 ELSE IF p.last < hub.sequence THEN p.last ELSE hub.sequence

Connect(b) ==
  /\ browser[b].conn = "lost"
  /\ browser' = [browser EXCEPT ![b].conn = "open", ![b].cursor = Cursor(browser[b])]
  /\ UNCHANGED <<hub, runner, posts, clicked>>

(* _stream: the next batch of rows for a connection that has none to write *)
Fetch(b) ==
  /\ browser[b].conn = "open" /\ browser[b].batch = {}
  /\ After(hub, browser[b].cursor) # {}
  /\ browser' = [browser EXCEPT ![b].batch = After(hub, browser[b].cursor)]
  /\ UNCHANGED <<hub, runner, posts, clicked>>

(* What the page shows after a row (sim/gazebo-live.js onmessage).  An error *)
(* and a result close its stream for good: what is left of the batch is not   *)
(* shown any more.                                                          *)
Closes == {"error", "result"}

Shown(p, row) ==
  [p EXCEPT !.token = CASE row.kind = "checkpoint" /\ row.waiting -> row.token
                        [] row.kind = "checkpoint" /\ ~row.waiting /\ @ = row.token -> NoToken
                        [] row.kind \in Closes -> NoToken
                        [] OTHER -> @,
            !.failed = @ \/ row.kind = "error",
            !.scene = IF row.kind = "hazard_scene" THEN row.id ELSE @,
            !.session = hub.session,
            !.last = row.id,
            !.cursor = row.id,
            !.batch = @ \ {row},
            !.conn = IF row.kind \in Closes THEN "closed" ELSE @]

PageReceives(b) ==
  /\ browser[b].conn = "open"
  /\ \E row \in browser[b].batch :
       /\ \A r \in browser[b].batch : row.id <= r.id
       /\ browser' = [browser EXCEPT ![b] = Shown(@, row)]
  /\ UNCHANGED <<hub, runner, posts, clicked>>

Drops(b) ==
  /\ browser[b].conn = "open"
  /\ browser' = [browser EXCEPT ![b].conn = "lost", ![b].batch = {}]
  /\ UNCHANGED <<hub, runner, posts, clicked>>

Reload(b) ==
  /\ browser[b] # NewPage
  /\ browser' = [browser EXCEPT ![b] = NewPage]
  /\ UNCHANGED <<hub, runner, posts, clicked>>

Click(b) ==
  /\ browser[b].conn = "open" /\ browser[b].token # NoToken
  /\ browser[b].token \notin posts
  /\ posts' = posts \cup {browser[b].token}
  /\ clicked' = clicked \cup {browser[b].token}
  /\ UNCHANGED <<hub, runner, browser>>

(* do_POST: refused once the run has failed, and unless the token is the   *)
(* one waited for.  (The two are separate lock sections; a failure between *)
(* them clears the checkpoint, which refuses the token just the same.)     *)
Advanced(token) ==
  /\ token \in posts
  /\ HasRoom
  /\ hub.failure = NoRow
  /\ Accepts(hub, token)
  /\ hub' = Advance(hub, token)
  /\ UNCHANGED <<runner, browser, posts, clicked>>

HubNext ==
  \/ \E kind \in {"telemetry", "phase", "hazard_scene"} : Emits(kind)
  \/ Review \/ Resumes \/ Ends \/ Fails \/ Restart
  \/ \E b \in Browsers : Connect(b) \/ Fetch(b) \/ PageReceives(b) \/ Drops(b) \/ Reload(b) \/ Click(b)
  \/ \E token \in posts : Advanced(token)

HubSpec == HubInit /\ [][HubNext]_hubVars

(* The server's threads and EventSource's reconnection keep working; a     *)
(* connection that drops again and again still lets a row through once in  *)
(* a while.                                                                *)
HubFairness ==
  \A b \in Browsers :
    WF_hubVars(Connect(b)) /\ SF_hubVars(Fetch(b)) /\ SF_hubVars(PageReceives(b))

-----------------------------------------------------------------------------
CaughtUp(b) == /\ browser[b].conn = "open" /\ browser[b].batch = {}
               /\ After(hub, browser[b].cursor) = {}

(* A page that has been sent everything shows the checkpoint the run is    *)
(* waiting at and the present scene, however late it connected, whatever   *)
(* the queues have dropped and whichever run its last row came from        *)
(* (after keeps _checkpoint_state and _hazard_state; _stream trusts        *)
(* Last-Event-ID only within a session).                                   *)
WaitingIsShown ==
  \A b \in Browsers : CaughtUp(b) =>
    /\ hub.checkpoint # NoToken => browser[b].token = hub.checkpoint
    /\ browser[b].scene = hub.scene.id \/ hub.scene = NoRow

(* The run passes a scene only by a click on that very scene: a double     *)
(* click, a stale tab or a delayed request never skips a later one         *)
(* (do_POST, advance_checkpoint).  And once a run has failed no report of  *)
(* it says otherwise, not even after a published result (fail).            *)
SceneByItsClick ==
  /\ runner \in {"runs", "ended"} =>
       \A n \in 1..hub.scenes : <<hub.session, n>> \in clicked
  /\ hub.failure # NoRow => hub.report = "failed"

(* Every page learns of a failure, or has closed its stream on a result:   *)
(* after evictions, drops, reconnections and a restart the error row still *)
(* reaches a page that listens, unless its user reloads it for ever (after *)
(* keeps _failure).                                                        *)
FailureReaches ==
  \A b \in Browsers :
    <>[][~Reload(b)]_hubVars =>
      (hub.failure # NoRow /\ hub.session = MaxSessions
         ~> browser[b].failed \/ browser[b].conn = "closed")

(* What docs/gazebo-reference.md says of a failed runner: the page shows the *)
(* failure and retains it after a refresh.  Here: a page that has closed its  *)
(* stream, and to which the error was written, shows it.  It does not when a  *)
(* result was published before the error (run_reference.py, a failed final    *)
(* export): every batch begins with the result, which closes the stream.      *)
FailureIsShown ==
  \A b \in Browsers :
    browser[b].conn = "closed" /\ browser[b].session = hub.session
      => (hub.failure \in browser[b].batch => browser[b].failed)
=============================================================================
