----------------------------- MODULE EnforceLoop -----------------------------
(***************************************************************************)
(* The enforcement process: enforce_stdio (haetae/src/main.rs) driving the  *)
(* enforcer, its state file (haetae-enforce/src/state.rs), the pipe to the  *)
(* controller, and the operator's offline reset.  The process may die       *)
(* between any two of: handling an input, writing the checkpoint, writing   *)
(* the reply.                                                               *)
(*                                                                         *)
(* proc is where the loop stands:                                          *)
(*   down        no process                                                *)
(*   ready       waiting for a line                                        *)
(*   checkpoint  a positive reply or an acknowledgement waits for the disk  *)
(*   reply       the checkpoint is written, the reply is not                *)
(*   emit        a stop goes out first                                      *)
(*   save        the stop is out, the checkpoint is not written             *)
(* disk is the state file.  wire, executed, acked and cleared are history   *)
(* variables: the trajectory the controller is executing, every trajectory  *)
(* sent since the first boot, the newest task revision acknowledged to the  *)
(* observer, and whether an operator's reset still stands: since it, no      *)
(* mode that only allows stopping, and no end without the clean marker.     *)
(***************************************************************************)
EXTENDS EnforcerCore, Sequences

CONSTANTS
  TrajectoryInput,  \* the trajectories that may arrive
  FactInput,        \* the contents a world may have, whatever its stamp
  FaultInput,       \* the modes a fault may ask for
  OperatorMode,     \* the modes an operator may set offline
  MaxNow            \* bound on the clock

ASSUME LoopAssumption ==
  /\ TrajectoryInput \subseteq Trajectory
  /\ FaultInput \subseteq Mode
  /\ OperatorMode \subseteq Mode
  /\ FactInput \subseteq [cap : 0..MaxSpeed, scene : Scene, joints : Joints,
                          rev : Nat, step : StepKey]
  /\ MaxNow \in Nat

\* What the state file holds, and what the history variables keep of a trajectory.
StateFile == [mode : Mode, running : BOOLEAN, hist : HistoryState]
Sent      == [rev : Nat, step : StepKey]

ASSUME AbsentFileAssumption == None \notin StateFile \cup Sent

VARIABLES proc, disk, wire, executed, acked, cleared

vars == <<enf, now, step, proc, disk, wire, executed, acked, cleared>>


Actuates(s) == s.cmd > 0 \/ s.arm = "execute"

\* A mutant: motion does not wait for the disk.
CheckpointFirstAck(s) == Household /\ s.ack /\ s.arm # "cancel"

\* A mutant: acknowledgements do not wait for the disk.
CheckpointFirstMotion(s) == Actuates(s)

\* checkpoint_first of the loop: positive commands, and world acknowledgements
\* that do not cancel, wait for the checkpoint.
CheckpointFirst(s) == Actuates(s) \/ (Household /\ s.ack /\ s.arm # "cancel")

\* The settle samples of a history are not serialised.
Serialised(h) == [h EXCEPT !.settleStamp = 0, !.settleSamples = 0]

Checkpoint(e) == [mode |-> e.mode, running |-> TRUE, hist |-> Serialised(e.hist)]

\* What a process that is not there remembers.
NoMemory == Opened(Hold, NewHistory, 0)

\* The process is gone: its memory with it.
Ends == proc' = "down" /\ enf' = NoMemory /\ step' = NoStep(0)

Init ==
  /\ now = 0
  /\ proc = "down"
  /\ disk = None
  /\ enf = NoMemory
  /\ step = NoStep(0)
  /\ wire = None
  /\ executed = << >>
  /\ acked = 0
  /\ cleared = FALSE

-----------------------------------------------------------------------------
(* One line of input: the handler runs, then the stages that follow it.    *)

Serve(handler) ==
  /\ proc = "ready"
  /\ handler
  /\ proc' = IF CheckpointFirst(step') THEN "checkpoint" ELSE "emit"
  /\ cleared' = (cleared /\ ~StopOnly(enf'.mode))
  /\ UNCHANGED <<disk, wire, executed, acked>>

Stamped(f, t) == [stamp |-> t, cap |-> f.cap, scene |-> f.scene, joints |-> f.joints,
                  rev |-> f.rev, step |-> f.step]

\* Enforcer::commit.  The incident log comes first and may fail, which is
\* latched and does not hold the reply back; then the state file, through
\* write_atomic: all or nothing.
Persist ==
  /\ proc \in {"checkpoint", "save"}
  /\ enf' \in {enf, [enf EXCEPT !.recorderOk = FALSE]}
  /\ disk' = Checkpoint(enf)
  /\ proc' = IF proc = "checkpoint" THEN "reply" ELSE "ready"
  /\ UNCHANGED <<now, step, wire, executed, acked, cleared>>

\* A failed checkpoint ends the process and discards a reply that waits for it.
\* The directory sync can fail after the rename: the file may be the new one.
PersistFails ==
  /\ proc \in {"checkpoint", "save"}
  /\ disk' \in {disk, Checkpoint(enf)}
  /\ Ends
  /\ cleared' = FALSE
  /\ UNCHANGED <<now, wire, executed, acked>>

\* The reply reaches the controller and the observer.
Reply ==
  /\ proc \in {"reply", "emit"}
  /\ proc' = IF proc = "reply" THEN "ready" ELSE "save"
  /\ wire' = CASE step.arm = "execute" -> [rev |-> enf.arm.rev, step |-> enf.arm.step]
               [] step.arm = "cancel"  -> None
               [] OTHER                -> wire
  /\ executed' = IF step.arm = "execute" THEN Append(executed, wire') ELSE executed
  /\ acked' = IF step.ack /\ step.arm # "cancel" /\ enf.world.rev # 0
                THEN enf.world.rev ELSE acked
  /\ UNCHANGED <<enf, now, step, disk, cleared>>

-----------------------------------------------------------------------------
(* Ends and starts of the process.                                         *)

Crash ==
  /\ proc # "down"
  /\ Ends
  /\ cleared' = FALSE
  /\ UNCHANGED <<now, disk, wire, executed, acked>>

\* End of input: the stop is recorded and saved, nothing is sent, and the
\* running marker stays.
TransportCloses ==
  /\ proc = "ready"
  /\ disk' \in {disk, Checkpoint(Rejected.enf)}
  /\ Ends
  /\ cleared' = FALSE
  /\ UNCHANGED <<now, wire, executed, acked>>

\* The file a close leaves behind, but for the running marker.
Closing == Checkpoint(ClearActive(enf, FALSE, now))

\* The clean marker, which a recorder that failed keeps from being written.
CleanFile == [Closing EXCEPT !.running = FALSE]

\* Enforcer::close, and no error.
Close ==
  /\ proc = "ready"
  /\ enf.recorderOk
  /\ disk' = CleanFile
  /\ Ends
  /\ UNCHANGED <<now, wire, executed, acked, cleared>>

\* Enforcer::close, and an error: of the commit, before or after its rename; of
\* the recorder; of the write of the clean marker, before or after its rename.
\* After that last rename the file is marked clean, whatever the caller is told.
CloseFails ==
  /\ proc = "ready"
  /\ \/ disk' \in {disk, Closing}
     \/ enf.recorderOk /\ disk' = CleanFile
  /\ Ends
  /\ cleared' = (cleared /\ disk' = CleanFile)
  /\ UNCHANGED <<now, wire, executed, acked>>

\* A mutant: the running marker is not looked at.
OpenModeTrusting == IF disk = None THEN Hold ELSE disk.mode

\* A mutant: an unclean restart starts a new history.
OpenHistoryFresh ==
  Restart(IF disk = None \/ disk.running THEN NewHistory ELSE disk.hist)

\* What StateStore::open makes of the file: Hold unless it was left clean.
OpenMode == IF disk = None THEN Hold
            ELSE IF disk.running THEN Larger(disk.mode, Hold)
            ELSE disk.mode

OpenHistory == Restart(IF disk = None THEN NewHistory ELSE disk.hist)

\* StateStore::open and Enforcer::open: the running marker and the interrupted
\* reservation are one write.
Opening ==
  /\ proc = "down"
  /\ disk # None => Validate(disk.hist)
  /\ disk' = [mode |-> OpenMode, running |-> TRUE, hist |-> OpenHistory]

Open ==
  /\ Opening
  /\ enf' = Opened(OpenMode, OpenHistory, now)
  /\ step' = NoStep(now)
  /\ proc' = "ready"
  /\ UNCHANGED <<now, wire, executed, acked, cleared>>

\* The write went through, the directory sync after it did not: no process, and
\* the marker says that one was running.
OpenFails ==
  /\ Opening
  /\ cleared' = FALSE
  /\ UNCHANGED <<enf, now, step, proc, wire, executed, acked>>

\* state::set, which needs the lock that a running process holds.  A sync that
\* fails after the rename is an error to the operator, and leaves the same file.
OperatorSet(m) ==
  /\ proc = "down"
  /\ disk' = [mode |-> m, running |-> FALSE,
              hist |-> IF disk = None THEN NewHistory ELSE disk.hist]
  /\ cleared' = ~StopOnly(m)
  /\ UNCHANGED <<enf, now, step, proc, wire, executed, acked>>

TimePasses ==
  /\ proc \in {"ready", "down"}
  /\ now < MaxNow
  /\ now' = now + 1
  /\ UNCHANGED <<enf, step, proc, disk, wire, executed, acked, cleared>>

Next ==
  \/ \E s \in Source : Serve(HandleStop(s)) \/ Serve(HandleUnarmed(s))
  \/ \E p \in TrajectoryInput : Serve(HandleTrajectory(p))
  \/ \E f \in FactInput, t \in 0..now : Serve(HandleWorld(Stamped(f, t)))
  \/ \E m \in FaultInput : Serve(HandleFault(m))
  \/ Serve(Reject)   \* every refusal, of velocities (never allowed in a household) too
  \/ Serve(Tick)
  \/ Persist \/ PersistFails \/ Reply
  \/ Crash \/ TransportCloses \/ Close \/ CloseFails \/ Open \/ OpenFails
  \/ \E m \in OperatorMode : OperatorSet(m)
  \/ TimePasses

Spec == Init /\ [][Next]_vars

-----------------------------------------------------------------------------
TypeOK ==
  /\ enf \in Enforcer /\ now \in Nat /\ step \in Step
  /\ proc \in {"down", "ready", "checkpoint", "reply", "emit", "save"}
  /\ disk \in StateFile \cup {None}
  /\ wire \in Sent \cup {None}
  /\ executed \in Seq(Sent)
  /\ acked \in Nat
  /\ cleared \in BOOLEAN

\* A process can always open the file an earlier one left, wherever that one
\* died: no sequence of checkpoints fails History::validate (state.rs open
\* refuses a protected state that does, and nothing repairs it).
CheckpointReopens == disk # None => Validate(disk.hist)

\* A task revision is executed at most once, and revisions never go back, across
\* any number of crashes, failed writes, restarts and operator resets
\* (history.rs check_world and check_admission, main.rs checkpoint_first).
OncePerRevision ==
  \A i, j \in DOMAIN executed : i < j => executed[i].rev < executed[j].rev

\* While a controller may be executing a trajectory, the file names a motion
\* whose stop is unresolved, so that every restart cancels and waits for
\* measured stillness (main.rs, history.rs restart).
RunningIsPending == wire # None => disk # None /\ disk.hist.pending # None

\* The task revision last acknowledged to the observer is durable: no restart
\* rolls the observation floor back below it (main.rs checkpoint_first).
AcknowledgedIsDurable == acked > 0 => disk # None /\ disk.hist.floor >= acked

\* What the outside may rely on is on disk before it is told.
DurableFirst == RunningIsPending /\ AcknowledgedIsDurable

\* Once the mode only allows stopping, or a process has ended without leaving the
\* clean marker in the file, nothing moves until an operator has reset the mode
\* offline, over any number of closes, failed closes, crashes and starts in
\* between (state.rs open, close and set, main.rs end of input).
MotionNeedsOperator == [][executed' # executed => cleared]_vars

\* A consumed or blocked revision never becomes available again on disk: the
\* floor, the epoch and the blocked epoch only grow (history.rs).
DurableFloorsGrow ==
  [][ disk # None =>
        /\ disk'.hist.floor >= disk.hist.floor
        /\ disk'.hist.epoch >= disk.hist.epoch
        /\ disk'.hist.blocked >= disk.hist.blocked ]_vars
=============================================================================
