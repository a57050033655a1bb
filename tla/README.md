# A TLA+ model of haetae

haetae stands between an AI policy and a robot. Proposals come from sources that
are not trusted (a VLA, a planner, a teleoperator); worlds and faults come from
safety perception. A deterministic gate judges each proposal, an enforcer turns
what was allowed into a command with a lifetime, an owner process persists what it
must not forget, a ROS node carries decisions to the controllers, and the
controllers refuse what has no current permit. Around this path stand the benches
and the simulation rigs that decide whether it works.

This directory holds TLA+ modules translated from the source, TLC configurations
that check them on small instances, and proofs for TLAPS.

## Inventory

| Component | State | Operations | Interacts with | What makes it correct |
|---|---|---|---|---|
| Gate (`haetae-core/gate.rs`, `arm.rs`, `household.rs`) | mode | `judge_at`, `raise_mode` | called by the runtime | never allows in a stale or forbidden world; the mode only climbs |
| Runtime (`haetae-runtime/runtime.rs`) | newest world, window, recorder, deferred duty | `handle`, `rejudge`, `commit`, `close` | gate, window, ring, recorder | a proposal is judged once; a recording failure is latched |
| Replay window (`dedup.rs`) | queue, set, floor per source | `check_and_insert` | runtime | no id twice, no fresh id refused |
| Recorder (`recorder.rs`, `sillok/sacho.rs`, `writer.rs`) | ring, window, open log | `after_step`, `close` | file system | incidents end under an fsynced seal, or the loss shows |
| Enforcer (`haetae-enforce/lib.rs`) | active command and trajectory, cancellation, armed sources | `handle`, `reject`, `tick`, `commit`, `close` | runtime, history, state store | one motion, within the newest judgement, always cancelled |
| Motion history (`history.rs`) | task floor, step records, pending motion, blocked revision | `check_world`, `check_admission`, `reserve`, `retire`, `observe_stop`, `restart` | enforcer, state file | a step runs once; a lost motion is seen to stop first |
| State store (`state.rs`) | the file: mode, running marker, counters, history | `open`, `persist_checkpoint`, `close`, `set` | file system, operator | restarts into Hold; never rolls back |
| Authenticated input (`auth.rs`) | epoch, counter per role | `verify`, `restore`, `load` | loop, state file | a signed input moves the robot at most once |
| Enforcement loop (`haetae/main.rs`) | where it stands in a line of input | read, handle, checkpoint, reply | pipe to the ROS node | positive replies wait for the disk, stops do not |
| Source signers (`source_node.py`, `signing.py`, `counter_store.py`, `proposals.py`) | reserved counter, lock | open, sign, reserve, publish | file system, loop | no counter is published twice |
| ROS gate node (`node.py`, `bridge.py`) | goal futures, request clocks, abort latch | callbacks, ticks | loop, relay, controllers | a late reply or goal never outlives its authority |
| Trajectory relay (`relay.py`) | goals, handles | `execute`, `cancel` | gate node, controller | a cancellation reaches the controller at any await |
| Permit signer and guard (`controller_permits.py`, `ros/haetae_arm_guard`) | sequence; grant, nonce, lock | sign; `accept`, `fresh`, `stop`, goal callbacks, update thread | untrusted wire | motion only inside a live lease on two clocks |
| UNO R4 guards and host tools (`hardware`, `tools/bench_*.py`, `permit_*.py`) | session, challenge, lease, locked authorizer | frame commands, `tick`; renewal loop | serial link | light only inside a lease, with wrapping clocks |
| Perception and world (`lidar_perception.py`, `World`) | recent scans, freshness | `receive`, `snapshot`, publish | Gazebo, engine | what a confident world says was seen, and recently |
| Rigs (`controller_probes.py`, `run_reference.py`, `compound_fault.py`, `stop_evidence.py`, `hazard_lab.py`, `native_person.py`) | expectations, evidence | scripts against the running system | everything above | a pass means what it says |
| Live stream (`live_stream.py`) | bounded queues, checkpoints | publish, follow, confirm | browsers | every page learns where the run stands |
| Policy, geometry, hazard rules, log verifier | none | pure functions | gate, tools | agree with a reference definition |
| Browser demo, bindings, packaging | – | – | – | not part of the enforcement path |

What is hard here: motions and cancellations interleaved with worlds, faults and
ticks; authority that goes stale between admission and output; crashes and failed
writes between handler, checkpoint and reply; replay across restarts and key
rotation; bounded windows, rings and queues; tokens that are lost, late or repeated
under two clocks; answers that overtake each other; and rigs that must tell their
own delay from the controller's. `PROJECT.json` lists each at its line under
`hazards`, with the properties that would catch it.

## Modules

| Module | Models | Used by |
|---|---|---|
| `History` | the methods of `History`, operators on a record | `EnforcerCore` |
| `EnforcerCore` | the enforcer's private methods as operators, each input as an action | `Enforcer`, `EnforceLoop` |
| `Enforcer` | one running enforcer and a controller watching its output | `MCEnforcer`, `EnforcerProofs` |
| `EnforceLoop` | process, state file, pipe, operator, crashes | `MCEnforceLoop`, `EnforceLoopProofs` |
| `AuthLoop`, `AtMostOnce` | signed input, counters, the same loop, key rotation; and the promise it implements | `MCAdmission`, `AdmissionProofs` |
| `Dedup` | the replay window under `Runtime::judge` | `MCRuntime`, `AdmissionProofs` |
| `Sacho`, `Recorder` | ring, recorder, log writer, deferred commit | `MCRuntime`, `MCRecorder`, `AdmissionProofs` |
| `Proposals`, `SourceSigner` | decoding to an action or a refusal; signing over one counter file | `MCAuthority`, `AuthorityProofs` |
| `GateNode` | the node's arm goal: callbacks, deadlines, abort latch | `MCEndings`, `MCGateNode`, `RosProofs` |
| `Relay` | the relay's coroutine and the two action servers beside it | `MCEndings`, `RosProofs` |
| `PermitLease` | the node's permit clocks and signer, the wire, the controller's guard, the arm | `MCAuthority`, `AuthorityProofs` |
| `PermitBench` | H2: authorizer, relay, `PermitGuard` of the board | `MCAdmission`, `MCEndings`, `PermitBenchProofs` |
| `BenchSession` | H1: host loop, gate client, link, `BenchGuard` of the board | `MCAdmission`, `MCEndings`, `SessionProofs` |
| `PermitProbe` | the permit rig and a correct or defective controller | `MCPermitProbe` |
| `ArmFault`, `SensorFault` | the fault sessions of the Gazebo rig | `MCFaultSessions`, `SessionProofs` |
| `HazardLab`, `FixtureDriver` | the household lab and the process that sets its poses | `MCHouseholdLab`, `RosProofs` |
| `WorldFusion`, `NativeScene`, `LiveHub` | perception and world; the driven person; the live stream | `MCRuntime`, `MCEndings`, `AdmissionProofs`, `RosProofs` |

**EnforcerCore.** `enf` is the `Enforcer` struct as a record. `Output` is
`Enforcer::output`: the ladder of stop reasons (`StopFor`), what each withdraws
(`Withdraw`), the command and the arm order. Each handler composes the private
methods in the order of the code and ends in `Output`, so `rejudge`,
`update_arm_settle` and `observe_stop` are part of the action. A twist is its speed;
a world carries `cap` (what zones, rules and the swept path leave of a speed),
`scene` and `joints` in place of geometry. A proposal carries `ok`, the checks that
depend on it alone.

**History.** A step is a key, a task revision a number. Scene facts about items,
regions and containers are left out. `settleStamp` and `settleSamples` are not
serialised; `EnforceLoop` drops them on their way to disk.

**EnforceLoop.** `proc` is where the loop stands; between any two stages the process
may die. `write_atomic` is all or nothing, except that the directory sync can fail
after the rename: then either file may be found. The state file needs no running
process to be reset, which is what the lock enforces. `Enforcer::close` is part of
the library's interface; `enforce_stdio` itself never ends cleanly. A close writes twice,
a checkpoint and then the clean marker, and each write can fail before or after its
rename (`CloseFails`). A close that returns an error may therefore have left the marker:
the directory sync after the rename failed, and the file says `running: false`. The next
process believes the file, not the error its predecessor got, and starts in the mode of
the file. `MotionNeedsOperator` is stated accordingly: what withdraws an operator's reset
is a mode that only allows stopping, or an end that has not *left the clean marker*,
whatever was reported. It does not say that a close that reported an error is followed by
a reset; of the code that would be false.

**AuthLoop.** Signatures hold exactly for genuine inputs; the environment may deliver
any genuine input again, at any time. The enforcer is reduced to the four kinds of
reply that decide the order of checkpoint and reply.

**Recorder.** A record is its number. What a flush writes is a closed form
(`Place`, `Flushed`): a seal after every `SealEvery` records, counted from the last one.
After a failed write or fsync the file may end anywhere behind the last seal that was
synced (`Torn`): the buffered lines are in it, in part or whole, or not at all.

**SourceSigner.** `file` is what a reader of the file system sees, `disk` what a power
failure leaves; they differ between the rename and the sync of the directory.

**PermitLease.** `gate` is the node's record (`stamp` and `anchor` of the newest world,
`reqSim`, `reqWall` and `remaining` of the request under way), `eng` the engine as the
node sees it, `wire` the set of tokens a controller could still take: a token may be
lost, delayed, reordered or delivered again. Simulation time may stand still while
the steady clock goes on. `Serves` is the node's tick with everything it calls; its
failures come in the order of `node.py` (late, then expired, then refused), each with
`_fail` and the stop it signs. Whether the base's permit has a budget is left open
(`base`), because the base's challenge is not followed. The way to the controller is
`relay.py` as it is coded: a goal is accepted at once and its result reported once
nothing of it is left at the controller. The 250 ms deadlines of requests lie beyond
the bounds of the runs.

**GateNode, Relay.** One executor thread: a callback is one step, a coroutine yields
exactly at its awaits. `ctl` and `arm` are the controller's own records; a callback is
possible once they say so and may come later than the next event.

**PermitBench, BenchSession.** `clk` is the board's `millis()`; every age is a
difference modulo `Wrap`. With `Hostile` the relay keeps frames back and repeats them in
any order; without, it runs its loop and may die in it.

**Rigs.** `PermitProbe`, `ArmFault`, `SensorFault`, `HazardLab` model a script, the
system it tests (correct, or with one named defect) and the topics between them,
ordered on each and not between them. The properties say that the verdict is true.

**PermitProbe.** `now` is the wall clock, `sim` the simulation clock of the controller.
They part in two ways. The simulation stalls, `MaxStall` ticks in an attempt, while the
wall clock and the telemetry timer go on; updates, and with them the arm's holds, are of
the simulation (`Tick`), telemetry is of the wall clock (`Publishes`, before or after an
arrival in the same tick). And what the rig reads of `/clock` is up to `MaxLead` behind
the controller's clock, anew at each reading (`Views`), so what it signs ends earlier on
that clock than it means. `public_report.py` lines 28-36 assume a lead of at most one
update, and say what a larger one does: a correct base is failed for a lapse that looks
premature, and a lapse that a refusal overwrites passes for it. That assumption is the
last conjunct of `PermitProbeAssumption`, and both consequences appear when it is dropped
(`MaxLead = 2`, `Lease = 9`, `Window = 4`): the verdict is true *because* of it.
An attempt is tried again or given up at any delay (`Retry`), since its number decides
nothing. A judgement that waits for evidence is passed as soon as the evidence is there.
Measured drift is left out; holds are in. One defect stays beyond this rig: a controller
that ends its lease early between two rows of the base and *then* refuses the packet for
the case's own reason is not told from one that only refuses, and `PassIsProof` does not
claim it: it says that the packet was refused for its own reason while the last admitted
lease still ran, and that the lock has held since.

**LiveHub, WorldFusion, NativeScene.** Rows, scans and places are small values; the
queues, the two clocks, the evictions, the generation counter and the retries are those
of the code.  The rows a connection has still to write are a set, written in the order of
their numbers (`PageReceives`), which is what `after` sorts them for. A page closes its
stream on an error *and* on a result (`Closes`), for good: what is left of the batch is not
shown any more.

**Unions.** Some MC modules check several independent instances: `part`, chosen at
the start, says which one runs, and the variables of the others stay as they start.
Such a run is exactly the sum of its instances, and a property that speaks of one of
them is about that one's steps.

## Runs

| Run | Instances | Question |
|---|---|---|
| `mc_enforcer` | two sources (one not in the policy), four worlds, faults to Caution and Hold, clock to 4, fair ticks | is there at most one motion, within the newest judgement, resumed only after stillness and a zero, and always cancelled |
| `mc_enforce_loop` | a household arm, one step key in two task revisions, clock to 4 | what survives crashes, failed writes and resets |
| `mc_runtime` | two sources, ids 0–3, window of two; ring of three, window of one, seal after two, seven records; two pages on one run, queues of one; the driven person; fusion of scans on two clocks | does eviction reopen or close too much; are incidents durable, the log ordered and never rewritten; is what is shown and measured so |
| `mc_admission` | the loop with two roles, two counters, two epochs; H2 with a hostile relay; H1 with every fault, and with two runs | what is let through: is motion at most once across restarts and rotation, is the light earned |
| `mc_authority` | signers: role `vla` with three counters, roles `world` and `fault` with two, two instances and two epochs each. Permits: a lagging simulation, two goals one after the other, two activations | who may sign, and what may move the arm |
| `mc_endings` | node with and without permits, two goals; relay, two goals; both boards; a page over a restart | what has been asked to end, ends; an error reaches every page that still listens |
| `mc_permit_probe` | six cases, six kinds of controller, base and arm; a lead of one, a stall of one | is the permit rig's verdict true |
| `mc_fault_sessions` | a stalled then a delayed gate; a lost calibration target; a disconnected sensor under a burst, against engines that rearm | are the fault sessions' passes earned |
| `mc_household_lab` | two hazards; a hazard and a transfer against five defective gates; one hazard with every fault; one with a repeated preflight and every timeout; the fixture process | does only a sound gate complete the lab |
| `mc_recorder_lands`, `mc_gate_node_cancel`, `mc_live_failure` | the recorder of `mc_runtime`; the node without permits; one page on one run | expected violations, see Findings |

*Bounds.* They are chosen so that the case a property is about happens, with room
after it.
- Enforcer, `MaxNow = 4`: a trajectory of length 1 cancelled at its expiry, two later
  still samples and a second admission need five instants. `MaxTtl` and `WorldMaxAge`
  lie between 0 and the clock, so a motion can outlive its world and a world its motion.
- Windows of two evict with three ids; four ids let an evicted id return between two
  others. Seven records overflow a ring of three while creation fails, and leave room
  for an incident after it. Two epochs are one rotation and its roll-back.
- Permits: three questions, three instances. `Lagging` has time to 4 and a stall of
  one, so a window and a lease end on one clock before the other, and proposals of
  length 3, which expire of themselves at 4 while a newer world would allow more: without
  the proposal's own expiry in `Remaining` the arm moves after it and `WithinGrant`
  fails. The instance with
  two goals has five tokens and little time, and wants one update of rest (`Settle`)
  where the code wants more; `Restarted` activates the controller twice while tokens of
  its first life are on the wire.
- Boards: `Wrap` is a little above the longest age that matters, so every comparison
  also happens across the wrap.
- Rigs: short leases, so that each wait can meet the end of one; at most one fault
  around the household lab. In `mc_permit_probe` a unit is 10 ms of lead and backdating;
  lease, window and period keep their order, and every case can still pass.
- Live view: queues of one evict at every second row; the code's have 512 and 64, and the
  proofs hold for every length but zero.

Symmetry is used for the two interchangeable pages of `mc_runtime`, which `LiveHub`
never tells apart; its only temporal property, `SealedForever`, is of the recorder's
variables and does not mention them.

*Deadlock* is checked where something is always possible (enforcer, enforcement loop).
`CHECK_DEADLOCK FALSE` stands where the system really stops or a bound ends it: a node
that has aborted, a board or signer whose counters are used up, a rig whose script is
over, a person that has made its last move.

*Fairness.* The enforcer's `FairSpec`: weak fairness of `TimerTick` and `TimePasses`; the
ROS node sends ticks from a wall timer and the loop serves every line. Nothing is
assumed of worlds, proposals or commits. The node: its timer's ticks and time, nothing
of answers. The relay: the two action servers answer. H2: time and the board's
verification; H1: time. The live stream: a page reconnects (weak), and a connection that
is up again and again does deliver (strong), which is what a browser's `EventSource`
and a thread per connection give.

## Properties

*Enforcer.* `OneAuthority`, `CancelReachesWire`, `MotionWithinGate` (what moves is
within what the gate would allow of it now), `RestBeforeMotion` (two newer still samples
after a cancel, a zero after a refusal), `NeverFaster`, `FaultIsFinal`,
`ArmEventuallyCancelled`. `wire`, `rest` and `zeroed` are history variables that read
the output as a controller would; the model never reads them.

*Loop.* `CheckpointReopens` (no reachable checkpoint is refused by `validate`),
`OncePerRevision`, `DurableFirst` (a motion that may be running is pending on disk, and
an acknowledged revision is there too), `MotionNeedsOperator`, `DurableFloorsGrow`.

*Authenticated input.* `MotionIsDurable`, `AdmittedInOrder`, and `PromiseKept`, the
refinement of `AtMostOnce`. The counter of a stop may be lost in a crash, as
`docs/security-release.md` says; no input moves the robot twice for it.

*Runtime.* `JudgedOnce`, `IncreasingNeverRefused`; `IncidentsDurable`, `LogWhole`,
`SealedForever`.

*Boards.* `LedIsEarned`.

*Authority.* `SignedOnce`, `ReservedFirst`; `WithinGrant` (the arm moves only the
trajectory of its live grant, before the proposal expires and on a world new enough on
both clocks), `StartedOnce` (over reactivations of a controller that forgets its
sequence numbers). `WithinGrant` does not reach into one callback of the controller: the
guard accepts a token and checks its lease under one mutex, and each is one step here. A
grant read before a stop and used after it, within one update, cannot be expressed.

*Endings.* `NoStrayMotion`, `CancelIsForwarded`; `CancellationEnds`, `DarkInTheEnd`,
`FailureReaches` (the error row reaches every page that has not closed its stream; one that
had a result has, see Findings).

*Rigs.* `VerdictIsTrue`; `RequestsSettled`, `PassIsEarned`; `CompletedIsSound`, `OwnScene`,
`ReturnedIsShown`.

*Live view.* `WaitingIsShown`, `SceneByItsClick`, `AckIsApplied`, `ConfidentIsSeen`.

Every property has a mutant in `PROJECT.json`: a plausible slip in one mapped
definition under which the same run fails.

## Proofs

`tlapm` checks these for every value of the constants that satisfies the named
assumptions of the modules (`HistoryAssumption`, `EnforcerAssumption`,
`InputAssumption`, `LoopAssumption`, `AuthAssumption`, `DedupAssumption`,
`SourceSignerAssumption`, `GateNodeAssumption`, `PermitAssumption`, `FusionAssumption`,
`SachoAssumption`, `HubAssumption`, `ArmFaultAssumption`, and that `None` or `Absent` is none of the values it stands beside).
They say that bounds are natural numbers and inputs are typed, and what the code's own
configuration checks say; TLC evaluates each in a run. The bounds
on time, tokens and counters stay in the models, but nothing depends on how large they
are.

| Module | Theorems |
|---|---|
| `EnforcerProofs` | `TypeCorrect`, `AlwaysOneAuthority`, `AlwaysCancelled`, `AlwaysWithinGate`, `RestAlwaysFirst`, `AlwaysSlower`, `FaultAlwaysFinal` |
| `EnforceLoopProofs` | `TypeCorrect`, `CheckpointAlwaysReopens`, `AlwaysOncePerRevision`, `AlwaysDurableFirst`, `MotionAlwaysNeedsOperator`, `DurableFloorsAlwaysGrow` |
| `AdmissionProofs` | loop: `TypeCorrect`, `MotionAlwaysDurable`, `KeepsPromise` (refinement of `AtMostOnce`), `AlwaysInOrder`; window: `AlwaysJudgedOnce`, `AlwaysIncreasing`; world: `ConfidentIsAlwaysSeen`; recorder: `IncidentsAlwaysDurable`, `LogAlwaysWhole`, `SealedAlwaysForever` |
| `RosProofs` | relay: `TypeCorrect`, `AlwaysForwarded`, `EndsTruly`; node: `NeverStrays`; driven person: `AckIsAlwaysApplied`; fixtures: `ReturnedIsAlwaysShown`; live stream: `HubInvariant`, `SceneAlwaysByItsClick`, `WaitingIsAlwaysShown` |
| `AuthorityProofs` | signers: `TypeCorrect`, `AlwaysSignedOnce`, `AlwaysReservedFirst`, `AlwaysReservationGrows`; permits: `AlwaysSigned`, `AlwaysWithinGrant`, `AlwaysStartedOnce` |
| `PermitBenchProofs` | `LitIsAlwaysRecent` |
| `SessionProofs` | bench: `BenchInvariant`, `LitIsAlwaysApproved`, `FaultAlwaysGoesDark`; arm sessions: `ArmInvariant`, `RequestsAlwaysSettled`, `PassIsAlwaysHeld` |

`EnforcerCoreProofs` holds the lemmas on the operators of `History` and
`EnforcerCore` that the enforcer's and the loop's proofs share.

**Enforcer.** None of the invariants is inductive, and a handler is a composition of
private methods between which they do not hold. The proof is compositional as the code
is: `Good` is what every method keeps of the record *between* two methods, where a
cancel may still be due; `Live` (a trajectory is authorised or its cancel is owed) is
what none of them loses; `Left` says that a method which drops a motion makes nothing
faster and owes the cancel, `Judged` that a rejudged motion is within its judgement, and
`Due` what a handler must have done before its output. One lemma per method states these, the lemma on `Output` discharges the cancel,
and each handler follows from the lemmas of the methods it calls. The inductive
invariant is `Inv` (types, `Good`, no cancel pending, the controller executes what is
authorised) with `Earned`: motion is within the gate, a trajectory's source is armed,
who is armed has sent a zero, and the record's count of still samples is never ahead of
what was observed (`Resting`). `NeverFaster` and `FaultIsFinal` are action properties
proved from it.

**Loop.** `IInv` is `TypeOK`, `Whole` (the enforcer's record is good), `Written` (the
file is sound, and what the process has in memory is above it, by `Above`), `Staged`
(what each stage of a line knows of the step it holds) and, in a household, `Told`: a
trajectory that was sent is consumed in memory and pending on disk, revisions that were
told are not above those on file. `AlwaysOncePerRevision` and `AlwaysDurableFirst`
assume `Household`, as the code does: without a household policy there is no durable
history. The other four need no such assumption.

**Authenticated input.** Every admitted input is spent on disk *and* in the memory of a
running process, a staged checkpoint is never behind the file, and a positive reply
whose checkpoint is written is spent. `KeepsPromise` maps each step to one of
`AtMostOnce` or a stutter.

**Replay window.** `WindowInv` ties the queue, the set and the floor together
(`WindowConsistent`) and says that what is in the window or is a floor has been judged
(`OnlyJudged`).

**Recorder.** Which lines a flush writes is settled without induction, from quotient and
remainder (`PlaceIs`, `FlushHolds`): every record of the ring once, in order, seals
between. `RecorderInv` then is: the ring is the newest records without a gap and holds
all that is not committed (`RingHolds`); all an open writer has in its log is older than
the ring (`LogHolds`), so that appending the ring repeats nothing; and what was committed
without a failure is under a seal, with all that followed it while the window is open
(`Recorded`). A write, a failed write, a crash and a close all leave some of the lines
after the old log and none of its sealed ones changed (`Onto`), which gives
`SealedForever`. That a commit follows every step before the ring is full (`count + n -
base <= SachoCapacity` in `Handle`) is how the enforcement loop calls the runtime.

**World.** A frame that the bounded history has dropped, or that was never accepted,
must not be newer than the one a confident world rests on. `Kept` says that the history
is in order and ends in the newest frame, and when each of its scans first came;
`Covered` that whatever was accepted is in the history or older than all of it, so the
last eligible place is the newest accepted scan the clock has reached.

**Source signer.** A counter about to be signed is fresh because it is above the
instance's own counters, those are not below the file, the file is not below the disk
(`NeverBehind`), and the disk covers what was published. That the file is one instance's
business is the lock (`Exclusive`); what it holds between rename, sync and publication
is `InHand`. `SignerInv` is all of it.

**Relay.** `Handles` (the lookup of `cancel` finds exactly the goals whose coroutine has
got that far), `Running`, and `Passed`: a goal with a handle that is being cancelled has
been cancelled at the controller. The two places that may pass a cancellation on,
`execute`'s check when the handle becomes known and `cancel`'s lookup from then on,
leave no gap.

**Gate node.** `NodeIInv` is the types, `Known` (what the controller may still do of the
node's is the one goal the node knows; if the engine no longer wants it, it is being
cancelled or the node has failed) and that no motion command stands after a failure.
Every private method *keeps* a node (`Keeps`): its goal, that it is to be cancelled, a
failure.

**Driven person.** `NativeInv` orders the generations: acknowledged, in the driver's copy,
wanted. A copy of the wanted generation has the wanted visibility, and one that is
acknowledged is what Gazebo shows; a caller that still waits has the newest.

**Fixtures.** Commands, the driver's own and the acknowledgement are in the order of their
numbers (`InTurn`), and a caller waits for the newest. The acknowledgement that lets it
go on is therefore behind everything older: nothing is under way when it returns
(`Settled`), so no late command can undo it.

**Live stream.** The queues lose rows, so no invariant can say that a page is sent what was
published. `HubInv` says it of the two rows that matter: the hub keeps the row the run
waits at and no later row takes it back (`Waiting`), and the newest scene (`NewestScene`);
what an open connection has not had of them is in its batch or newer than all of it, and so
in the next (`Comes`); what a page has had of the present run it shows (`Shows`). Rows are
known by their numbers (`Numbered`), and a page that outlives its run has seen nothing of
the next (`Seen`). `ScenesPassed` says that every scene but the one waited at was clicked:
the token in a post names its scene and its run, so a late, repeated or foreign post finds
another token.

**Permits.** The engine's decision and the arm's motion are three components and an
untrusted wire apart. `LeaseInv` carries one across: a positive token ends within the
authority it was signed under (`Issued`, by `Bounded`), the goal the node signs for is
the one the engine decided on (`Agrees`), the node has at most one goal under way and
the controller nothing of another (`Outstanding`), an unlocked guard holds a grant for
what it calls active and the goal it follows (`Granted`, `Follows`), a goal token the
controller could still take names a goal that was never started (`Unstarted`,
`Counted`), and the clocks and nonces are in order (`Clocks`). `AlwaysSigned` is `[]LeaseInv`. The controller
does not know the engine's clock: `WithinGrant` needs both lease ends, which is why
`Bounded` speaks of both.

**Boards.** A board measures time as differences of a clock that wraps, and no single
step sees both the start of an approval and the light. In both proofs the challenge
carries it across: whoever names the board's present challenge learnt it from the
board, after the board issued it, so a decision about it is no older than it (`Dated`).
That the board's own differences are exact while it is armed is `Guarded`: `tick`, or the
bound on a verification, makes it dark before they can wrap. An unarmed board may keep
ages that have wrapped; nothing rests on them.

H2 needs no more, under an honest relay and under one that repeats and reorders. H1's
host repeats itself over several runs: `Carried` and `Knows` say what the lines under way
and the host were told (`Told`: of an earlier challenge, or of none of a session the board
has not opened), `Alternates` that one line of a session is under way until the host
gives up. The last is what makes a fault take effect: when it appears, at the start of a
cycle, nothing that was approved before is still on its way, and what is approved or lit
later rests on the last world (`Fading`, after the loss of the world) or does not exist
(`Ended`). `LedIsEarned`, which the runs check, is the conjunction of what these theorems
state over the instances of `MCAdmission`. The hypothesis `Parameters` of the two modules
(H1: a permit shorter than a challenge, a challenge than a lease, a lease than the wrap;
H2: a permit shorter than a lease, and a lease, a binding and a permit with its
verification shorter than the wrap) is what the constants of the code satisfy; the runs
assume it of their instances.

**Arm fault sessions.** The rig learns of its requests from three topics without a
common order, over two attempts and any number of sessions. What holds it together is
the one signed writer: its numbers only grow and a decision is older than what DDS still
holds (`Numbered`), and the rig's prediction is the next number because nothing it wrote
before is unparsed (`Piped`). So the decision on exactly that number says that no OFF is
left (`NoOffLeft`), and the goal that follows is the first thing in its session that can
move the arm (`Still`). The reset that unlocked the arm is older than that goal
(`ResetBefore`) and tokens bind to one activation (`ThisSession`), so nothing can unlock
a controller that holds after the fault (`HeldOn`). `PassIsHeld` is the part of
`PassIsEarned` that is about the arm.

Only model-checked, and why:
- *Liveness* (`ArmEventuallyCancelled`, `CancellationEnds`, `DarkInTheEnd`,
  `FailureReaches`): fairness and ENABLED are out of the prover's reach.
- That a run which has ended leaves a dark LED (`EndedStaysDark`, in `DarkInTheEnd`), and
  that an H2 board ends dark: liveness again; the proofs bound how long it can be lit.
- *The other rigs* (`PermitProbe`, `SensorFault`, `HazardLab`): their scripts are finite,
  and their properties follow the script step by step; the instances are what they run.

## Findings

`docs/w2-contract.md` line 233 says that the records of a step whose log could not be
created stay in the sacho and land in the log once creation succeeds. The ring is
bounded and evicts: with enough messages between the failure and the next incident the
records are gone (`FailedStepLandsLater`, run `mc_recorder_lands`). The failure itself
stays latched, so `IncidentsDurable` holds.

`docs/security-release.md` line 207 says that the bridge requests arm cancellation
before it rejects the engine's goal. `_on_arm_result` of `node.py` forgets a goal and
leaves `arm_cancel_future` in place; when the answer to that cancellation is still
outstanding and a second goal is cancelled, `_cancel_arm` takes the old future for the
new one and sends nothing (`CancelIsSent`, run `mc_gate_node_cancel`). The 250 ms
deadline then aborts the node, so `NoStrayMotion` and `CancellationEnds` hold.

`docs/gazebo-reference.md` line 156 says that the live page of a failed runner shows
시뮬레이션 중단 and retains it after a refresh, and `run_reference.py` line 1445 that the
error page stays available. A run can fail after it has published its result, when its
final export fails. The page closes its stream on the result (`gazebo-live.js` line 423),
the result has the lower number and stays among the milestones, so every batch, after a
refresh too, begins with it: the error is sent and never shown (`FailureIsShown`, run
`mc_live_failure`). The report itself is marked failed, so `SceneByItsClick` holds.

## Plan

Done: the enforcer and its persistence, authenticated input, window and recorder;
signers, node, relay, permits, boards; the rigs, the lab, perception and the live
stream; the proofs above. In this order next:

1. The relay's `CancelIsForwarded` composed with the permits: that the way to the
   controller, which `PermitLease` takes from `relay.py`, is `Relay`.
2. `SceneMemory`: retained object facts and their capacities in `History`.
3. `Hazards`, `LogVerify`: pure algorithms against reference definitions.

## Not modelled

Floating-point geometry (swept paths, zones, forward kinematics): TLC has no reals; its
results enter as the world's `cap`, `scene` and `joints`. Cryptography: signatures and
hashes are taken as perfect. Hazard judgement and log verification: pure functions, in
the plan. Policy parsing, JSON, the command line, formatting. Scripts that start
processes, feed them a fixed list of inputs and compare what comes back
(`bench_verify.py`, `permit_verify.py`, `bench_evidence.py`, the smoke tests): sequential
programs whose state is the log they write. The browser demo and the bindings: no
enforcement state.
