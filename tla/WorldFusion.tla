---------------------------- MODULE WorldFusion ----------------------------
(***************************************************************************)
(* How the simulated robot's world is measured and published               *)
(* (ros/gazebo/lidar_perception.py, World in ros/gazebo/run_reference.py). *)
(* Gazebo renders lidar scans; the perception keeps the newest ones and    *)
(* judges them against the ROS clock, which lags Gazebo's, and against the *)
(* wall clock, which runs on while the simulation stalls.  Odometry, joint *)
(* states and the scan are fused into one world, stamped with the oldest.  *)
(* Scans may be lost, repeated and reordered.                              *)
(***************************************************************************)
EXTENDS Integers, Sequences, FiniteSetsExt

CONSTANTS MaxAge,    \* 200 ms on either clock
          Early,     \* 20 ms: how far a measurement may be ahead of the ROS clock
          Depth,     \* length of the perception's history (16 in the code)
          MaxSim, MaxWall   \* bounds of the two clocks

\* What the code's values of the parameters satisfy.
ASSUME FusionAssumption ==
  {MaxAge, Early, MaxWall} \subseteq Nat /\ {Depth, MaxSim} \subseteq Nat \ {0}

VARIABLES sim,      \* Gazebo's time
          clock,    \* the ROS clock of the node
          wall,
          scans,    \* every scan Gazebo has rendered
          marker,   \* the calibration target is in the bay
          eye,      \* the Perception: its history and newest frame
          odom, joint,   \* the last measurement of each, with its arrival
          world,    \* the last world published
          first     \* when each scan first arrived
fusionVars == <<sim, clock, wall, scans, marker, eye, odom, joint, world, first>>

Nothing == [stamp |-> 0, received |-> 0]
NoFrame == [stamp |-> 0, received |-> 0, kind |-> "none"]
NoWorld == [stamp |-> 0, confident |-> FALSE, empty |-> FALSE, scan |-> 0, newest |-> 0,
            age |-> 0, wallAge |-> 0, oldest |-> 0]

FusionInit ==
  /\ sim = 1 /\ clock = 0 /\ wall = 1
  /\ scans = {} /\ marker = TRUE
  /\ eye = [frame |-> NoFrame, history |-> <<>>]
  /\ odom = Nothing /\ joint = Nothing
  /\ world = NoWorld
  /\ first = [t \in 1..MaxSim |-> 0]

Time == <<sim, clock, wall>>

-----------------------------------------------------------------------------
(* Gazebo and its clocks. *)

Tick(stalled) ==
  /\ wall < MaxWall
  /\ wall' = wall + 1
  /\ sim' = IF stalled THEN sim ELSE sim + 1
  /\ sim' <= MaxSim
  /\ UNCHANGED <<clock, scans, marker, eye, odom, joint, world, first>>

ClockArrives ==
  /\ clock < sim
  /\ clock' \in (clock + 1)..sim
  /\ UNCHANGED <<sim, wall, scans, marker, eye, odom, joint, world, first>>

(* One scan per instant: what decode_scan will make of it.  A malformed    *)
(* scan is "bad"; one without the calibration target shows nothing.        *)
Render(kind) ==
  /\ \A s \in scans : s.stamp # sim
  /\ kind \in IF marker THEN {"empty", "person", "bad"} ELSE {"blank"}
  /\ scans' = scans \cup {[stamp |-> sim, kind |-> kind]}
  /\ UNCHANGED <<Time, marker, eye, odom, joint, world, first>>

(* The calibration target is taken out of the bay (NativeScene). *)
Hide ==
  /\ marker /\ \A s \in scans : s.stamp # sim
  /\ marker' = FALSE
  /\ UNCHANGED <<Time, scans, eye, odom, joint, world, first>>

-----------------------------------------------------------------------------
(* Perception. *)

(* decode_scan: the calibration target proves that the sensor sees. *)
Healthy(frame) == frame.kind \in {"empty", "person"}

(* receive: a repeated or late scan refreshes nothing; a scan the test     *)
(* drops (drop_frames) is a scan that never arrives.                        *)
Newer(stamp) == eye.frame = NoFrame \/ stamp > eye.frame.stamp

Receive(scan) ==
  /\ Newer(scan.stamp)
  /\ LET frame == [stamp |-> scan.stamp, received |-> wall, kind |-> scan.kind]
     IN eye' = [eye EXCEPT !.frame = frame,
                           !.history = LET h == Append(@, frame)
                                       IN IF Len(h) > Depth THEN Tail(h) ELSE h]
  /\ first' = [first EXCEPT ![scan.stamp] = IF @ = 0 THEN wall ELSE @]
  /\ UNCHANGED <<Time, scans, marker, odom, joint, world>>

(* snapshot: the newest frame that is not ahead of the clock, bad or not,  *)
(* and the newest of all when every one is.                                *)
EligibleHealthy ==
  {i \in DOMAIN eye.history : eye.history[i].stamp <= clock /\ Healthy(eye.history[i])}

Eligible == {i \in DOMAIN eye.history : eye.history[i].stamp <= clock}

Frame == IF Eligible = {} THEN eye.frame ELSE eye.history[Max(Eligible)]

FreshFrame == /\ Healthy(Frame)
              /\ clock - Frame.stamp \in 0..(MaxAge - 1)
              /\ wall - Frame.received \in 0..(MaxAge - 1)

-----------------------------------------------------------------------------
(* The World node. *)

Odom(stamp) ==
  /\ stamp \in {sim - 1, sim} /\ stamp > odom.stamp
  /\ odom' = [stamp |-> stamp, received |-> wall]
  /\ UNCHANGED <<Time, scans, marker, eye, joint, world, first>>

(* _publish_world: both mechanical measurements are there and fresh on     *)
(* both clocks; the world takes the oldest of the three stamps when the    *)
(* scan counts, and the joints' when it does not.                          *)
Fresh(m) == /\ m # Nothing
            /\ wall - m.received <= MaxAge
            /\ clock - m.stamp \in (-Early)..(MaxAge - 1)

Oldest(j) == Min({j.stamp, odom.stamp, Frame.stamp})

PublishStamp(j) == IF FreshFrame THEN Oldest(j) ELSE j.stamp

(* The world, and for the properties what it rests on: the scan, its ages, *)
(* the newest scan that had been accepted, the oldest measurement.         *)
Published(j) ==
  IF ~FreshFrame THEN [NoWorld EXCEPT !.stamp = PublishStamp(j)]
  ELSE [stamp |-> PublishStamp(j), confident |-> TRUE, empty |-> Frame.kind = "empty",
        scan |-> Frame.stamp, newest |-> Max({t \in 1..clock : first[t] > 0}),
        age |-> clock - Frame.stamp, wallAge |-> wall - first[Frame.stamp],
        oldest |-> Oldest(j)]

CanPublish(j) == clock > 0 /\ Fresh(j) /\ Fresh(odom)

(* A complete joint message publishes at once, but only a world that is    *)
(* healthy and newer than the last one published.                          *)
Joint(stamp) ==
  /\ stamp \in {sim - 1, sim} /\ stamp > joint.stamp
  /\ joint' = [stamp |-> stamp, received |-> wall]
  /\ world' = IF CanPublish(joint') /\ FreshFrame /\ PublishStamp(joint') > world.stamp
              THEN Published(joint') ELSE world
  /\ UNCHANGED <<Time, scans, marker, eye, odom, first>>

(* The timer publishes whatever the state of the sensor is. *)
Timer ==
  /\ CanPublish(joint)
  /\ world' = Published(joint)
  /\ UNCHANGED <<Time, scans, marker, eye, odom, joint, first>>

FusionNext ==
  \/ \E b \in BOOLEAN : Tick(b)
  \/ ClockArrives \/ Hide \/ Timer
  \/ \E kind \in {"empty", "person", "blank", "bad"} : Render(kind)
  \/ \E s \in scans : Receive(s)
  \/ \E t \in 1..sim : Odom(t) \/ Joint(t)

FusionSpec == FusionInit /\ [][FusionNext]_fusionVars

-----------------------------------------------------------------------------
(* A world that claims to be known rests on a scan Gazebo really rendered  *)
(* with the calibration target in view, so on none taken after the target  *)
(* disappeared: what it says of people is what that scan showed, the scan  *)
(* was younger than 200 ms on both clocks since its first arrival, the     *)
(* world is stamped no later than any of its measurements, and no scan the *)
(* perception had accepted and that was not ahead of the clock is newer: a *)
(* bad or blind one is never masked (receive, snapshot, _publish_world).   *)
ConfidentIsSeen ==
  world.confident =>
    /\ [stamp |-> world.scan, kind |-> IF world.empty THEN "empty" ELSE "person"] \in scans
    /\ world.age \in 0..(MaxAge - 1)
    /\ world.wallAge \in 0..(MaxAge - 1)
    /\ world.stamp <= world.oldest
    /\ world.newest = world.scan
=============================================================================
