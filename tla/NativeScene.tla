---------------------------- MODULE NativeScene ----------------------------
(***************************************************************************)
(* How the test orchestrator changes what Gazebo shows                     *)
(* (ros/gazebo/native_person.py).  The orchestrator writes the target it   *)
(* wants into shared memory; a spawned driver process reads it, moves the  *)
(* lidar's calibration target by a service call that can time out, and     *)
(* publishes the person's pose.  calibration_visible waits for the         *)
(* driver's acknowledgement of its own generation, or gives up.            *)
(***************************************************************************)
EXTENDS Integers

CONSTANTS Places,         \* where the person can be; one of them is off the scene
          MaxGeneration,  \* bound: calls of calibration_visible
          MaxMoves        \* bound: changes of the wanted place

VARIABLES target,   \* the shared array: place, visible, generation
          ack,      \* calibration_ack
          driver,   \* the driver process: pc and its copy of target
          sent,     \* the poses the driver last published successfully ("previous")
          status,   \* -1 before the first publication, 1 or 0 after one that worked or failed
          gazebo,   \* what Gazebo shows: the target's visibility and the person's place
          caller,   \* calibration_visible: "idle", "waits" or its last answer
          moves
nativeVars == <<target, ack, driver, sent, status, gazebo, caller, moves>>

Nowhere == "off"

(* NativeScene.__init__ *)
NativeInit ==
  /\ target = [place |-> Nowhere, visible |-> TRUE, generation |-> 0]
  /\ ack = 0
  /\ driver = [pc |-> "reads", copy |-> target]
  /\ sent = "none"
  /\ status = -1
  /\ gazebo = [visible |-> TRUE, place |-> Nowhere]
  /\ caller = [pc |-> "idle", generation |-> 0, visible |-> TRUE]
  /\ moves = 0

(* drive: the desired pose goes into the shared array. *)
Drive(place) ==
  /\ moves < MaxMoves
  /\ target' = [target EXCEPT !.place = place]
  /\ moves' = moves + 1
  /\ UNCHANGED <<ack, driver, sent, status, gazebo, caller>>

CalibrationVisible(visible) ==
  /\ caller.pc # "waits"
  /\ target.generation < MaxGeneration
  /\ target' = [target EXCEPT !.visible = visible, !.generation = @ + 1]
  /\ caller' = [pc |-> "waits", generation |-> target.generation + 1, visible |-> visible]
  /\ UNCHANGED <<ack, driver, sent, status, gazebo, moves>>

CalibrationAcked ==
  /\ caller.pc = "waits"
  /\ ack = caller.generation
  /\ caller' = [caller EXCEPT !.pc = "true"]
  /\ UNCHANGED <<target, ack, driver, sent, status, gazebo, moves>>

(* two seconds without it, or the driver exited *)
CalibrationTimeout ==
  /\ caller.pc = "waits"
  /\ caller' = [caller EXCEPT !.pc = "false"]
  /\ UNCHANGED <<target, ack, driver, sent, status, gazebo, moves>>

-----------------------------------------------------------------------------
(* _drive_native, one iteration: read the target under its lock, ... *)
DriverReads ==
  /\ driver.pc = "reads"
  /\ driver' = [pc |-> IF target.generation # ack THEN "calibrates" ELSE "publishes",
                copy |-> target]
  /\ UNCHANGED <<target, ack, sent, status, gazebo, caller, moves>>

(* ... ask Gazebo to move the calibration target; the call is made and     *)
(* answered while the orchestrator may be writing the next target, ...     *)
AckedGenerationLatest == target.generation

AckedGeneration == driver.copy.generation

DriverCalibrates ==
  /\ driver.pc = "calibrates"
  /\ gazebo' = [gazebo EXCEPT !.visible = driver.copy.visible]
  /\ ack' = AckedGeneration
  /\ driver' = [driver EXCEPT !.pc = "publishes"]
  /\ UNCHANGED <<target, sent, status, caller, moves>>

(* ... which may have no effect, or an effect whose answer is lost, and is *)
(* made again in the next iteration, ...                                   *)
DriverCalibrationFails(applied) ==
  /\ driver.pc = "calibrates"
  /\ gazebo' = IF applied THEN [gazebo EXCEPT !.visible = driver.copy.visible] ELSE gazebo
  /\ driver' = [driver EXCEPT !.pc = "publishes"]
  /\ UNCHANGED <<target, ack, sent, status, caller, moves>>

(* ... and publish the person's pose if it is not the one published last.  *)
PosePublished(worked) == IF worked THEN driver.copy.place ELSE sent

DriverPublishes(worked) ==
  /\ driver.pc = "publishes"
  /\ IF driver.copy.place # sent
     THEN /\ sent' = PosePublished(worked)
          /\ status' = IF worked THEN 1 ELSE 0
          /\ gazebo' = IF worked THEN [gazebo EXCEPT !.place = driver.copy.place] ELSE gazebo
     ELSE UNCHANGED <<sent, status, gazebo>>
  /\ driver' = [driver EXCEPT !.pc = "reads"]
  /\ UNCHANGED <<target, ack, caller, moves>>

NativeNext ==
        \/ \E place \in Places : Drive(place)
        \/ \E visible \in BOOLEAN : CalibrationVisible(visible)
        \/ CalibrationAcked \/ CalibrationTimeout
        \/ DriverReads \/ DriverCalibrates
        \/ \E b \in BOOLEAN : DriverCalibrationFails(b) \/ DriverPublishes(b)

NativeSpec == NativeInit /\ [][NativeNext]_nativeVars

-----------------------------------------------------------------------------
(* When calibration_visible has answered True, the scan's calibration      *)
(* target is in Gazebo as the caller asked, and no late call for an        *)
(* earlier generation undoes it (the acknowledgement is of the generation  *)
(* that was read, never of the one wanted by then).                        *)
AckIsApplied == caller.pc = "true" => gazebo.visible = caller.visible

=============================================================================
