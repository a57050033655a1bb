---------------------------- MODULE FixtureDriver ----------------------------
(***************************************************************************)
(* The native fixtures of the household lab (NativeFixtures and            *)
(* native_fixture_driver in ros/gazebo/hazard_lab.py): the script and the  *)
(* attachment thread set poses through one process that calls Gazebo,      *)
(* behind a lock, a queue of commands and a queue of acknowledgements,     *)
(* each with room for one.                                                 *)
(*                                                                         *)
(* A pose command is the number set() gives it.                            *)
(***************************************************************************)
EXTENDS Integers, Sequences

CONSTANT MaxSets       \* a bound on the calls of set

VARIABLES script,      \* the main thread: "park", "place", "run", "failed" or "closed"
          attached,    \* the attachment thread: "off", "on" or "failed" (native.failure)
          stopping,    \* attachment_stop
          holder,      \* who holds command_lock, and the number of its command
          sequence,
          commands, acks,
          process,     \* the driver: [at, id, done], dead when it exited
          poses,       \* the command whose poses Gazebo shows
          returned     \* the command whose set last returned

fixtureVars == <<script, attached, stopping, holder, sequence, commands, acks, process, poses,
                 returned>>

Free == [who |-> "nobody", id |-> 0]
Idle == [at |-> "idle", id |-> 0, done |-> FALSE]

FixtureInit ==
  /\ script = "park" /\ attached = "off" /\ stopping = FALSE /\ holder = Free /\ sequence = 0
  /\ commands = <<>> /\ acks = <<>> /\ process = Idle /\ poses = 0 /\ returned = 0

-----------------------------------------------------------------------------
(* The driver. *)

DriverTakes ==
  /\ process.at = "idle" /\ commands # <<>>
  /\ process' = [at |-> "trying", id |-> Head(commands), done |-> FALSE] /\ commands' = Tail(commands)
  /\ UNCHANGED <<script, attached, stopping, holder, sequence, acks, poses, returned>>

\* _set_poses: Gazebo applies them; its answer may be lost, and the call made again.
DriverTries ==
  /\ process.at = "trying"
  /\ poses' = process.id
  /\ process' \in {process, [process EXCEPT !.at = "answering", !.done = TRUE]}
  /\ UNCHANGED <<script, attached, stopping, holder, sequence, commands, acks, returned>>

\* Its deadline of 2 s.
DriverGivesUp ==
  /\ process.at = "trying" /\ process' = [process EXCEPT !.at = "answering"]
  /\ UNCHANGED <<script, attached, stopping, holder, sequence, commands, acks, poses, returned>>

\* A mutant: a command that was given up is acknowledged like any other.
DriverAnswersDone ==
  /\ process.at = "answering" /\ acks = <<>>
  /\ acks' = <<[id |-> process.id, done |-> TRUE]>> /\ process' = Idle
  /\ UNCHANGED <<script, attached, stopping, holder, sequence, commands, poses, returned>>

\* The put blocks while an acknowledgement nobody took is still there.
DriverAnswers ==
  /\ process.at = "answering" /\ acks = <<>>
  /\ acks' = <<[id |-> process.id, done |-> process.done]>> /\ process' = Idle
  /\ UNCHANGED <<script, attached, stopping, holder, sequence, commands, poses, returned>>

DriverDies ==
  /\ process.at # "dead" /\ process' = [Idle EXCEPT !.at = "dead"]
  /\ UNCHANGED <<script, attached, stopping, holder, sequence, commands, acks, poses, returned>>

-----------------------------------------------------------------------------
(* set, called by the script or by the attachment thread. *)

\* The attachment ends with an error; the script's own error ends the lab.
Raises(who) ==
  /\ holder' = Free
  /\ IF who = "script" THEN script' = "failed" /\ attached' = attached
     ELSE attached' = "failed" /\ script' = script

\* A dead driver and a full queue raise at once.
Set(who) ==
  /\ holder = Free /\ sequence < MaxSets
  /\ IF process.at = "dead"
       THEN Raises(who) /\ UNCHANGED <<sequence, commands>>
       ELSE /\ sequence' = sequence + 1
            /\ IF commands # <<>> THEN Raises(who) /\ commands' = commands
               ELSE /\ commands' = <<sequence + 1>> /\ holder' = [who |-> who, id |-> sequence + 1]
                    /\ UNCHANGED <<script, attached>>
  /\ UNCHANGED <<stopping, acks, process, poses, returned>>

\* The acknowledgement of this very command.
Own(ack) == ack.id = holder.id /\ ack.done

\* Parking is followed by placing, placing by the run and a new attachment.
Acknowledged ==
  /\ holder # Free /\ acks # <<>> /\ acks' = <<>>
  /\ IF Own(Head(acks))
       THEN /\ holder' = Free /\ returned' = holder.id
            /\ IF holder.who = "script"
                 THEN /\ script' = IF script = "park" THEN "place" ELSE "run"
                      /\ attached' = IF script = "place" THEN "on" ELSE attached
                 ELSE UNCHANGED <<script, attached>>
       ELSE Raises(holder.who) /\ returned' = returned
  /\ UNCHANGED <<stopping, sequence, commands, process, poses>>

\* No acknowledgement in 2.5 s.
TimesOut ==
  /\ holder # Free /\ Raises(holder.who)
  /\ UNCHANGED <<stopping, sequence, commands, acks, process, poses, returned>>

ScriptSets == script \in {"park", "place"} /\ attached # "on" /\ Set("script")

\* The attachment follows the measured arm until it is told to stop.
AttachmentSets == attached = "on" /\ ~stopping /\ Set("attachment")

\* The next case: the attachment is stopped and joined before anything is parked.
NextCase ==
  /\ script = "run" /\ ~stopping /\ stopping' = TRUE
  /\ UNCHANGED <<script, attached, holder, sequence, commands, acks, process, poses, returned>>

Joined ==
  /\ script = "run" /\ stopping /\ holder.who # "attachment"
  /\ script' = "park" /\ stopping' = FALSE
  /\ attached' = IF attached = "on" THEN "off" ELSE attached
  /\ UNCHANGED <<holder, sequence, commands, acks, process, poses, returned>>

JoinFails ==
  /\ script = "run" /\ stopping /\ holder.who = "attachment" /\ script' = "failed"
  /\ UNCHANGED <<attached, stopping, holder, sequence, commands, acks, process, poses, returned>>

\* close: the driver's event is set, and the process ends or is ended.
Close ==
  /\ script \in {"failed", "run"} /\ holder = Free
  /\ script' = "closed" /\ stopping' = TRUE /\ process' = [Idle EXCEPT !.at = "dead"]
  /\ UNCHANGED <<attached, holder, sequence, commands, acks, poses, returned>>

FixtureNext ==
  \/ DriverTakes \/ DriverTries \/ DriverGivesUp \/ DriverAnswers \/ DriverDies
  \/ ScriptSets \/ AttachmentSets \/ Acknowledged \/ TimesOut
  \/ NextCase \/ Joined \/ JoinFails \/ Close

FixtureSpec == FixtureInit /\ [][FixtureNext]_fixtureVars

-----------------------------------------------------------------------------

(* While the script goes on, a set that returned is what Gazebo shows until   *)
(* the next one is called: neither a late acknowledgement of a command that   *)
(* timed out nor that command itself, applied late, ever stands in for it     *)
(* (the number checked in NativeFixtures.set).                                *)
ReturnedIsShown ==
  holder = Free /\ attached # "failed" /\ script \in {"place", "run"} => poses = returned

=============================================================================
