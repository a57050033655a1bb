------------------------------ MODULE Recorder -------------------------------
(***************************************************************************)
(* The dashcam recorder: the sacho ring (sillok/src/sacho.rs), the log      *)
(* writer (sillok/src/writer.rs), the recorder that opens the log at the    *)
(* first incident (haetae-runtime/src/recorder.rs) and the runtime's        *)
(* deferred commit around them (runtime.rs).  Any write may fail, and the   *)
(* process may die at any point.                                            *)
(*                                                                         *)
(* A record is its number; 0 is a seal line.  file is the log on disk:      *)
(* its lines, and how many of them an fsync covers.  writer is the number   *)
(* of records since the last seal, Absent when no writer is open.  post is    *)
(* post_remaining, pending the deferred (incident, counts), fault the       *)
(* latched recorder_fault.  run is "up", or how the last run ended.  base   *)
(* is the number of records at the last commit, and marks, a history        *)
(* variable, the records of this run's incidents.                           *)
(*                                                                         *)
(* Hash chain and signatures are left out: a seal line is genuine.          *)
(***************************************************************************)
EXTENDS Sacho, SequencesExt, FiniteSets

VARIABLES ring, count, post, writer, file, fault, pending, run, base, marks

recorderVars == <<ring, count, post, writer, file, fault, pending, run, base, marks>>

RecorderInit ==
  /\ ring = << >>
  /\ count = 0
  /\ post = 0
  /\ writer = Absent
  /\ file = Absent
  /\ fault = FALSE
  /\ pending = Absent
  /\ run = "up"
  /\ base = 0
  /\ marks = {}

-----------------------------------------------------------------------------
(* Handling a message: its records go into the ring, its duty is deferred. *)

\* Sacho::push of the next n records.
Pushed(n) == Newest(ring \o [k \in 1..n |-> count + k])

\* Runtime::finish_step under defer_seal.
Deferred(incident, counts) ==
  IF pending = Absent
    THEN [incident |-> incident, counts |-> counts]
    ELSE [incident |-> pending.incident \/ incident, counts |-> pending.counts \/ counts]

\* The enforcer commits after every line, so that the ring holds all its records.
Handle(n, incident, counts) ==
  /\ run = "up"
  /\ count + n - base <= SachoCapacity
  /\ count + n <= MaxRecords
  /\ ring' = Pushed(n)
  /\ count' = count + n
  /\ pending' = Deferred(incident, counts)
  /\ marks' = IF incident THEN marks \cup {count + n} ELSE marks
  /\ UNCHANGED <<post, writer, file, fault, run, base>>

\* World updates and rejects: recorded, never an incident, never counted.
HandleQuiet == Handle(1, FALSE, FALSE)

\* A proposal and its decision; Bul is an incident.
HandleProposal(bul) == Handle(2, bul, TRUE)

\* A fault; a climb into stop-only is an incident.
HandleFault(climbs) == Handle(1, climbs, TRUE)

\* Revocations, stops and refused rejudgements of the enforcer.
RecordStop == Handle(1, TRUE, FALSE)

-----------------------------------------------------------------------------
(* Runtime::commit, Recorder::after_step.                                  *)

\* What a flush writes: the ring, with a seal wherever SealEvery records follow the
\* last one.  Line i is record Place(since, i) of the ring, or that record's seal.
Place(since, i) == i - (since + i) \div (SealEvery + 1)

Flushed(since) ==
  [i \in 1..(Len(ring) + (since + Len(ring)) \div SealEvery) |->
     IF (since + i) % (SealEvery + 1) = 0 THEN Seal ELSE ring[Place(since, i)]]

\* Recorder::after_step seals what it wrote when that is due.
Due(since, sealing) == Flushed(since) \o (IF sealing THEN <<Seal>> ELSE << >>)

\* Every seal is fsynced: how much of a log is durable once lines are written.
SyncedWith(f, lines) ==
  LET s == SelectLastInSeq(lines, LAMBDA x : x = Seal)
  IN  IF s = 0 THEN f.synced ELSE Len(f.lines) + s

Extended(f, lines) == [lines |-> f.lines \o lines, synced |-> SyncedWith(f, lines)]

\* A write or an fsync has failed: what was buffered since the last fsync may be in
\* the file, in part or whole.
Torn(f, lines) ==
  {[lines |-> SubSeq(f.lines \o lines, 1, n), synced |-> f.synced] :
     n \in f.synced..Len(f.lines \o lines)}

\* Flushing the ring into log f through a writer with since unsealed records,
\* and sealing when due.
WriteAll(f, since, sealing) ==
  /\ file' = Extended(f, Due(since, sealing))
  /\ writer' = IF sealing THEN 0 ELSE (since + Len(ring)) % SealEvery
  /\ ring' = << >>
  /\ fault' = fault

\* The same, failing at one of the lines.  The writer is discarded; the record that
\* failed, its own seal included, stays in the ring with all after it.
WriteFails(f, since, sealing) ==
  \E c \in DOMAIN Due(since, sealing) :
    /\ file' \in Torn(Extended(f, SubSeq(Due(since, sealing), 1, c - 1)),
                      <<Due(since, sealing)[c]>>)
    /\ writer' = Absent
    /\ ring' = IF c > Len(Flushed(since)) THEN << >>
               ELSE SubSeq(ring, Place(since, c), Len(ring))
    /\ fault' = TRUE

Write(f, since, sealing) == WriteAll(f, since, sealing) \/ WriteFails(f, since, sealing)

\* A commit with nothing to do: no incident, no window.
CommitIdle ==
  /\ ~pending.incident /\ post = 0
  /\ UNCHANGED <<ring, post, writer, file, fault>>

\* A mutant: the window closes without a seal.
CommitWindowUnsealed ==
  /\ ~pending.incident /\ post > 0
  /\ post' = IF pending.counts THEN post - 1 ELSE post
  /\ IF writer = Absent
       THEN UNCHANGED <<ring, writer, file, fault>>
       ELSE Write(file, writer, FALSE)

\* No incident, a window: it shrinks by a counted message, and closes sealed.
\* Without a writer (creation failed) it only shrinks.
CommitWindow ==
  /\ ~pending.incident /\ post > 0
  /\ post' = IF pending.counts THEN post - 1 ELSE post
  /\ IF writer = Absent
       THEN UNCHANGED <<ring, writer, file, fault>>
       ELSE Write(file, writer, post' = 0)

\* An incident with the log open.
CommitIncident ==
  /\ pending.incident /\ writer # Absent
  /\ post' = PostWindow
  /\ Write(file, writer, TRUE)

\* A mutant: the first incident is flushed and not sealed.
CommitCreatesUnsealed ==
  /\ pending.incident /\ writer = Absent /\ file = Absent
  /\ post' = PostWindow
  /\ Write([lines |-> << >>, synced |-> 0], 0, FALSE)

\* A mutant: an existing log is overwritten.
CommitCreatesOver ==
  /\ pending.incident /\ writer = Absent
  /\ post' = PostWindow
  /\ Write([lines |-> << >>, synced |-> 0], 0, TRUE)

\* An incident that creates the log: create_new, so only where there is none.
CommitCreates ==
  /\ pending.incident /\ writer = Absent /\ file = Absent
  /\ post' = PostWindow
  /\ Write([lines |-> << >>, synced |-> 0], 0, TRUE)

\* An incident whose log cannot be created: the path is taken, or an error,
\* after which the empty file is removed if that works.
CommitCreateFails ==
  /\ pending.incident /\ writer = Absent
  /\ post' = PostWindow
  /\ file' \in IF file = Absent THEN {Absent, [lines |-> << >>, synced |-> 0]} ELSE {file}
  /\ fault' = TRUE
  /\ UNCHANGED <<ring, writer>>

Commit ==
  /\ run = "up" /\ pending # Absent
  /\ CommitIdle \/ CommitWindow \/ CommitIncident \/ CommitCreates \/ CommitCreateFails
  /\ pending' = Absent
  /\ base' = count
  /\ UNCHANGED <<count, run, marks>>

-----------------------------------------------------------------------------
(* Ends of a run.                                                          *)

Forget ==
  /\ ring' = << >> /\ post' = 0 /\ writer' = Absent /\ pending' = Absent
  /\ UNCHANGED <<count, base, marks>>

\* What no seal covers may be lost, from the end.
Dies ==
  /\ run = "up"
  /\ run' = "crashed"
  /\ file' \in IF file = Absent THEN {Absent}
               ELSE {[file EXCEPT !.lines = SubSeq(@, 1, n)] : n \in file.synced..Len(file.lines)}
  /\ Forget
  /\ UNCHANGED fault

\* SillokWriter::close: a last seal when records are unsealed.
CloseWriter ==
  IF writer = Absent
    THEN UNCHANGED <<file, fault>>
    ELSE LET last == IF writer > 0 THEN <<Seal>> ELSE << >>
         IN  \/ file' = Extended(file, last) /\ UNCHANGED fault
             \/ file' \in Torn(file, last) /\ fault' = TRUE

\* Runtime::close, after its commit: a latched failure is reported.
CloseRun ==
  /\ run = "up" /\ pending = Absent
  /\ CloseWriter
  /\ run' = IF fault' THEN "incomplete" ELSE "clean"
  /\ Forget

\* A new run with the same log path.
StartsAgain ==
  /\ run # "up"
  /\ run' = "up"
  /\ fault' = FALSE
  /\ marks' = {}
  /\ base' = count
  /\ UNCHANGED <<ring, count, post, writer, file, pending>>

RecorderNext ==
  \/ HandleQuiet \/ RecordStop
  \/ \E b \in BOOLEAN : HandleProposal(b) \/ HandleFault(b)
  \/ Commit \/ Dies \/ CloseRun \/ StartsAgain

RecorderSpec == RecorderInit /\ [][RecorderNext]_recorderVars

-----------------------------------------------------------------------------
Written == IF file = Absent THEN {} ELSE ToSet(file.lines)

Durable == IF file = Absent THEN {} ELSE ToSet(SubSeq(file.lines, 1, file.synced))

\* No incident is lost in silence: once committed, its record is under an
\* fsynced seal or the failure is latched; and a run that closes clean has all
\* its incidents there (recorder.rs after_step, runtime.rs close).
IncidentsDurable ==
  (run = "up" /\ pending = Absent /\ ~fault) \/ run = "clean" => marks \subseteq Durable

\* While a window is open everything since its incident is in the log, without
\* a gap; when it has closed nothing in the log is left unsealed, however
\* incidents, counted and uncounted messages were interleaved (recorder.rs).
WindowComplete ==
  run = "up" /\ pending = Absent /\ ~fault /\ marks # {} =>
    /\ post > 0 => {r \in 1..count : \A m \in marks : m <= r} \subseteq Written
    /\ post = 0 => Written = Durable

\* The log holds each record at most once and in order, whatever failed in
\* between and however often the process restarted (sacho.rs flush_into keeps
\* a record whose append failed; recorder.rs discards the writer).
LogInOrder ==
  file # Absent =>
    \A i, j \in DOMAIN file.lines :
      i < j /\ Seal \notin {file.lines[i], file.lines[j]} => file.lines[i] < file.lines[j]

\* The log is whole: no gap in an open window, no record out of place.
LogWhole == WindowComplete /\ LogInOrder

\* What a seal covers is never changed or lost again: no crash, failed write or
\* later run touches it (writer.rs create never overwrites).
SealedForever ==
  [][ file # Absent =>
        /\ file' # Absent
        /\ file'.synced >= file.synced
        /\ IsPrefix(SubSeq(file.lines, 1, file.synced), file'.lines) ]_recorderVars

\* What the contract says of a log that could not be created: the records stay
\* in the sacho and land in the log once creation succeeds (docs/w2-contract.md).
FailedStepLandsLater ==
  run = "up" /\ writer # Absent /\ pending = Absent => marks \subseteq Written
=============================================================================
