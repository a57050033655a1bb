------------------------------- MODULE Sacho --------------------------------
(***************************************************************************)
(* The ring of the last records (sillok/src/sacho.rs) and the parameters of  *)
(* the recorder around it (RuntimeConfig).                                   *)
(***************************************************************************)
EXTENDS Integers, Sequences

CONSTANTS
  SachoCapacity,   \* sacho_capacity, at least the records of one input line
  SealEvery,       \* seal_every
  PostWindow,      \* post_window
  MaxRecords,      \* bound on the records pushed
  Absent           \* an absent value

ASSUME SachoAssumption ==
  /\ SachoCapacity \in Nat \ {0, 1}
  /\ SealEvery \in Nat \ {0}
  /\ PostWindow \in Nat
  /\ MaxRecords \in Nat

\* The absent value is not a count, a log or a deferred duty.
ASSUME AbsentRecordAssumption ==
  Absent \notin Nat \cup [lines : Seq(Nat), synced : Nat] \cup [incident : BOOLEAN, counts : BOOLEAN]

\* A seal line, among the numbers of the records.
Seal == 0

\* The oldest records leave a full ring.
Newest(records) ==
  IF Len(records) <= SachoCapacity
    THEN records
    ELSE SubSeq(records, Len(records) - SachoCapacity + 1, Len(records))
=============================================================================
