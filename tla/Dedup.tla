------------------------------- MODULE Dedup --------------------------------
(***************************************************************************)
(* The bounded replay window of haetae-runtime (dedup.rs) and the judgement *)
(* order around it (Runtime::judge): which proposals the gate gets to see.  *)
(*                                                                         *)
(* order is the eviction queue, seen the set beside it, floor the highest   *)
(* evicted id of each source (-1 when nothing of it was evicted), hasWorld  *)
(* whether a snapshot has arrived, fired the synthetic check of the last    *)
(* decision.  judged is a history variable: the proposals, stops excepted,  *)
(* that the gate was ever asked about.                                      *)
(***************************************************************************)
EXTENDS Integers, Sequences, FiniteSets

CONSTANTS
  Source,    \* the sources of proposals
  Id,        \* the proposal ids that may arrive
  Capacity   \* dedup_capacity

ASSUME DedupAssumption ==
  /\ Id \subseteq Nat
  /\ Capacity \in Nat \ {0}

VARIABLES order, seen, floor, hasWorld, fired, judged

windowVars == <<order, seen, floor, hasWorld, fired, judged>>

Key == Source \X Id

Larger(a, b) == IF a >= b THEN a ELSE b

WindowInit ==
  /\ order = << >>
  /\ seen = {}
  /\ floor = [s \in Source |-> -1]
  /\ hasWorld = FALSE
  /\ fired = "none"
  /\ judged = {}

\* At or below the eviction floor of its source, or in the window.
Repeated(k) == k[2] <= floor[k[1]] \/ k \in seen

\* A mutant: an eviction leaves no floor.
InsertWithoutFloor(k) ==
  LET queue == Append(order, k)
      old   == Head(queue)
  IN  IF Len(queue) <= Capacity
        THEN /\ order' = queue
             /\ seen' = seen \cup {k}
             /\ floor' = floor
        ELSE /\ order' = Tail(queue)
             /\ seen' = (seen \cup {k}) \ {old}
             /\ floor' = floor

\* A mutant: the sources share one floor.
InsertOneFloor(k) ==
  LET queue == Append(order, k)
      old   == Head(queue)
  IN  IF Len(queue) <= Capacity
        THEN /\ order' = queue
             /\ seen' = seen \cup {k}
             /\ floor' = floor
        ELSE /\ order' = Tail(queue)
             /\ seen' = (seen \cup {k}) \ {old}
             /\ floor' = [s \in Source |-> Larger(floor[s], old[2])]

\* Dedup::check_and_insert of a key that is not repeated.  At most one key has
\* to leave: the window held no more than Capacity before.
Insert(k) ==
  LET queue == Append(order, k)
      old   == Head(queue)
  IN  IF Len(queue) <= Capacity
        THEN /\ order' = queue
             /\ seen' = seen \cup {k}
             /\ floor' = floor
        ELSE /\ order' = Tail(queue)
             /\ seen' = (seen \cup {k}) \ {old}
             /\ floor' = [floor EXCEPT ![old[1]] = Larger(@, old[2])]

\* Runtime::judge.  A stop needs no world and claims no id; without a world
\* nothing is claimed either; a repeat is refused; the rest goes to the gate.
JudgeStop ==
  /\ fired' = "none"
  /\ UNCHANGED <<order, seen, floor, hasWorld, judged>>

JudgeMissingWorld ==
  /\ ~hasWorld
  /\ fired' = "missing:world"
  /\ UNCHANGED <<order, seen, floor, hasWorld, judged>>

JudgeRepeated(k) ==
  /\ hasWorld
  /\ Repeated(k)
  /\ fired' = "replay:proposal"
  /\ UNCHANGED <<order, seen, floor, hasWorld, judged>>

JudgeByGate(k) ==
  /\ hasWorld
  /\ ~Repeated(k)
  /\ Insert(k)
  /\ fired' = "none"
  /\ judged' = judged \cup {k}
  /\ UNCHANGED hasWorld

\* Runtime::handle, an accepted world.
WorldArrives ==
  /\ hasWorld' = TRUE
  /\ fired' = "none"
  /\ UNCHANGED <<order, seen, floor, judged>>

WindowNext ==
  \/ JudgeStop
  \/ JudgeMissingWorld
  \/ \E k \in Key : JudgeRepeated(k) \/ JudgeByGate(k)
  \/ WorldArrives

WindowSpec == WindowInit /\ [][WindowNext]_windowVars

-----------------------------------------------------------------------------
WindowTypeOK ==
  /\ order \in Seq(Key)
  /\ seen \in SUBSET Key
  /\ floor \in [Source -> Nat \cup {-1}]
  /\ hasWorld \in BOOLEAN
  /\ fired \in {"none", "missing:world", "replay:proposal"}
  /\ judged \in SUBSET Key

\* A proposal the gate has judged is refused ever after, however many others
\* pushed it out of the window and in whatever order their ids came
\* (dedup.rs check_and_insert: the eviction floor).
JudgedOnce == \A k \in judged : Repeated(k)

\* The window refuses no proposal of a source whose ids increase, whatever the
\* other sources send: a refusal needs an id no newer than one already judged
\* (dedup.rs: the floor is an evicted id of the same source).
IncreasingNeverRefused ==
  \A s \in Source, i \in Id :
    (\A k \in judged : k[1] = s => k[2] < i) => ~Repeated(<<s, i>>)

\* The set and the queue hold the same keys, each once, within the capacity:
\* otherwise an eviction would forget the wrong key or none.
WindowConsistent ==
  /\ seen = {order[i] : i \in DOMAIN order}
  /\ \A i, j \in DOMAIN order : order[i] = order[j] => i = j
  /\ Len(order) <= Capacity
=============================================================================
