----------------------------- MODULE AtMostOnce ------------------------------
(***************************************************************************)
(* What authentication promises the robot: each signed input leads to       *)
(* motion at most once, for good.  used counts, for each input, how often   *)
(* it did.                                                                  *)
(***************************************************************************)
EXTENDS Integers

CONSTANT Input

VARIABLE used

Init == used = [i \in Input |-> 0]

Use(i) ==
  /\ used[i] = 0
  /\ used' = [used EXCEPT ![i] = 1]

Next == \E i \in Input : Use(i)

Spec == Init /\ [][Next]_used
=============================================================================
