------------------------------ MODULE AuthLoop -------------------------------
(***************************************************************************)
(* Authenticated input: the verifier (haetae-enforce/src/auth.rs), its      *)
(* counters in the state file (state.rs) and the loop that orders the       *)
(* checkpoint and the reply (haetae/src/main.rs), across crashes, failed    *)
(* writes, restarts, key rotations and operator resets.  Any input that was *)
(* ever signed may arrive at any time, any number of times.                 *)
(*                                                                         *)
(* bundle is the epoch of the trust bundle on disk; auth the verifier of    *)
(* the running process; staged its auth_checkpoint, to be written by the    *)
(* next commit; held whether its mode is stop-only; reply the step waiting  *)
(* to be written; disk the state file; proc where the loop stands, as in    *)
(* EnforceLoop.  admitted is a history variable: how often each input's own *)
(* reply carried motion to the controller.                                  *)
(*                                                                         *)
(* The enforcer is abstracted to the kind of its step: "positive" (motion), *)
(* "ack" (a world receipt that waits for the checkpoint), "fault" (the mode *)
(* becomes stop-only), "stop".  Signatures and payloads that do not verify  *)
(* are inputs that are not Verified.                                        *)
(***************************************************************************)
EXTENDS Integers

CONSTANTS
  Role,        \* the roles with a key in the trust bundle
  MaxEpoch,    \* bound on the epochs of trust bundles
  MaxCounter,  \* bound on the counters of signed inputs
  None         \* an absent value

Epoch == 1..MaxEpoch

Input == [epoch : Epoch, role : Role, counter : 1..MaxCounter]

\* AuthVerifier, and the pair the state file keeps of it; 0 where no counter is.
Auth == [epoch : 0..MaxEpoch, counters : [Role -> 0..MaxCounter]]

Kind == {"positive", "ack", "fault", "stop"}
Reply == [input : Input \cup {None}, kind : Kind]
StateFile == [auth : Auth, held : BOOLEAN, running : BOOLEAN]
Stage == {"down", "ready", "checkpoint", "reply", "emit", "save"}

ASSUME AuthAssumption ==
  /\ MaxEpoch \in Nat \ {0}
  /\ MaxCounter \in Nat
  /\ None \notin Input \cup Auth

VARIABLES bundle, proc, auth, staged, held, reply, disk, admitted

vars == <<bundle, proc, auth, staged, held, reply, disk, admitted>>

NoAuth == [epoch |-> 0, counters |-> [r \in Role |-> 0]]
NoReply == [input |-> None, kind |-> "stop"]

Init ==
  /\ bundle = 1
  /\ proc = "down"
  /\ auth = NoAuth
  /\ staged = None
  /\ held = TRUE
  /\ reply = NoReply
  /\ disk = [auth |-> NoAuth, held |-> TRUE, running |-> FALSE]
  /\ admitted = [i \in Input |-> 0]

-----------------------------------------------------------------------------
(* One line of input.                                                      *)

\* A mutant: a counter may be repeated.
VerifiedRepeat(i) == i.epoch = auth.epoch /\ i.counter >= auth.counters[i.role]

\* AuthVerifier::verify: this epoch, and a counter the role has not reached.
Verified(i) == i.epoch = auth.epoch /\ i.counter > auth.counters[i.role]

\* A mutant: motion does not wait for the checkpoint.
ReturnsAtOnce(i, kind) ==
  /\ kind = "positive" => ~held
  /\ held' = (held \/ kind = "fault")
  /\ reply' = [input |-> i, kind |-> kind]
  /\ proc' = "emit"

\* The step the enforcer returns and what the loop does with it first.
Returns(i, kind) ==
  /\ kind = "positive" => ~held
  /\ held' = (held \/ kind = "fault")
  /\ reply' = [input |-> i, kind |-> kind]
  /\ proc' = IF kind \in {"positive", "ack"} THEN "checkpoint" ELSE "emit"

\* A signed line that verifies: the counter advances and is staged.
AcceptSigned(i, kind) ==
  /\ proc = "ready"
  /\ Verified(i)
  /\ auth' = [auth EXCEPT !.counters[i.role] = i.counter]
  /\ staged' = auth'
  /\ Returns(i, kind)
  /\ UNCHANGED <<bundle, disk, admitted>>

\* A signed line that does not.
RefuseSigned(i) ==
  /\ proc = "ready"
  /\ ~Verified(i)
  /\ Returns(None, "stop")
  /\ UNCHANGED <<bundle, auth, staged, disk, admitted>>

\* Tick, hold and reject lines need no signature; a tick can repeat a command.
Unsigned(kind) ==
  /\ proc = "ready"
  /\ kind \in {"positive", "fault", "stop"}
  /\ Returns(None, kind)
  /\ UNCHANGED <<bundle, auth, staged, disk, admitted>>

\* What StateStore::persist_checkpoint writes; auth_checkpoint.take().
Checkpointed ==
  [auth |-> IF staged = None THEN disk.auth ELSE staged, held |-> held, running |-> TRUE]

\* Enforcer::commit; an older epoch than the stored one is an error.
Persist ==
  /\ proc \in {"checkpoint", "save"}
  /\ Checkpointed.auth.epoch >= disk.auth.epoch
  /\ disk' = Checkpointed
  /\ staged' = None
  /\ proc' = IF proc = "checkpoint" THEN "reply" ELSE "ready"
  /\ UNCHANGED <<bundle, auth, held, reply, admitted>>

\* The reply is written and flushed.
Send ==
  /\ proc \in {"reply", "emit"}
  /\ proc' = IF proc = "reply" THEN "ready" ELSE "save"
  /\ admitted' = IF reply.kind = "positive" /\ reply.input # None
                   THEN [admitted EXCEPT ![reply.input] = @ + 1]
                   ELSE admitted
  /\ UNCHANGED <<bundle, auth, staged, held, reply, disk>>

-----------------------------------------------------------------------------
(* Ends and starts of the process, and what is done while it is down.      *)

Ends ==
  /\ proc' = "down"
  /\ auth' = NoAuth
  /\ staged' = None
  /\ held' = TRUE
  /\ reply' = NoReply

\* The process dies, or its input ends: then the last commit has nothing new to
\* write and nothing is sent.
Crash ==
  /\ proc # "down"
  /\ Ends
  /\ UNCHANGED <<bundle, disk, admitted>>

\* A failed commit ends the process; the file may be the new one all the same.
PersistFails ==
  /\ proc \in {"checkpoint", "save"}
  /\ disk' \in {disk, Checkpointed}
  /\ Ends
  /\ UNCHANGED <<bundle, admitted>>

\* A mutant: a restart does not restore the counters.
OpenForgetful ==
  /\ proc = "down"
  /\ disk' = [disk EXCEPT !.running = TRUE, !.held = disk.held \/ disk.running]
  /\ bundle >= disk.auth.epoch
  /\ proc' = "ready"
  /\ held' = (disk.held \/ disk.running)
  /\ auth' = [NoAuth EXCEPT !.epoch = bundle]
  /\ UNCHANGED <<bundle, staged, reply, admitted>>

\* Enforcer::open marks the file as running, then AuthVerifier::restore
\* compares epochs: an older bundle ends the process, a newer one starts with
\* no counters.
Open ==
  /\ proc = "down"
  /\ disk' = [disk EXCEPT !.running = TRUE, !.held = disk.held \/ disk.running]
  /\ IF bundle < disk.auth.epoch
       THEN UNCHANGED <<proc, auth, held>>
       ELSE /\ proc' = "ready"
            /\ held' = (disk.held \/ disk.running)
            /\ auth' = IF bundle = disk.auth.epoch
                         THEN disk.auth
                         ELSE [NoAuth EXCEPT !.epoch = bundle]
  /\ UNCHANGED <<bundle, staged, reply, admitted>>

\* state::set
OperatorSet(hold) ==
  /\ proc = "down"
  /\ disk' = [disk EXCEPT !.running = FALSE, !.held = hold]
  /\ UNCHANGED <<bundle, proc, auth, staged, held, reply, admitted>>

\* The trust bundle is replaced, possibly by an older one.
InstallBundle(e) ==
  /\ bundle' = e
  /\ UNCHANGED <<proc, auth, staged, held, reply, disk, admitted>>

Next ==
  \/ \E i \in Input, k \in Kind : AcceptSigned(i, k)
  \/ \E i \in Input : RefuseSigned(i)
  \/ \E k \in Kind : Unsigned(k)
  \/ Persist \/ Send \/ Crash \/ PersistFails \/ Open
  \/ \E h \in BOOLEAN : OperatorSet(h)
  \/ \E e \in Epoch : InstallBundle(e)

Spec == Init /\ [][Next]_vars

-----------------------------------------------------------------------------
TypeOK ==
  /\ bundle \in Epoch
  /\ proc \in Stage
  /\ auth \in Auth
  /\ staged \in Auth \cup {None}
  /\ held \in BOOLEAN
  /\ reply \in Reply
  /\ disk \in StateFile
  /\ admitted \in [Input -> Nat]

\* An input is spent, as far as a pair of epoch and counters remembers.
Spent(a, i) ==
  \/ i.epoch < a.epoch
  \/ i.epoch = a.epoch /\ i.counter <= a.counters[i.role]

\* An input that moved the robot is spent on disk, at every moment: whatever
\* the process forgets when it dies, no later one accepts the input again
\* (main.rs checkpoint_first, state.rs persist_checkpoint).
MotionIsDurable == \A i \in Input : admitted[i] > 0 => Spent(disk.auth, i)

\* Motion follows the order of the signers: no epoch older than one that moved
\* the robot, and no counter at or below one of its role, ever moves it again,
\* not even after an older trust bundle was put back (auth.rs verify, restore).
AdmittedInOrder ==
  [][ \A i \in Input : admitted'[i] # admitted[i] =>
        \A j \in Input : admitted[j] > 0 =>
          /\ j.epoch <= i.epoch
          /\ j.epoch = i.epoch /\ j.role = i.role => j.counter < i.counter ]_vars

\* Each signed input leads to motion at most once, across any number of
\* crashes, lost checkpoints, restarts, rotations and resets.
Promise == INSTANCE AtMostOnce WITH used <- admitted

PromiseKept == Promise!Spec
=============================================================================
