---------------------------- MODULE SourceSigner ----------------------------
(***************************************************************************)
(* The isolated source signers of ros/haetae_gate: source_node.py (what a    *)
(* callback does), signing.py (counters and envelopes) and counter_store.py  *)
(* (the owner-only, exclusive, durable reservation).                        *)
(*                                                                         *)
(* Several instances may be started over one counter file.  file is what a   *)
(* reader of the file system sees, disk what a power failure leaves: they     *)
(* differ between the rename and the fsync of the directory.  published       *)
(* counts, as a history variable, how often each envelope went out.          *)
(***************************************************************************)
EXTENDS Proposals, FiniteSets

CONSTANTS
  Process,     \* instances an operator may start
  Role,        \* the roles whose keys they hold: {"vla"} or {"world", "fault"}
  MaxEpoch,    \* bound on the trust epochs
  MaxCounter   \* bound on the counters signed in one epoch

ASSUME SourceSignerAssumption ==
  /\ "nobody" \notin Process
  /\ MaxEpoch \in Nat \ {0}
  /\ MaxCounter \in Nat

VARIABLES
  trust,       \* epoch of the trust bundle on disk
  file, disk,  \* counters.json: [epoch, counters]; epoch 0 when there is none
  lock,        \* the instance that holds the flock, or nobody
  proc,        \* per instance: where it stands and what it remembers
  clock,       \* whether the simulation clock has been discovered
  published    \* how often an envelope was published, per epoch, role, counter

vars == <<trust, file, disk, lock, proc, clock, published>>

Nobody   == "nobody"
Counters == [Role -> 0..MaxCounter]
Zero     == [r \in Role |-> 0]

\* A world or a fault is signed as it came.
Forwarded == [action |-> [type |-> "forwarded"], semantic |-> "none"]

Nothing == [epoch |-> 0, role |-> "none", counter |-> 0, id |-> 0, body |-> Forwarded]

Off == [at |-> "off", epoch |-> 0, counters |-> Zero, seq |-> 0, envelope |-> Nothing]

Init ==
  /\ trust = 1
  /\ file = [epoch |-> 0, counters |-> Zero]
  /\ disk = file
  /\ lock = Nobody
  /\ proc = [p \in Process |-> Off]
  /\ clock = FALSE
  /\ published = [k \in (1..MaxEpoch) \X Role \X (1..MaxCounter) |-> 0]

\* A process that ends, for whatever reason, closes its lock file.
Ends(p) ==
  /\ proc' = [proc EXCEPT ![p] = Off]
  /\ lock' = IF lock = p THEN Nobody ELSE lock

\* CounterStore.__init__: the flock is taken before anything is read.  A second
\* instance does not wait for it, it fails.
Open(p) ==
  /\ proc[p].at = "off"
  /\ lock = Nobody
  /\ lock' = p
  /\ proc' = [proc EXCEPT ![p].at = "opened"]
  /\ UNCHANGED <<trust, file, disk, clock, published>>

\* Signer.__init__: counters of the same epoch go on, an older epoch's do not.
Restored(e) == IF file.epoch = e THEN file.counters ELSE Zero

\* The proposal ids go on where the vla counter stands (source_node.py).
SeqFrom(c) == IF "vla" \in Role THEN c["vla"] ELSE 0

RolledBack(e) == file.epoch > e

\* The rest of the constructor; a bundle older than the file is refused.
Load(p) ==
  /\ proc[p].at = "opened"
  /\ IF RolledBack(trust)
       THEN Ends(p)
       ELSE /\ LET c == Restored(trust)
               IN  proc' = [proc EXCEPT ![p].at = "idle", ![p].epoch = trust,
                                        ![p].counters = c, ![p].seq = SeqFrom(c)]
            /\ UNCHANGED lock
  /\ UNCHANGED <<trust, file, disk, clock, published>>

\* Signer.sign of one payload, up to the reservation.
Sign(p, role, seq, body) ==
  LET c == proc[p].counters[role] + 1
  IN  /\ c <= MaxCounter
      /\ proc' = [proc EXCEPT ![p] =
           [at |-> "signed", epoch |-> @.epoch, counters |-> [@.counters EXCEPT ![role] = c],
            seq |-> seq,
            envelope |-> [epoch |-> @.epoch, role |-> role, counter |-> c,
                          id |-> seq, body |-> body]]]
      /\ UNCHANGED <<trust, file, disk, lock, clock, published>>

\* SourceSigner.send of a world or a fault.
Forward(p, role) ==
  /\ role # "vla"
  /\ proc[p].at = "idle"
  /\ Sign(p, role, proc[p].seq, Forwarded)

\* What propose signs as the action and its reference: a malformed message
\* becomes a stop of that source, and a stop refers to nothing.
Proposal(action, frame) ==
  LET binding == SemanticBinding(frame)
      sent    == IF action = Invalid \/ binding = "invalid" THEN StopIt ELSE action
  IN  [action |-> sent, semantic |-> IF sent = StopIt THEN "none" ELSE binding]

\* SourceSigner.propose: without a clock nothing is said at all; whatever the
\* message became, it takes one id.
Propose(p, action, frame) ==
  /\ "vla" \in Role
  /\ proc[p].at = "idle"
  /\ clock
  /\ Sign(p, "vla", proc[p].seq + 1, Proposal(action, frame))

\* A mutant: the envelope leaves while the reservation is still to be written.
ReserveLater(p) ==
  /\ proc[p].at = "signed"
  /\ proc' = [proc EXCEPT ![p].at = "reserved"]
  /\ UNCHANGED <<trust, file, disk, lock, clock, published>>

\* CounterStore.reserve up to the rename: the temporary file is complete and
\* synced, so the rename is all or nothing.
Reserve(p) ==
  /\ proc[p].at = "signed"
  /\ file' = [epoch |-> proc[p].epoch, counters |-> proc[p].counters]
  /\ proc' = [proc EXCEPT ![p].at = "renamed"]
  /\ UNCHANGED <<trust, disk, lock, clock, published>>

\* The fsync of the directory.
SyncDirectory(p) ==
  /\ proc[p].at = "renamed"
  /\ disk' = file
  /\ proc' = [proc EXCEPT ![p].at = "reserved"]
  /\ UNCHANGED <<trust, file, lock, clock, published>>

\* A mutant: the envelope in hand may go out a second time, as a retry would do.
PublishAgain(p) ==
  /\ proc[p].at = "reserved"
  /\ LET e == proc[p].envelope
     IN  published' = [published EXCEPT ![<<e.epoch, e.role, e.counter>>] = @ + 1]
  /\ UNCHANGED <<trust, file, disk, lock, proc, clock>>

\* The rest of send: only a reserved envelope is published.
Publish(p) ==
  /\ proc[p].at = "reserved"
  /\ LET e == proc[p].envelope
     IN  published' = [published EXCEPT ![<<e.epoch, e.role, e.counter>>] = @ + 1]
  /\ proc' = [proc EXCEPT ![p].at = "idle", ![p].envelope = Nothing]
  /\ UNCHANGED <<trust, file, disk, lock, clock>>

\* Any failure of the file system is an exception that ends the spin, and the
\* process may die anywhere; what it signed is not published.
Dies(p) ==
  /\ proc[p].at # "off"
  /\ Ends(p)
  /\ UNCHANGED <<trust, file, disk, clock, published>>

\* A power failure ends everybody and forgets an unsynced rename, or keeps it.
PowerFails ==
  /\ proc' = [p \in Process |-> Off]
  /\ lock' = Nobody
  /\ \E found \in {file, disk} : file' = found /\ disk' = found
  /\ clock' = FALSE
  /\ UNCHANGED <<trust, published>>

\* The operator provisions a bundle, a newer one or by mistake an older one.
Provision(e) ==
  /\ e # trust
  /\ trust' = e
  /\ UNCHANGED <<file, disk, lock, proc, clock, published>>

ClockFound ==
  /\ ~clock
  /\ clock' = TRUE
  /\ UNCHANGED <<trust, file, disk, lock, proc, published>>

\* Inputs: one representative per answer of the decoders.
Twists == [extra : BOOLEAN, finite : {TRUE}, zero : BOOLEAN]
Plans  == [joints : {TRUE}, points : {<< >>, <<[sane |-> TRUE, ms |-> 1]>>}]
Frames == {"plain", "reference", "malformed"}
Actions == {BaseAction(m) : m \in Twists} \cup {ArmAction(m) : m \in Plans}

Bodies  == {Proposal(a, f) : a \in Actions, f \in Frames}

Next ==
  \/ \E p \in Process :
       \/ Open(p) \/ Load(p) \/ Reserve(p) \/ SyncDirectory(p) \/ Publish(p) \/ Dies(p)
       \/ \E r \in Role : Forward(p, r)
       \/ \E a \in Actions, f \in Frames : Propose(p, a, f)
  \/ PowerFails
  \/ \E e \in 1..MaxEpoch : Provision(e)
  \/ ClockFound

Spec == Init /\ [][Next]_vars

-----------------------------------------------------------------------------
Envelope == [epoch : 1..MaxEpoch, role : Role, counter : 1..MaxCounter,
             id : 0..MaxCounter, body : Bodies \cup {Forwarded}]

Stored == [epoch : 0..MaxEpoch, counters : Counters]

Places == {"off", "opened", "idle", "signed", "renamed", "reserved"}

TypeOK ==
  /\ trust \in 1..MaxEpoch
  /\ file \in Stored /\ disk \in Stored
  /\ lock \in Process \cup {Nobody}
  /\ proc \in [Process -> [at : Places, epoch : 0..MaxEpoch, counters : Counters,
                          seq : 0..MaxCounter, envelope : Envelope \cup {Nothing}]]
  /\ clock \in BOOLEAN
  /\ published \in [(1..MaxEpoch) \X Role \X (1..MaxCounter) -> Nat]

\* No counter of an epoch is ever published twice, whatever crashes, power
\* failures, second instances and provisioning mistakes lie between
\* (source_node.py send: reserve, then publish; counter_store.py: the lock).
SignedOnce == \A k \in DOMAIN published : published[k] <= 1

\* Whatever was published is covered by the reservation a power failure would
\* leave behind (counter_store.py reserve: fsync, rename, fsync of the directory).
ReservedFirst ==
  \A k \in DOMAIN published :
    published[k] > 0 =>
      \/ disk.epoch > k[1]
      \/ disk.epoch = k[1] /\ disk.counters[k[2]] >= k[3]

\* A power failure never leaves a file behind that an earlier one had passed:
\* what the disk holds only grows (signing.py: a rolled back bundle is refused).
ReservationGrows ==
  [][ \/ disk'.epoch > disk.epoch
      \/ /\ disk'.epoch = disk.epoch
         /\ \A r \in Role : disk'.counters[r] >= disk.counters[r] ]_vars
=============================================================================
