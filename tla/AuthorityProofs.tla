-------------------------- MODULE AuthorityProofs --------------------------
(***************************************************************************)
(* Who may sign, and what may move the arm, for every number of instances,   *)
(* roles, epochs, counters and goals and for every window, lease and age.     *)
(*                                                                         *)
(* The permits: the arm moves only the trajectory its live grant was signed   *)
(* for and only within what was decided for it, and starts no trajectory      *)
(* twice.  Neither is inductive.  What carries them from the engine to the    *)
(* arm is that a positive token ends within the authority it was signed under  *)
(* (Bounded), that the node has at most one goal under way and the controller  *)
(* nothing of another (Outstanding), and that an unlocked guard holds a grant  *)
(* for what it calls active (Granted).                                       *)
(*                                                                         *)
(* The source signer: whatever crashes and power failures lie between, no     *)
(* counter of an epoch is published twice, what is published is reserved on   *)
(* disk, and the reservation only grows.  A counter about to be signed is      *)
(* fresh because it is above the instance's own counters, those are not below  *)
(* the file, the file is not below the disk (NeverBehind), and the disk covers  *)
(* what was published.  That the file is the instance's business alone is the  *)
(* lock (Exclusive); what it holds between rename, sync and publication is     *)
(* InHand.                                                                  *)
(***************************************************************************)
EXTENDS SourceSigner, PermitLease, TLAPS

Digest == Goal \cup {Idle}
Kind   == {"none", "goal", "lease", "reset", "stop"}

Engine == [world : Int, active : Digest, expires : [Goal -> Nat], armed : BOOLEAN,
           settle : Nat, since : Nat]

Node == [asked : BOOLEAN, reqSim : Nat, reqWall : Nat, remaining : Int, worldRemaining : Int,
         reset : BOOLEAN, stop : BOOLEAN, stamp : Int, anchor : Int, nonce : Nat, seq : Nat,
         active : Digest, goalSeq : Nat, admitted : Digest, admittedSeq : Nat,
         holding : BOOLEAN, expired : BOOLEAN, goal : {"none", "future", "handle", "cancel"},
         sent : Digest, failed : BOOLEAN]

Token == [kind : Kind, nonce : Nat, seq : Nat, sim : Nat, wall : Nat, simEnd : Int,
          wallEnd : Int, digest : Digest]

Controller == [nonce : Nat, seq : Nat, locked : BOOLEAN, grant : Token, expired : BOOLEAN,
               active : Digest, pending : Nat, admitted : Digest, admittedSeq : Nat,
               holding : BOOLEAN, wasHolding : BOOLEAN, resetRequested : BOOLEAN,
               cutoff : Nat, goal : Digest, succeeded : Digest]

LeaseTypeOK ==
  /\ sim \in Nat /\ wall \in Nat
  /\ eng \in Engine
  /\ gate \in Node
  /\ wire \in SUBSET Token
  /\ ctl \in Controller
  /\ starts \in [Goal -> Nat]

\* A positive token ends within the authority it was signed under.
Bounded(t, n, e) ==
  t.kind # "stop" =>
    /\ t.simEnd <= n.stamp + WorldMaxAge
    /\ t.wallEnd <= n.anchor + WorldMaxAge
    /\ t.digest \in Goal => t.simEnd <= e.expires[t.digest]

\* What the node n has signed for the engine e, as far as it is still on the wire w.
Issued(n, w, e) ==
  /\ \A t \in w : Bounded(t, n, e) /\ t.nonce <= n.nonce
  /\ \A t \in w : t.kind = "goal" => t.digest = n.sent /\ n.sent # Idle
  /\ \A t, u \in w : t.kind = "goal" /\ u.kind = "goal" => t = u

\* The node n follows a goal of the engine e as long as it has one under way.
Ready(n, e) ==
  /\ n.active # Idle => n.nonce # 0
  /\ n.goal = "none" <=> n.sent = Idle
  /\ n.sent # Idle => e.expires[n.sent] # 0

\* The node renews nothing that the engine has given up.
Agrees(n, e) == Ready(n, e) /\ (n.active # Idle => n.active = e.active)

\* The clocks of the node.
Clocks ==
  /\ gate.anchor <= wall
  /\ gate.asked => gate.anchor <= gate.reqWall /\ gate.reqWall <= wall

\* The controller has received a goal that it has not accepted yet.
Pending(c) == c.pending \notin {0, c.admittedSeq}

\* An unlocked guard holds a positive grant for what it calls active.
Granted(c, n, e) ==
  ~c.locked => c.grant.kind # "stop" /\ Bounded(c.grant, n, e) /\ c.grant.digest = c.active

\* What an unlocked controller follows is what it calls active.
Follows(c) == c.goal # Idle /\ ~c.resetRequested /\ ~c.locked => c.goal = c.active

\* The controller has nothing of another goal than the one the node has sent.
Outstanding(c, n) ==
  /\ c.goal # Idle => c.goal = n.sent
  /\ Pending(c) => c.active = n.sent /\ n.sent # Idle

\* A goal that could still be started has not been started.
Unstarted(c, w, st) ==
  /\ Pending(c) => st[c.active] = 0
  /\ \A t \in w : t.kind = "goal" /\ t.nonce = c.nonce /\ t.seq > c.seq
                    => st[t.digest] = 0 /\ ~Pending(c)

Counted ==
  /\ \A d \in Goal : starts[d] <= 1
  /\ \A d \in Goal : eng.expires[d] = 0 => starts[d] = 0

LeaseInv ==
  /\ LeaseTypeOK
  /\ Clocks
  /\ Issued(gate, wire, eng)
  /\ Agrees(gate, eng)
  /\ gate.nonce <= ctl.nonce /\ ctl.nonce # 0
  /\ Granted(ctl, gate, eng)
  /\ Follows(ctl)
  /\ Outstanding(ctl, gate)
  /\ Unstarted(ctl, wire, starts)
  /\ Counted

-----------------------------------------------------------------------------
(* The node and the wire.                                                  *)

Pair == [gate : Node, wire : SUBSET Token]

\* What stopping may do to the node and the wire.
Stopped(y, x) ==
  /\ y \in Pair
  /\ y.gate.stamp = x.gate.stamp /\ y.gate.anchor = x.gate.anchor
  /\ y.gate.nonce = x.gate.nonce /\ y.gate.sent = x.gate.sent
  /\ y.gate.reqSim = x.gate.reqSim /\ y.gate.reqWall = x.gate.reqWall
  /\ y.gate.remaining = x.gate.remaining /\ y.gate.asked = x.gate.asked
  /\ y.gate.goal = "none" <=> x.gate.goal = "none"
  /\ y.gate.active \in {Idle, x.gate.active}
  /\ x.gate.nonce # 0 => y.gate.active = Idle
  /\ \A t \in y.wire : t \in x.wire \/ (t.kind = "stop" /\ t.nonce = x.gate.nonce)

\* The constants have the types the proofs need.
LEMMA ConstantTypes ==
  /\ Window \in Nat /\ Lease \in Nat /\ WorldMaxAge \in Nat /\ WorldMaxAge > 0
  /\ Backdate \in Nat /\ Settle \in Nat /\ Start \in Nat /\ None \in Int
  /\ Idle \in Digest /\ Idle \notin Goal /\ Goal \subseteq Nat
  BY PermitAssumption DEF Idle, Goal, Digest, None

\* A token is added, and it ends no later than what is left from its origin
\* (PermitSigner.sign).
LEMMA SentAdds ==
  ASSUME NEW x \in Pair, NEW k \in Kind, NEW d \in Digest, NEW s \in Nat, NEW l \in Int, NEW w \in Nat
  PROVE  \E t \in Token :
           /\ Sent(x, k, d, s, l, w) = [gate |-> [x.gate EXCEPT !.seq = x.gate.seq + 1],
                                        wire |-> x.wire \cup {t}]
           /\ t.kind = k /\ t.digest = d /\ t.nonce = x.gate.nonce
           /\ t.simEnd <= s + l /\ t.wallEnd <= w + l
<1> DEFINE from == Greatest(0, s - Backdate)
           end  == Least(Lease, l)
           t == [kind |-> k, nonce |-> x.gate.nonce, seq |-> x.gate.seq + 1, sim |-> from,
                 wall |-> w, simEnd |-> from + end, wallEnd |-> w + end, digest |-> d]
<1>1. /\ from \in Nat /\ from <= s /\ end \in Int /\ end <= l
  BY ConstantTypes DEF Greatest, Least
<1>2. x.gate.nonce \in Nat /\ x.gate.seq \in Nat
  BY DEF Pair, Node
<1>3. Sent(x, k, d, s, l, w) = [gate |-> [x.gate EXCEPT !.seq = x.gate.seq + 1],
                                wire |-> x.wire \cup {t}]
  BY DEF Sent
<1> HIDE DEF from, end
<1>4. /\ t \in Token /\ t.kind = k /\ t.digest = d /\ t.nonce = x.gate.nonce
      /\ t.simEnd <= s + l /\ t.wallEnd <= w + l
  BY <1>1, <1>2 DEF Token
<1>5. QED
  BY <1>3, <1>4

\* A change of the node's sequence number and of nothing else.
LEMMA SeqNode ==
  ASSUME NEW n \in Node
  PROVE  LET m == [n EXCEPT !.seq = n.seq + 1]
         IN  /\ m \in Node
             /\ m.stamp = n.stamp /\ m.anchor = n.anchor /\ m.nonce = n.nonce
             /\ m.active = n.active /\ m.goal = n.goal /\ m.sent = n.sent
             /\ m.reqSim = n.reqSim /\ m.reqWall = n.reqWall /\ m.remaining = n.remaining
             /\ m.asked = n.asked
  BY DEF Node

\* Stopping again is stopping.
LEMMA StoppedTwice ==
  ASSUME NEW x, NEW y, NEW z, Stopped(y, x), Stopped(z, y) PROVE Stopped(z, x)
  BY DEF Stopped

\* A signed stop is all that _cancel_arm puts on the wire.
LEMMA CancelStops ==
  ASSUME NEW x \in Pair, sim \in Nat, wall \in Nat PROVE Stopped(CancelArm(x), x)
<1>1. CASE x.gate.nonce = 0
  BY <1>1 DEF CancelArm, Stopped
<1>2. CASE x.gate.nonce # 0
  <2>1. "stop" \in Kind /\ Lease \in Int /\ Idle \in Digest
    BY ConstantTypes DEF Kind
  <2>2. PICK t \in Token :
          /\ Sent(x, "stop", Idle, sim, Lease, wall) =
               [gate |-> [x.gate EXCEPT !.seq = x.gate.seq + 1], wire |-> x.wire \cup {t}]
          /\ t.kind = "stop" /\ t.nonce = x.gate.nonce
    BY <2>1, SentAdds
  <2> DEFINE n == [x.gate EXCEPT !.seq = x.gate.seq + 1]
             g == IF n.goal = "none" THEN n.goal ELSE "cancel"
             m == [n EXCEPT !.active = Idle, !.goalSeq = 0, !.goal = g]
  <2>3. /\ n \in Node
        /\ n.stamp = x.gate.stamp /\ n.anchor = x.gate.anchor /\ n.nonce = x.gate.nonce
        /\ n.active = x.gate.active /\ n.goal = x.gate.goal /\ n.sent = x.gate.sent
        /\ n.reqSim = x.gate.reqSim /\ n.reqWall = x.gate.reqWall
        /\ n.remaining = x.gate.remaining /\ n.asked = x.gate.asked
    BY SeqNode DEF Pair
  <2> DEFINE y == Sent(x, "stop", Idle, sim, Lease, wall)
  <2>4. CancelArm(x) = [gate |-> m, wire |-> x.wire \cup {t}]
    <3>1. y.gate = n /\ y.wire = x.wire \cup {t}
      BY <2>2
    <3>2. CancelArm(x) = With(y, [y.gate EXCEPT !.active = Idle, !.goalSeq = 0,
                                  !.goal = IF y.gate.goal = "none" THEN y.gate.goal ELSE "cancel"])
      BY <1>2 DEF CancelArm
    <3> HIDE DEF y, n
    <3>3. QED
      BY <3>1, <3>2 DEF With
  <2> HIDE DEF n
  <2>5. /\ m \in Node
        /\ m.stamp = n.stamp /\ m.anchor = n.anchor /\ m.nonce = n.nonce
        /\ m.active = Idle /\ m.goal = g /\ m.sent = n.sent
        /\ m.reqSim = n.reqSim /\ m.reqWall = n.reqWall /\ m.remaining = n.remaining
        /\ m.asked = n.asked
    BY <2>1, <2>3 DEF Node
  <2>6. g = "none" <=> n.goal = "none"
    OBVIOUS
  <2> HIDE DEF m, g
  <2>7. [gate |-> m, wire |-> x.wire \cup {t}] \in Pair
    BY <2>2, <2>5 DEF Pair
  <2>8. QED
    BY <2>2, <2>3, <2>4, <2>5, <2>6, <2>7 DEF Stopped
<1>3. QED
  BY <1>1, <1>2

\* The node as the proofs see it, unchanged.
Same(n, m) ==
  /\ n \in Node
  /\ n.stamp = m.stamp /\ n.anchor = m.anchor /\ n.nonce = m.nonce
  /\ n.active = m.active /\ n.goal = m.goal /\ n.sent = m.sent
  /\ n.reqSim = m.reqSim /\ n.reqWall = m.reqWall /\ n.remaining = m.remaining
  /\ n.asked = m.asked

\* The flags say nothing of that.
LEMMA FlagsSame ==
  ASSUME NEW n \in Node
  PROVE  /\ Same([n EXCEPT !.reset = FALSE, !.stop = TRUE], n)
         /\ Same([n EXCEPT !.failed = TRUE], n)
  BY DEF Node, Same

\* Stopping may begin and end with a change of the flags.
LEMMA StoppedFlags ==
  ASSUME NEW x \in Pair, NEW n, NEW y
  PROVE  /\ Same(n, x.gate) => With(x, n) \in Pair /\ (Stopped(y, With(x, n)) => Stopped(y, x))
         /\ Stopped(y, x) /\ Same(n, y.gate) => Stopped(With(y, n), x)
<1>1. ASSUME Same(n, x.gate) PROVE With(x, n) \in Pair
  BY <1>1 DEF Same, With, Pair
<1>2. ASSUME Same(n, x.gate), Stopped(y, With(x, n)) PROVE Stopped(y, x)
  <2>1. With(x, n).gate = n /\ With(x, n).wire = x.wire
    BY DEF With
  <2>2. QED
    BY <1>2, <2>1 DEF Same, Stopped
<1>3. ASSUME Stopped(y, x), Same(n, y.gate) PROVE Stopped(With(y, n), x)
  <2>1. With(y, n).gate = n /\ With(y, n).wire = y.wire
    BY DEF With
  <2>2. With(y, n) \in Pair
    BY <1>3 DEF With, Stopped, Same, Pair
  <2>3. QED
    BY <1>3, <2>1, <2>2 DEF Same, Stopped
<1>4. QED
  BY <1>1, <1>2, <1>3

\* A failure stops (_abort).
LEMMA AbortStops ==
  ASSUME NEW x \in Pair, sim \in Nat, wall \in Nat PROVE Stopped(AbortedGate(x), x)
<1> DEFINE n == [x.gate EXCEPT !.reset = FALSE, !.stop = TRUE]
           y == CancelArm(With(x, n))
           m == [y.gate EXCEPT !.failed = TRUE]
<1>1. Same(n, x.gate)
  BY FlagsSame DEF Pair
<1>2. AbortedGate(x) = With(y, m)
  BY DEF AbortedGate
<1> HIDE DEF n
<1>3. With(x, n) \in Pair
  BY <1>1, StoppedFlags
<1>4. Stopped(y, With(x, n))
  BY <1>3, CancelStops
<1> HIDE DEF y
<1>5. Stopped(y, x)
  BY <1>1, <1>4, StoppedFlags
<1>6. Same(m, y.gate)
  BY <1>5, FlagsSame DEF Stopped, Pair
<1> HIDE DEF m
<1>7. QED
  BY <1>2, <1>5, <1>6, StoppedFlags

\* Expired authority stops (the handler of ExpiredActuation in _receive).
LEMMA ExpiryStops ==
  ASSUME NEW x \in Pair, NEW e, sim \in Nat, wall \in Nat PROVE Stopped(ExpiredGate(x, e), x)
<1> DEFINE y == CancelArm(x)
           m == [y.gate EXCEPT !.reset = FALSE, !.stop = TRUE]
           z == With(y, m)
<1>1. ExpiredGate(x, e) = IF e.active # Idle THEN CancelArm(z) ELSE z
  BY DEF ExpiredGate
<1>2. Stopped(y, x)
  BY CancelStops
<1> HIDE DEF y
<1>3. Same(m, y.gate)
  BY <1>2, FlagsSame DEF Stopped, Pair
<1> HIDE DEF m
<1>4. Stopped(z, x)
  BY <1>2, <1>3, StoppedFlags
<1> HIDE DEF z
<1>5. Stopped(CancelArm(z), z)
  BY <1>4, CancelStops DEF Stopped
<1>6. Stopped(CancelArm(z), x)
  BY <1>4, <1>5, StoppedTwice
<1>7. QED
  BY <1>1, <1>4, <1>6

\* What a permit of the node n may end at (_permit: request clocks and remaining).
WithinRequest(t, n) ==
  t.simEnd <= n.reqSim + n.remaining /\ t.wallEnd <= n.reqWall + n.remaining

\* A permit (_permit).
LEMMA PermitAdds ==
  ASSUME NEW x \in Pair, NEW k \in Kind, NEW d \in Digest
  PROVE  \E t \in Token :
           /\ SignedPermit(x, k, d) = [gate |-> [x.gate EXCEPT !.seq = x.gate.seq + 1],
                                       wire |-> x.wire \cup {t}]
           /\ t.kind = k /\ t.digest = d /\ t.nonce = x.gate.nonce
           /\ WithinRequest(t, x.gate)
<1>1. x.gate.reqSim \in Nat /\ x.gate.remaining \in Int /\ x.gate.reqWall \in Nat
  BY DEF Pair, Node
<1> DEFINE s == x.gate.reqSim
           l == x.gate.remaining
           w == x.gate.reqWall
<1>2. s \in Nat /\ l \in Int /\ w \in Nat
  BY <1>1
<1>3. SignedPermit(x, k, d) = Sent(x, k, d, s, l, w)
  BY DEF SignedPermit
<1>4. ASSUME NEW t PROVE WithinRequest(t, x.gate) <=> t.simEnd <= s + l /\ t.wallEnd <= w + l
  BY DEF WithinRequest
<1> HIDE DEF s, l, w
<1>5. \E t \in Token :
        /\ Sent(x, k, d, s, l, w) = [gate |-> [x.gate EXCEPT !.seq = x.gate.seq + 1],
                                     wire |-> x.wire \cup {t}]
        /\ t.kind = k /\ t.digest = d /\ t.nonce = x.gate.nonce
        /\ t.simEnd <= s + l /\ t.wallEnd <= w + l
  BY <1>2, SentAdds
<1>6. QED
  BY <1>3, <1>4, <1>5

\* The goal token (_execute_arm).
LEMMA ExecuteSends ==
  ASSUME NEW x \in Pair, NEW d \in Goal
  PROVE  LET y == ExecuteArm(x, d)
         IN  /\ y \in Pair
             /\ y.gate.stamp = x.gate.stamp /\ y.gate.anchor = x.gate.anchor
             /\ y.gate.nonce = x.gate.nonce /\ y.gate.sent = d
             /\ y.gate.active = d /\ y.gate.goal = "future"
             /\ \E t \in Token : /\ y.wire = x.wire \cup {t}
                                 /\ t.kind = "goal" /\ t.digest = d /\ t.nonce = x.gate.nonce
                                 /\ WithinRequest(t, x.gate)
<1> DEFINE n == [x.gate EXCEPT !.active = d]
           u == With(x, n)
           y == SignedPermit(u, "goal", d)
           m == [y.gate EXCEPT !.goalSeq = y.gate.seq, !.goal = "future", !.sent = d]
<1>1. /\ d \in Digest /\ "goal" \in Kind
  BY DEF Digest, Kind
<1>2. /\ n \in Node /\ n.reqSim = x.gate.reqSim /\ n.remaining = x.gate.remaining
      /\ n.reqWall = x.gate.reqWall /\ n.nonce = x.gate.nonce /\ n.stamp = x.gate.stamp
      /\ n.anchor = x.gate.anchor
      /\ n.reqSim \in Nat /\ n.remaining \in Int /\ n.reqWall \in Nat
  BY <1>1 DEF Pair, Node
<1>3. ExecuteArm(x, d) = With(y, m)
  BY DEF ExecuteArm
<1>4. u.gate = n /\ u.wire = x.wire
  BY DEF With
<1> HIDE DEF n
<1>5. u \in Pair
  BY <1>2 DEF With, Pair
<1>6. PICK t \in Token :
        /\ y = [gate |-> [u.gate EXCEPT !.seq = u.gate.seq + 1], wire |-> u.wire \cup {t}]
        /\ t.kind = "goal" /\ t.digest = d /\ t.nonce = u.gate.nonce
        /\ WithinRequest(t, u.gate)
  BY <1>1, <1>5, PermitAdds
<1> DEFINE v == [n EXCEPT !.seq = n.seq + 1]
<1>7. /\ v \in Node /\ v.stamp = n.stamp /\ v.anchor = n.anchor /\ v.nonce = n.nonce
  BY <1>2, SeqNode
<1>8. y.gate = v /\ y.wire = x.wire \cup {t}
  BY <1>4, <1>6
<1> HIDE DEF u, y, v
<1>9. /\ m \in Node /\ m.stamp = v.stamp /\ m.anchor = v.anchor /\ m.nonce = v.nonce
       /\ m.active = v.active /\ m.goal = "future" /\ m.sent = d
  BY <1>1, <1>7, <1>8 DEF Node
<1>10. v.active = d
  BY <1>1, <1>2 DEF v, n, Node, Pair
<1> HIDE DEF m
<1>11. With(y, m) \in Pair /\ With(y, m).gate = m /\ With(y, m).wire = y.wire
  BY <1>8, <1>9 DEF With, Pair
<1>12. WithinRequest(t, x.gate)
  BY <1>2, <1>4, <1>6 DEF WithinRequest
<1>13. QED
  BY <1>2, <1>3, <1>4, <1>6, <1>7, <1>8, <1>9, <1>10, <1>11, <1>12

\* A lease or a reset (_heartbeat).
LEMMA HeartbeatSends ==
  ASSUME NEW x \in Pair
  PROVE  LET y == Heartbeat(x)
         IN  /\ y \in Pair
             /\ y.gate.stamp = x.gate.stamp /\ y.gate.anchor = x.gate.anchor
             /\ y.gate.nonce = x.gate.nonce /\ y.gate.sent = x.gate.sent
             /\ y.gate.goal = x.gate.goal
             /\ y.gate.active \in {Idle, x.gate.active}
             /\ \E t \in Token : /\ y.wire = x.wire \cup {t}
                                 /\ t.kind \in {"lease", "reset"}
                                 /\ t.digest \in {Idle, x.gate.active} /\ t.nonce = x.gate.nonce
                                 /\ WithinRequest(t, x.gate)
<1> DEFINE n == x.gate
           k == IF n.reset THEN "reset" ELSE "lease"
           d == IF n.reset THEN Idle ELSE n.active
           y == SignedPermit(x, k, d)
           m == [y.gate EXCEPT !.active = Idle, !.goalSeq = 0]
<1>1. /\ d \in Digest /\ k \in Kind /\ d \in {Idle, n.active} /\ k \in {"lease", "reset"}
      /\ n \in Node /\ n.reqSim \in Nat /\ n.remaining \in Int /\ n.reqWall \in Nat
      /\ Idle \in Digest
  BY ConstantTypes DEF Pair, Node, Kind
<1>2. Heartbeat(x) = IF n.reset THEN With(y, m) ELSE y
  BY DEF Heartbeat
<1> HIDE DEF k, d
<1>3. PICK t \in Token :
        /\ y = [gate |-> [n EXCEPT !.seq = n.seq + 1], wire |-> x.wire \cup {t}]
        /\ t.kind = k /\ t.digest = d /\ t.nonce = n.nonce
        /\ WithinRequest(t, n)
  BY <1>1, PermitAdds
<1> DEFINE v == [n EXCEPT !.seq = n.seq + 1]
<1>4. /\ v \in Node /\ v.stamp = n.stamp /\ v.anchor = n.anchor /\ v.nonce = n.nonce
      /\ v.active = n.active /\ v.goal = n.goal /\ v.sent = n.sent
  BY <1>1, SeqNode
<1>5. y.gate = v /\ y.wire = x.wire \cup {t}
  BY <1>3
<1>6. y \in Pair
  BY <1>3, <1>4 DEF Pair
<1> HIDE DEF y, v, n
<1>7. /\ m \in Node /\ m.stamp = v.stamp /\ m.anchor = v.anchor /\ m.nonce = v.nonce
      /\ m.active = Idle /\ m.goal = v.goal /\ m.sent = v.sent
  BY <1>1, <1>4, <1>5 DEF Node
<1> HIDE DEF m
<1>8. With(y, m) \in Pair /\ With(y, m).gate = m /\ With(y, m).wire = y.wire
  BY <1>5, <1>6, <1>7 DEF With, Pair
<1>9. WithinRequest(t, n)
  BY <1>3
<1> DEFINE h == Heartbeat(x)
<1>10. /\ h \in Pair
       /\ h.gate.stamp = n.stamp /\ h.gate.anchor = n.anchor
       /\ h.gate.nonce = n.nonce /\ h.gate.sent = n.sent
       /\ h.gate.goal = n.goal /\ h.gate.active \in {Idle, n.active}
       /\ h.wire = x.wire \cup {t}
  BY <1>2, <1>4, <1>5, <1>6, <1>7, <1>8
<1>11. t.kind \in {"lease", "reset"} /\ t.digest \in {Idle, n.active} /\ t.nonce = n.nonce
  BY <1>1, <1>3
<1>12. QED
  BY <1>9, <1>10, <1>11 DEF n

\* What is left of every authority at the request (_receive).
LEMMA RemainingBounds ==
  ASSUME NEW n \in Node, NEW e \in Engine
  PROVE  /\ Remaining(n, e) \in Int /\ WorldRemaining(n) \in Int
         /\ Remaining(n, e) > 0 =>
              /\ n.reqSim + Remaining(n, e) <= n.stamp + WorldMaxAge
              /\ n.reqWall + Remaining(n, e) <= n.anchor + WorldMaxAge
              /\ e.active \in Goal => n.reqSim + Remaining(n, e) <= e.expires[e.active]
<1>1. /\ n.reqSim \in Int /\ n.reqWall \in Int /\ n.stamp \in Int /\ n.anchor \in Int
      /\ e.world \in Int /\ e.active \in Digest
      /\ e.active # Idle => e.active \in Goal
      /\ e.active \in Goal => e.expires[e.active] \in Int
  BY DEF Node, Engine, Digest
<1> DEFINE r == WorldRemaining(n)
           own == LET age   == IF e.world = None THEN 0 ELSE n.reqSim - e.world
                      lease == Least(Lease, WorldMaxAge - age)
                  IN  IF e.active = Idle THEN lease
                      ELSE Least(lease, e.expires[e.active] - n.reqSim)
<1>2. r \in Int /\ (r > 0 => /\ n.reqSim + r <= n.stamp + WorldMaxAge
                             /\ n.reqWall + r <= n.anchor + WorldMaxAge)
  BY <1>1, ConstantTypes DEF WorldRemaining, Greatest, Least
<1>3. own \in Int /\ (e.active \in Goal => n.reqSim + own <= e.expires[e.active])
  <2> DEFINE age   == IF e.world = None THEN 0 ELSE n.reqSim - e.world
             lease == Least(Lease, WorldMaxAge - age)
  <2>0. age \in Int
    BY <1>1
  <2>1. lease \in Int
    <3> HIDE DEF age
    <3>1. QED
      BY <2>0, ConstantTypes DEF Least
  <2>2. own = IF e.active = Idle THEN lease ELSE Least(lease, e.expires[e.active] - n.reqSim)
    OBVIOUS
  <2> HIDE DEF lease, own
  <2>3. CASE e.active = Idle
    BY <2>1, <2>2, <2>3, ConstantTypes
  <2>4. CASE e.active # Idle
    BY <1>1, <2>1, <2>2, <2>4 DEF Least
  <2>5. QED
    BY <2>3, <2>4
<1>4. Remaining(n, e) = Least(own, r)
  BY DEF Remaining
<1> HIDE DEF r, own
<1>5. Least(own, r) \in Int /\ Least(own, r) <= own /\ Least(own, r) <= r
  BY <1>2, <1>3 DEF Least
<1> DEFINE q == Remaining(n, e)
<1>6. q \in Int /\ q <= own /\ q <= r
  BY <1>4, <1>5
<1> HIDE DEF q
<1>7. q > 0 => /\ n.reqSim + q <= n.stamp + WorldMaxAge
               /\ n.reqWall + q <= n.anchor + WorldMaxAge
               /\ e.active \in Goal => n.reqSim + q <= e.expires[e.active]
  BY <1>1, <1>2, <1>3, <1>6, ConstantTypes
<1>8. QED
  BY <1>2, <1>6, <1>7 DEF q, r

\* A permit ends within the authority that was left (_permit).
LEMMA RequestBounds ==
  ASSUME NEW n \in Node, NEW e \in Engine, n.remaining > 0,
         /\ n.reqSim + n.remaining <= n.stamp + WorldMaxAge
         /\ n.reqWall + n.remaining <= n.anchor + WorldMaxAge
         /\ e.active \in Goal => n.reqSim + n.remaining <= e.expires[e.active],
         NEW t \in Token, WithinRequest(t, n), t.digest \in {Idle, e.active}
  PROVE  Bounded(t, n, e)
<1>1. /\ n.reqSim \in Int /\ n.reqWall \in Int /\ n.stamp \in Int /\ n.anchor \in Int
      /\ n.remaining \in Int /\ t.simEnd \in Int /\ t.wallEnd \in Int
  BY DEF Node, Token
<1>2. t.digest \in Goal => t.digest = e.active /\ e.expires[t.digest] \in Int
  <2>1. t.digest \in {Idle, e.active} /\ Idle \notin Goal
    BY ConstantTypes
  <2>2. \A d \in Goal : e.expires[d] \in Int
    BY DEF Engine
  <2>3. QED
    BY <2>1, <2>2
<1>3. QED
  BY <1>1, <1>2, ConstantTypes DEF WithinRequest, Bounded

\* The authority of a later world or engine holds what the earlier one signed.
LEMMA BoundedLater ==
  ASSUME NEW n \in Node, NEW m \in Node, NEW e \in Engine, NEW f \in Engine,
         n.stamp <= m.stamp, n.anchor <= m.anchor,
         \A d \in Goal : e.expires[d] <= f.expires[d],
         NEW t \in Token, Bounded(t, n, e)
  PROVE  Bounded(t, m, f)
<1>1. /\ n.stamp \in Int /\ n.anchor \in Int /\ m.stamp \in Int /\ m.anchor \in Int
      /\ t.simEnd \in Int /\ t.wallEnd \in Int
  BY DEF Node, Token
<1>2. \A d \in Goal : e.expires[d] \in Int /\ f.expires[d] \in Int
  BY DEF Engine
<1>3. ASSUME t.kind # "stop"
      PROVE  /\ t.simEnd <= m.stamp + WorldMaxAge /\ t.wallEnd <= m.anchor + WorldMaxAge
             /\ t.digest \in Goal => t.simEnd <= f.expires[t.digest]
  <2>1. /\ t.simEnd <= n.stamp + WorldMaxAge /\ t.wallEnd <= n.anchor + WorldMaxAge
        /\ t.digest \in Goal => t.simEnd <= e.expires[t.digest]
    BY <1>3 DEF Bounded
  <2>2. /\ n.stamp <= m.stamp /\ n.anchor <= m.anchor
        /\ \A d \in Goal : e.expires[d] <= f.expires[d]
    OBVIOUS
  <2>3. t.digest \in Goal => t.simEnd <= f.expires[t.digest]
    BY <1>1, <1>2, <2>1, <2>2
  <2>4. QED
    BY <1>1, <2>1, <2>2, <2>3, ConstantTypes
<1>4. QED
  BY <1>3 DEF Bounded

LEMMA IssuedLater ==
  ASSUME NEW n \in Node, NEW m \in Node, NEW e \in Engine, NEW f \in Engine,
         NEW w \in SUBSET Token, Issued(n, w, e),
         n.stamp <= m.stamp, n.anchor <= m.anchor, n.nonce <= m.nonce, n.sent = m.sent,
         \A d \in Goal : e.expires[d] <= f.expires[d]
  PROVE  Issued(m, w, f)
<1>1. ASSUME NEW t \in w PROVE Bounded(t, m, f)
  BY BoundedLater DEF Issued
<1>2. ASSUME NEW t \in w PROVE t.nonce <= m.nonce
  BY DEF Issued, Node, Token
<1>3. QED
  BY <1>1, <1>2 DEF Issued

\* Whoever stops has nothing left to renew, and signs nothing that could be started.
LEMMA StoppedKeeps ==
  ASSUME NEW x \in Pair, NEW y, NEW e \in Engine, Stopped(y, x),
         Issued(x.gate, x.wire, e), Ready(x.gate, e)
  PROVE  /\ Issued(y.gate, y.wire, e) /\ Agrees(y.gate, e)
         /\ \A t \in y.wire : t.kind = "goal" => t \in x.wire
<1>1. x.gate \in Node /\ y.gate \in Node
  BY DEF Pair, Stopped
<1>2. \A t \in y.wire : t.kind = "goal" => t \in x.wire
  BY DEF Stopped
<1>3. ASSUME NEW t \in y.wire PROVE Bounded(t, y.gate, e) /\ t.nonce <= y.gate.nonce
  <2>1. CASE t \in x.wire
    BY <2>1 DEF Stopped, Issued, Bounded
  <2>2. CASE t.kind = "stop" /\ t.nonce = x.gate.nonce
    BY <1>1, <2>2 DEF Stopped, Bounded, Node
  <2>3. QED
    BY <2>1, <2>2 DEF Stopped
<1>4. Issued(y.gate, y.wire, e)
  BY <1>2, <1>3 DEF Issued, Stopped
<1>5. y.gate.active = Idle
  BY DEF Ready, Stopped
<1>6. QED
  BY <1>2, <1>4, <1>5 DEF Agrees, Ready, Stopped

-----------------------------------------------------------------------------
(* The reply of the engine.                                                *)

\* The node n still has authority of the engine e for what it signs.
Covered(n, e) ==
  /\ n.remaining > 0
  /\ n.reqSim + n.remaining <= n.stamp + WorldMaxAge
  /\ n.reqWall + n.remaining <= n.anchor + WorldMaxAge
  /\ e.active \in Goal => n.reqSim + n.remaining <= e.expires[e.active]

\* A signed token ends within that.
LEMMA CoveredSigns ==
  ASSUME NEW n \in Node, NEW e \in Engine, Covered(n, e),
         NEW t \in Token, WithinRequest(t, n), t.digest \in {Idle, e.active}
  PROVE  Bounded(t, n, e)
  BY RequestBounds DEF Covered

\* A heartbeat signs for what the engine executes, and no goal.
LEMMA HeartbeatKeeps ==
  ASSUME NEW x \in Pair, NEW e \in Engine, Covered(x.gate, e),
         Issued(x.gate, x.wire, e), Agrees(x.gate, e)
  PROVE  LET y == Heartbeat(x)
         IN  /\ Issued(y.gate, y.wire, e) /\ Agrees(y.gate, e)
             /\ \A t \in y.wire : t.kind = "goal" => t \in x.wire
<1> DEFINE y == Heartbeat(x)
<1>1. /\ y \in Pair
      /\ y.gate.stamp = x.gate.stamp /\ y.gate.anchor = x.gate.anchor
      /\ y.gate.nonce = x.gate.nonce /\ y.gate.sent = x.gate.sent
      /\ y.gate.goal = x.gate.goal /\ y.gate.active \in {Idle, x.gate.active}
  BY HeartbeatSends
<1>2. PICK t \in Token : /\ y.wire = x.wire \cup {t} /\ t.kind \in {"lease", "reset"}
                         /\ t.digest \in {Idle, x.gate.active} /\ t.nonce = x.gate.nonce
                         /\ WithinRequest(t, x.gate)
  BY HeartbeatSends
<1> HIDE DEF y
<1>3. x.gate \in Node /\ y.gate \in Node /\ x.wire \subseteq Token
  BY <1>1 DEF Pair
<1>4. t.digest \in {Idle, e.active}
  BY <1>2 DEF Agrees
<1>5. Bounded(t, x.gate, e)
  BY <1>2, <1>3, <1>4, CoveredSigns
<1>6. Issued(x.gate, y.wire, e)
  BY <1>2, <1>3, <1>5 DEF Issued, Node
<1>7. y.wire \in SUBSET Token
  BY <1>1 DEF Pair
<1>8. Issued(y.gate, y.wire, e)
  BY <1>1, <1>6 DEF Issued, Bounded
<1>9. Agrees(y.gate, e)
  BY <1>1 DEF Agrees, Ready
<1>10. \A u \in y.wire : u.kind = "goal" => u \in x.wire
  BY <1>2
<1>11. QED
  BY <1>8, <1>9, <1>10 DEF y

\* The goal that is sent is the only one.
LEMMA ExecuteKeeps ==
  ASSUME NEW x \in Pair, NEW e \in Engine, Covered(x.gate, e),
         Issued(x.gate, x.wire, e), x.gate.sent = Idle, x.gate.nonce # 0,
         e.active \in Goal, e.expires[e.active] # 0
  PROVE  LET y == ExecuteArm(x, e.active)
         IN  Issued(y.gate, y.wire, e) /\ Agrees(y.gate, e)
<1> DEFINE d == e.active
           y == ExecuteArm(x, d)
<1>1. /\ y \in Pair
      /\ y.gate.stamp = x.gate.stamp /\ y.gate.anchor = x.gate.anchor
      /\ y.gate.nonce = x.gate.nonce /\ y.gate.sent = d
      /\ y.gate.active = d /\ y.gate.goal = "future"
  BY ExecuteSends
<1>2. PICK t \in Token : /\ y.wire = x.wire \cup {t} /\ t.kind = "goal" /\ t.digest = d
                         /\ t.nonce = x.gate.nonce /\ WithinRequest(t, x.gate)
  BY ExecuteSends
<1> HIDE DEF y
<1>3. x.gate \in Node /\ y.gate \in Node /\ d # Idle
  BY <1>1, ConstantTypes DEF Pair
<1>4. Bounded(t, x.gate, e)
  BY <1>2, <1>3, CoveredSigns
<1>5. \A u \in x.wire : u.kind # "goal"
  BY DEF Issued
<1>6. \A u \in y.wire : Bounded(u, x.gate, e) /\ u.nonce <= x.gate.nonce
  BY <1>2, <1>3, <1>4 DEF Issued, Node
<1>7. \A u \in y.wire : u.kind = "goal" => u = t
  BY <1>2, <1>5
<1>8. Issued(y.gate, y.wire, e)
  BY <1>1, <1>2, <1>3, <1>6, <1>7 DEF Issued, Bounded
<1>9. Agrees(y.gate, e)
  BY <1>1, <1>3 DEF Agrees, Ready
<1>10. QED
  BY <1>8, <1>9 DEF y

\* AcceptedWorldClock.observe: neither clock goes back.
LEMMA ObservedKeeps ==
  ASSUME NEW n \in Node, NEW at \in Int
  PROVE  LET o == Observed(n, at)
         IN  /\ o \in Node /\ n.stamp <= o.stamp
             /\ n.anchor <= n.reqWall => n.anchor <= o.anchor /\ o.anchor <= n.reqWall
             /\ o.nonce = n.nonce /\ o.active = n.active /\ o.goal = n.goal /\ o.sent = n.sent
             /\ o.reqSim = n.reqSim /\ o.reqWall = n.reqWall
<1> DEFINE b == n.reqWall
<1>1. b \in Int /\ n.anchor \in Int /\ n.stamp \in Int
  BY DEF Node
<1>2. b = n.reqWall
  OBVIOUS
<1> HIDE DEF b
<1> DEFINE p == [n EXCEPT !.stamp = at, !.anchor = b]
<1>3. /\ p \in Node /\ p.stamp = at /\ p.anchor = b
      /\ p.nonce = n.nonce /\ p.active = n.active /\ p.goal = n.goal /\ p.sent = n.sent
      /\ p.reqSim = n.reqSim /\ p.reqWall = n.reqWall
  BY <1>1 DEF Node
<1>4. Observed(n, at) = IF at > n.stamp THEN p ELSE n
  BY <1>2 DEF Observed
<1> HIDE DEF p
<1>5. QED
  BY <1>1, <1>2, <1>3, <1>4

\* And authority that is left is left of the world and of the proposal.
LEMMA RepliedNode ==
  ASSUME NEW n \in Node, NEW e \in Engine, NEW at \in Int, NEW rearm \in BOOLEAN
  PROVE  LET m == Replied(n, e, at, rearm)
         IN  /\ m \in Node
             /\ n.stamp <= m.stamp
             /\ n.anchor <= n.reqWall => n.anchor <= m.anchor /\ m.anchor <= n.reqWall
             /\ m.nonce = n.nonce /\ m.active = n.active /\ m.goal = n.goal /\ m.sent = n.sent
             /\ m.remaining > 0 => Covered(m, e)
<1> DEFINE o == Observed(n, at)
           r == Remaining(o, e)
           w == WorldRemaining(o)
           s == ~e.armed
           m == [o EXCEPT !.remaining = r, !.worldRemaining = w, !.reset = rearm, !.stop = s]
<1>1. /\ o \in Node /\ n.stamp <= o.stamp
      /\ n.anchor <= n.reqWall => n.anchor <= o.anchor /\ o.anchor <= n.reqWall
      /\ o.nonce = n.nonce /\ o.active = n.active /\ o.goal = n.goal /\ o.sent = n.sent
      /\ o.reqSim = n.reqSim /\ o.reqWall = n.reqWall
  BY ObservedKeeps
<1> HIDE DEF o
<1>2. /\ r \in Int /\ w \in Int
      /\ r > 0 => /\ o.reqSim + r <= o.stamp + WorldMaxAge
                  /\ o.reqWall + r <= o.anchor + WorldMaxAge
                  /\ e.active \in Goal => o.reqSim + r <= e.expires[e.active]
  BY <1>1, RemainingBounds
<1>3. s \in BOOLEAN
  OBVIOUS
<1> HIDE DEF r, w, s
<1>4. /\ m \in Node
      /\ m.stamp = o.stamp /\ m.anchor = o.anchor /\ m.nonce = o.nonce /\ m.active = o.active
      /\ m.goal = o.goal /\ m.sent = o.sent /\ m.remaining = r
      /\ m.reqSim = o.reqSim /\ m.reqWall = o.reqWall
  BY <1>1, <1>2, <1>3 DEF Node
<1>5. Replied(n, e, at, rearm) = m
  BY DEF Replied, m, o, r, w, s
<1> HIDE DEF m
<1>6. m.remaining > 0 => Covered(m, e)
  BY <1>2, <1>4 DEF Covered
<1>7. QED
  BY <1>1, <1>4, <1>5, <1>6

\* The orders the engine e may reply with.
Ordered(e, arm) ==
  /\ arm \in {"none", "cancel", "execute"}
  /\ arm = "none" => e.active = eng.active /\ e.expires = eng.expires
  /\ arm = "cancel" => e.active = Idle /\ e.expires = eng.expires
  /\ arm = "execute" => /\ e.active \in Goal /\ eng.expires[e.active] = 0
                        /\ e.expires[e.active] # 0
                        /\ \A d \in Goal \ {e.active} : e.expires[d] = eng.expires[d]

\* What the handling of a reply leaves of the invariant, whatever comes of it.
Handled ==
  /\ gate' \in Node /\ eng' \in Engine /\ wire' \in SUBSET Token
  /\ Issued(gate', wire', eng') /\ Agrees(gate', eng')
  /\ gate'.nonce = gate.nonce /\ ~gate'.asked
  /\ gate.stamp <= gate'.stamp /\ gate.anchor <= gate'.anchor /\ gate'.anchor <= wall
  /\ \A d \in Goal : eng.expires[d] <= eng'.expires[d]
  /\ \/ gate'.sent = gate.sent /\ \A t \in wire' : t.kind = "goal" => t \in wire
     \/ gate.sent = Idle /\ gate'.sent \in Goal /\ eng.expires[gate'.sent] = 0

\* The node after the reply.
LEMMA RestedNode ==
  ASSUME NEW n \in Node
  PROVE  /\ Rested(n) \in Node /\ ~Rested(n).asked
         /\ Rested(n).stamp = n.stamp /\ Rested(n).anchor = n.anchor
         /\ Rested(n).nonce = n.nonce /\ Rested(n).active = n.active
         /\ Rested(n).goal = n.goal /\ Rested(n).sent = n.sent
<1> DEFINE f == FALSE
           t == TRUE
           a == 0
           b == 0
           m == [n EXCEPT !.asked = f, !.reqSim = a, !.reqWall = a, !.remaining = b,
                          !.worldRemaining = b, !.reset = f, !.stop = t]
<1>1. Rested(n) = m
  BY DEF Rested
<1>2. f \in BOOLEAN /\ t \in BOOLEAN /\ a \in Nat /\ b \in Int /\ ~f
  OBVIOUS
<1> HIDE DEF f, t, a, b
<1>3. /\ m \in Node /\ m.asked = f
      /\ m.stamp = n.stamp /\ m.anchor = n.anchor /\ m.nonce = n.nonce
      /\ m.active = n.active /\ m.goal = n.goal /\ m.sent = n.sent
  BY <1>2 DEF Node
<1> HIDE DEF m
<1>4. QED
  BY <1>1, <1>2, <1>3

\* Every way out of _receive from the reply on.
LEMMA ServesEnds ==
  ASSUME NEW e \in Engine, NEW at \in Int, NEW rearm \in BOOLEAN,
         NEW arm \in {"none", "cancel", "execute"}, arm = "execute" => e.active \in Goal,
         gate \in Node, wire \in SUBSET Token, Serves(e, at, arm, rearm)
  PROVE  LET m == Replied(gate, e, at, rearm)
             got == [gate |-> m, wire |-> wire]
             cancelled == CancelArm(got)
             executed == ExecuteArm(got, e.active)
         IN  \E y :
               /\ gate' = Rested(y.gate) /\ wire' = y.wire
               /\ \/ y = AbortedGate(got) /\ eng' = e
                  \/ y = ExpiredGate(got, e) /\ eng' = ExpiredEngine(e)
                  \/ arm = "cancel" /\ y = ExpiredGate(cancelled, e) /\ eng' = ExpiredEngine(e)
                  \/ /\ m.remaining > 0 /\ eng' = e
                     /\ \/ arm = "none" /\ y \in {got, Heartbeat(got)}
                        \/ arm = "cancel" /\ y \in {cancelled, Heartbeat(cancelled)}
                        \/ arm = "execute" /\ y = executed /\ gate.goal = "none" /\ gate.nonce # 0
<1> DEFINE m == Replied(gate, e, at, rearm)
           got == [gate |-> m, wire |-> wire]
           cancelled == CancelArm(got)
           executed == ExecuteArm(got, e.active)
           renewing(x) == Renewing(m, x, e, arm)
           expiring(x, b) == ~Late(arm) /\ Expiring(m, x, e, arm, b)
           aborted == AbortedGate(got)
<1>1. PICK b, x, y :
        /\ x = Published(m, e, arm) /\ y = Outcome(m, x, e, arm, b)
        /\ gate' = Rested(y.gate) /\ wire' = y.wire
        /\ eng' = IF expiring(x, b) THEN ExpiredEngine(e) ELSE e
  BY DEF Serves
<1>2. /\ arm = "execute" => x = executed
      /\ arm = "cancel" => x = cancelled
      /\ arm = "none" => x = got
  BY <1>1 DEF Published
<1>3. m \in Node /\ m.remaining \in Int
  BY RepliedNode DEF Node
<1>4. got \in Pair
  BY <1>3 DEF Pair
<1>5. arm = "execute" => executed.gate.goal = "future"
  BY <1>4, ExecuteSends
<1>6. renewing(x) => arm # "execute"
  BY <1>2, <1>5 DEF Renewing
<1> DEFINE fails == Late(arm) \/ (Refused(arm) /\ ~expiring(x, b))
<1>7. /\ ~fails /\ ~expiring(x, b) => ~(m.remaining <= 0)
      /\ ~fails /\ ~expiring(x, b) /\ arm = "execute" => gate.goal = "none" /\ gate.nonce # 0
      /\ fails => ~expiring(x, b)
  BY DEF Expiring, Refused
<1>8. /\ fails => y = aborted
      /\ expiring(x, b) => y = ExpiredGate(IF renewing(x) THEN x ELSE got, e)
      /\ ~fails /\ ~expiring(x, b) => y = IF renewing(x) THEN Heartbeat(x) ELSE x
  BY <1>1 DEF Outcome
<1> HIDE DEF m, got, cancelled, executed, aborted, renewing, expiring, fails
<1>9. ~(m.remaining <= 0) => m.remaining > 0
  BY <1>3
<1>10. CASE fails
  <2>1. y = aborted /\ eng' = e
    BY <1>1, <1>7, <1>8, <1>10
  <2>2. QED
    BY <1>1, <2>1 DEF m, got, cancelled, executed, aborted
<1>11. CASE expiring(x, b)
  <2>1. /\ eng' = ExpiredEngine(e)
        /\ \/ y = ExpiredGate(got, e)
           \/ arm = "cancel" /\ y = ExpiredGate(cancelled, e)
    BY <1>1, <1>2, <1>6, <1>8, <1>11
  <2>2. QED
    BY <1>1, <2>1 DEF m, got, cancelled, executed
<1>12. CASE ~fails /\ ~expiring(x, b)
  <2>1. /\ eng' = e /\ m.remaining > 0
        /\ \/ arm = "none" /\ y \in {got, Heartbeat(got)}
           \/ arm = "cancel" /\ y \in {cancelled, Heartbeat(cancelled)}
           \/ arm = "execute" /\ y = executed /\ gate.goal = "none" /\ gate.nonce # 0
    BY <1>1, <1>2, <1>6, <1>7, <1>8, <1>9, <1>12
  <2>2. QED
    BY <1>1, <2>1 DEF m, got, cancelled, executed
<1>13. QED
  BY <1>10, <1>11, <1>12

\* What the node and the wire may be when a reply has been handled, e the engine then.
Result(y, e) ==
  /\ y \in Pair /\ Issued(y.gate, y.wire, e) /\ Agrees(y.gate, e)
  /\ y.gate.nonce = gate.nonce
  /\ gate.stamp <= y.gate.stamp /\ gate.anchor <= y.gate.anchor /\ y.gate.anchor <= wall
  /\ \/ y.gate.sent = gate.sent /\ \A t \in y.wire : t.kind = "goal" => t \in wire
     \/ gate.sent = Idle /\ y.gate.sent \in Goal /\ eng.expires[y.gate.sent] = 0

\* And before: nothing has been signed for its order.
Ground(x, e) ==
  /\ x \in Pair /\ Issued(x.gate, x.wire, e) /\ Ready(x.gate, e)
  /\ x.gate.nonce = gate.nonce /\ x.gate.sent = gate.sent /\ x.wire = wire
  /\ gate.stamp <= x.gate.stamp /\ gate.anchor <= x.gate.anchor /\ x.gate.anchor <= wall

LEMMA StoppedResult ==
  ASSUME NEW x, NEW y, NEW e \in Engine, Ground(x, e), Stopped(y, x) PROVE Result(y, e)
<1>1. /\ x \in Pair /\ Issued(x.gate, x.wire, e) /\ Ready(x.gate, e)
      /\ x.gate.nonce = gate.nonce /\ x.gate.sent = gate.sent /\ x.wire = wire
      /\ gate.stamp <= x.gate.stamp /\ gate.anchor <= x.gate.anchor /\ x.gate.anchor <= wall
  BY DEF Ground
<1>2. /\ Issued(y.gate, y.wire, e) /\ Agrees(y.gate, e)
      /\ \A t \in y.wire : t.kind = "goal" => t \in x.wire
  BY <1>1, StoppedKeeps
<1>3. /\ y \in Pair /\ y.gate.nonce = x.gate.nonce /\ y.gate.sent = x.gate.sent
      /\ y.gate.stamp = x.gate.stamp /\ y.gate.anchor = x.gate.anchor
  BY DEF Stopped
<1>4. QED
  BY <1>1, <1>2, <1>3 DEF Result

\* An engine that has given up its trajectory agrees with whoever has stopped.
LEMMA StoppedExpires ==
  ASSUME NEW x, NEW y, NEW e \in Engine, NEW f \in Engine, f.expires = e.expires,
         Ground(x, e), Stopped(y, x)
  PROVE  Result(y, f)
<1>1. Issued(x.gate, x.wire, f) /\ Ready(x.gate, f)
  BY DEF Ground, Issued, Bounded, Ready
<1>2. Ground(x, f)
  BY <1>1 DEF Ground
<1>3. QED
  BY <1>2, StoppedResult

LEMMA ResultHandled ==
  ASSUME NEW y, gate' = Rested(y.gate), wire' = y.wire, eng' \in Engine, Result(y, eng'),
         \A d \in Goal : eng.expires[d] <= eng'.expires[d]
  PROVE  Handled
<1> DEFINE n == y.gate
           f == eng'
<1>1. /\ y \in Pair /\ n \in Node /\ y.wire \in SUBSET Token
      /\ Issued(n, y.wire, f) /\ Agrees(n, f) /\ n.nonce = gate.nonce
      /\ gate.stamp <= n.stamp /\ gate.anchor <= n.anchor /\ n.anchor <= wall
      /\ \/ n.sent = gate.sent /\ \A t \in y.wire : t.kind = "goal" => t \in wire
         \/ gate.sent = Idle /\ n.sent \in Goal /\ eng.expires[n.sent] = 0
  BY DEF Result, Pair
<1>2. gate' = Rested(n) /\ wire' = y.wire
  OBVIOUS
<1> HIDE DEF n
<1>3. /\ gate' \in Node /\ ~gate'.asked
      /\ gate'.stamp = n.stamp /\ gate'.anchor = n.anchor /\ gate'.nonce = n.nonce
      /\ gate'.active = n.active /\ gate'.goal = n.goal /\ gate'.sent = n.sent
  BY <1>1, <1>2, RestedNode
<1>4. Issued(gate', wire', eng') /\ Agrees(gate', eng')
  BY <1>1, <1>2, <1>3 DEF Issued, Bounded, Agrees, Ready
<1>5. QED
  BY <1>1, <1>2, <1>3, <1>4 DEF Handled

\* Dropping its trajectory changes nothing else that matters here.
LEMMA ClearedEngine ==
  ASSUME NEW e \in Engine, NEW t \in Nat
  PROVE  /\ Cleared(e, t) \in Engine /\ Cleared(e, t).active = Idle
         /\ Cleared(e, t).expires = e.expires /\ Cleared(e, t).world = e.world
<1> DEFINE s == IF e.active = Idle THEN e.settle ELSE Settle
           u == IF e.active = Idle THEN e.since ELSE t
           f == [e EXCEPT !.active = Idle, !.armed = FALSE, !.settle = s, !.since = u]
<1>1. Cleared(e, t) = f
  BY DEF Cleared
<1>2. s \in Nat /\ u \in Nat /\ Idle \in Digest
  BY ConstantTypes DEF Engine
<1> HIDE DEF s, u
<1>3. f \in Engine /\ f.active = Idle /\ f.expires = e.expires /\ f.world = e.world
  BY <1>2 DEF Engine
<1>4. QED
  BY <1>1, <1>3

\* Whatever the reply orders, what is signed ends within what it decided.
LEMMA ServesKeeps ==
  ASSUME LeaseTypeOK, Clocks, Issued(gate, wire, eng), Agrees(gate, eng), gate.asked,
         NEW e \in Engine, NEW at \in Int, NEW arm, NEW rearm \in BOOLEAN,
         Ordered(e, arm), Serves(e, at, arm, rearm)
  PROVE  Handled
<1> DEFINE m == Replied(gate, e, at, rearm)
           got == [gate |-> m, wire |-> wire]
           cancelled == CancelArm(got)
           executed == ExecuteArm(got, e.active)
           f == ExpiredEngine(e)
<1>1. /\ gate \in Node /\ wire \in SUBSET Token /\ eng \in Engine /\ sim \in Nat /\ wall \in Nat
      /\ arm \in {"none", "cancel", "execute"} /\ (arm = "execute" => e.active \in Goal)
      /\ gate.anchor <= gate.reqWall /\ gate.reqWall <= wall /\ gate.reqWall \in Nat
      /\ gate.stamp \in Int /\ gate.anchor \in Int /\ gate.nonce \in Nat
  BY DEF LeaseTypeOK, Clocks, Ordered, Node
<1>2. PICK y :
        /\ gate' = Rested(y.gate) /\ wire' = y.wire
        /\ \/ y = AbortedGate(got) /\ eng' = e
           \/ y = ExpiredGate(got, e) /\ eng' = f
           \/ arm = "cancel" /\ y = ExpiredGate(cancelled, e) /\ eng' = f
           \/ /\ m.remaining > 0 /\ eng' = e
              /\ \/ arm = "none" /\ y \in {got, Heartbeat(got)}
                 \/ arm = "cancel" /\ y \in {cancelled, Heartbeat(cancelled)}
                 \/ arm = "execute" /\ y = executed /\ gate.goal = "none" /\ gate.nonce # 0
  BY <1>1, ServesEnds
<1>3. /\ m \in Node /\ gate.stamp <= m.stamp /\ gate.anchor <= m.anchor
      /\ m.anchor <= gate.reqWall
      /\ m.nonce = gate.nonce /\ m.active = gate.active /\ m.goal = gate.goal /\ m.sent = gate.sent
      /\ m.remaining > 0 => Covered(m, e)
  BY <1>1, RepliedNode
<1>4. m.anchor <= wall /\ gate.nonce <= m.nonce
  BY <1>1, <1>3 DEF Node
<1> HIDE DEF m
<1>5. \A d \in Goal : eng.expires[d] \in Nat /\ e.expires[d] \in Nat
  BY <1>1 DEF Engine
<1>6. \A d \in Goal : eng.expires[d] <= e.expires[d]
  BY <1>5 DEF Ordered
<1>7. Issued(m, wire, e)
  BY <1>1, <1>3, <1>4, <1>6, IssuedLater
<1>8. Ready(m, e)
  <2>1. gate.sent # Idle => gate.sent \in Goal
    BY <1>1 DEF Node, Digest
  <2>2. gate.sent # Idle => e.expires[gate.sent] # 0
    BY <1>5, <1>6, <2>1 DEF Agrees, Ready
  <2>3. QED
    BY <1>3, <2>2 DEF Agrees, Ready
<1>9. Ground(got, e)
  BY <1>1, <1>3, <1>4, <1>7, <1>8 DEF Ground, Pair
<1>10. f \in Engine /\ f.active = Idle /\ f.expires = e.expires
  BY <1>1, ClearedEngine DEF ExpiredEngine
<1>11. got \in Pair /\ got.gate = m /\ got.wire = wire
  BY <1>1, <1>3 DEF Pair
<1> HIDE DEF got, f
<1>12. Stopped(cancelled, got) /\ cancelled \in Pair
  BY <1>1, <1>11, CancelStops DEF Stopped
<1> SUFFICES eng' \in Engine /\ Result(y, eng') /\ \A d \in Goal : eng.expires[d] <= eng'.expires[d]
  BY <1>2, ResultHandled
<1>13. CASE y = AbortedGate(got) /\ eng' = e
  <2>1. Stopped(y, got)
    BY <1>1, <1>11, <1>13, AbortStops
  <2>2. QED
    BY <1>6, <1>9, <1>13, <2>1, StoppedResult
<1>14. CASE \/ y = ExpiredGate(got, e) /\ eng' = f
            \/ arm = "cancel" /\ y = ExpiredGate(cancelled, e) /\ eng' = f
  <2>1. Stopped(y, got)
    <3>1. CASE y = ExpiredGate(got, e)
      BY <1>1, <1>11, <3>1, ExpiryStops
    <3>2. CASE y = ExpiredGate(cancelled, e)
      <4>1. Stopped(y, cancelled)
        BY <1>1, <1>12, <3>2, ExpiryStops
      <4>2. QED
        BY <1>12, <4>1, StoppedTwice
    <3>3. QED
      BY <1>14, <3>1, <3>2
  <2>2. Result(y, f)
    BY <1>9, <1>10, <2>1, StoppedExpires
  <2>3. eng' = f
    BY <1>14
  <2>4. QED
    BY <1>6, <1>10, <2>2, <2>3
<1>15. CASE m.remaining > 0 /\ eng' = e /\ arm = "none" /\ y \in {got, Heartbeat(got)}
  <2>1. Agrees(m, e)
    BY <1>3, <1>8, <1>15 DEF Agrees, Ordered
  <2>2. Result(got, e)
    BY <1>9, <1>11, <2>1 DEF Result, Ground
  <2>3. Result(Heartbeat(got), e)
    <3> DEFINE h == Heartbeat(got)
    <3>1. /\ Issued(h.gate, h.wire, e) /\ Agrees(h.gate, e)
          /\ \A t \in h.wire : t.kind = "goal" => t \in wire
      BY <1>3, <1>7, <1>11, <1>15, <2>1, HeartbeatKeeps
    <3>2. /\ h \in Pair /\ h.gate.stamp = m.stamp /\ h.gate.anchor = m.anchor
          /\ h.gate.nonce = m.nonce /\ h.gate.sent = m.sent
      BY <1>11, HeartbeatSends
    <3> HIDE DEF h
    <3>3. QED
      BY <1>3, <1>4, <3>1, <3>2 DEF Result, h
  <2>4. QED
    BY <1>6, <1>15, <2>2, <2>3
<1>16. CASE m.remaining > 0 /\ eng' = e /\ arm = "cancel" /\ y \in {cancelled, Heartbeat(cancelled)}
  <2>1. Result(cancelled, e)
    BY <1>9, <1>12, StoppedResult
  <2> DEFINE c == cancelled.gate
  <2>2. /\ c.stamp = m.stamp /\ c.anchor = m.anchor /\ c.nonce = m.nonce /\ c.sent = m.sent
        /\ c.reqSim = m.reqSim /\ c.reqWall = m.reqWall /\ c.remaining = m.remaining
    BY <1>11, <1>12 DEF Stopped
  <2>3. Covered(c, e)
    BY <1>3, <1>16, <2>2 DEF Covered
  <2> HIDE DEF c
  <2>4. Result(Heartbeat(cancelled), e)
    <3> DEFINE h == Heartbeat(cancelled)
    <3>1. /\ Issued(h.gate, h.wire, e) /\ Agrees(h.gate, e)
          /\ \A t \in h.wire : t.kind = "goal" => t \in cancelled.wire
      BY <1>12, <2>1, <2>3, HeartbeatKeeps DEF Result, c
    <3>2. /\ h \in Pair /\ h.gate.stamp = c.stamp /\ h.gate.anchor = c.anchor
          /\ h.gate.nonce = c.nonce /\ h.gate.sent = c.sent
      BY <1>12, HeartbeatSends DEF c
    <3>3. \A t \in cancelled.wire : t.kind = "goal" => t \in wire
      BY <1>11, <1>12 DEF Stopped
    <3> HIDE DEF h, cancelled
    <3>4. QED
      BY <1>3, <1>4, <2>2, <3>1, <3>2, <3>3 DEF Result, h
  <2>5. QED
    BY <1>6, <1>16, <2>1, <2>4
<1>17. CASE /\ m.remaining > 0 /\ eng' = e /\ arm = "execute" /\ y = executed
            /\ gate.goal = "none" /\ gate.nonce # 0
  <2>1. /\ e.active \in Goal /\ eng.expires[e.active] = 0 /\ e.expires[e.active] # 0
    BY <1>17 DEF Ordered
  <2>2. gate.sent = Idle
    BY <1>17 DEF Agrees, Ready
  <2>3. Covered(got.gate, e) /\ got.gate.sent = Idle /\ got.gate.nonce # 0
    BY <1>3, <1>11, <1>17, <2>2
  <2>4. Issued(executed.gate, executed.wire, e) /\ Agrees(executed.gate, e)
    BY <1>7, <1>11, <2>1, <2>3, ExecuteKeeps
  <2>5. /\ executed \in Pair /\ executed.gate.stamp = m.stamp /\ executed.gate.anchor = m.anchor
        /\ executed.gate.nonce = m.nonce /\ executed.gate.sent = e.active
    BY <1>11, <2>1, ExecuteSends
  <2> HIDE DEF executed
  <2>6. Result(executed, e)
    BY <1>3, <1>4, <2>1, <2>2, <2>4, <2>5 DEF Result
  <2>7. QED
    BY <1>6, <1>17, <2>6
<1>18. QED
  BY <1>2, <1>13, <1>14, <1>15, <1>16, <1>17

\* With the reply handled everything else still holds.
LEMMA HandledKeeps ==
  ASSUME LeaseInv, Handled, UNCHANGED <<sim, wall, ctl, starts>> PROVE LeaseInv'
<1>1. /\ gate \in Node /\ wire \in SUBSET Token /\ eng \in Engine /\ ctl \in Controller
      /\ starts \in [Goal -> Nat]
      /\ gate' \in Node /\ eng' \in Engine /\ wire' \in SUBSET Token
      /\ \A d \in Goal : eng.expires[d] <= eng'.expires[d]
      /\ gate.stamp <= gate'.stamp /\ gate.anchor <= gate'.anchor
      /\ sim' = sim /\ wall' = wall /\ ctl' = ctl /\ starts' = starts
  BY DEF LeaseInv, LeaseTypeOK, Handled
<1>2. LeaseTypeOK'
  BY <1>1 DEF LeaseInv, LeaseTypeOK
<1>3. Clocks'
  BY <1>1 DEF Handled, Clocks
<1>4. Issued(gate', wire', eng') /\ Agrees(gate', eng')
  BY DEF Handled
<1>5. gate'.nonce <= ctl'.nonce /\ ctl'.nonce # 0
  BY <1>1 DEF LeaseInv, Handled
<1>6. Granted(ctl', gate', eng')
  <2>1. ctl.grant \in Token
    BY <1>1 DEF Controller
  <2>2. ~ctl.locked => Bounded(ctl.grant, gate', eng')
    BY <1>1, <2>1, BoundedLater DEF LeaseInv, Granted
  <2>3. QED
    BY <1>1, <2>2 DEF LeaseInv, Granted
<1>7. Follows(ctl')
  BY <1>1 DEF LeaseInv
<1> DEFINE s == gate'.sent
<1>8. \/ s = gate.sent /\ \A t \in wire' : t.kind = "goal" => t \in wire
      \/ gate.sent = Idle /\ s \in Goal /\ eng.expires[s] = 0
  BY DEF Handled
<1>9. Outstanding(ctl', gate') /\ Unstarted(ctl', wire', starts')
  <2>1. Outstanding(ctl, gate) /\ Unstarted(ctl, wire, starts)
    BY DEF LeaseInv
  <2>2. CASE s = gate.sent /\ \A t \in wire' : t.kind = "goal" => t \in wire
    BY <1>1, <2>1, <2>2 DEF Outstanding, Unstarted
  <2>3. CASE gate.sent = Idle /\ s \in Goal /\ eng.expires[s] = 0
    <3>1. ctl.goal = Idle /\ ~Pending(ctl)
      BY <2>1, <2>3 DEF Outstanding
    <3>2. starts[s] = 0
      BY <2>3 DEF LeaseInv, Counted
    <3>3. \A t \in wire' : t.kind = "goal" => t.digest = s
      BY <1>4 DEF Issued
    <3> HIDE DEF s
    <3>4. QED
      BY <1>1, <3>1, <3>2, <3>3 DEF Outstanding, Unstarted
  <2>4. QED
    BY <1>8, <2>2, <2>3
<1>10. Counted'
  <2>1. \A d \in Goal : eng.expires[d] \in Nat /\ eng'.expires[d] \in Nat
    BY <1>1 DEF Engine
  <2>2. \A d \in Goal : eng'.expires[d] = 0 => eng.expires[d] = 0
    BY <1>1, <2>1
  <2>3. QED
    BY <1>1, <2>2 DEF LeaseInv, Counted
<1>11. QED
  BY <1>2, <1>3, <1>4, <1>5, <1>6, <1>7, <1>9, <1>10 DEF LeaseInv

LEMMA AnswerTickKeeps ==
  ASSUME LeaseInv, NEW armed \in BOOLEAN, AnswerTick(armed) PROVE LeaseInv'
<1> DEFINE e == [eng EXCEPT !.armed = armed]
<1>1. LeaseTypeOK /\ Clocks /\ Issued(gate, wire, eng) /\ Agrees(gate, eng) /\ gate.asked
  BY DEF LeaseInv, AnswerTick, Answering
<1>2. e \in Engine /\ e.active = eng.active /\ e.expires = eng.expires
  BY <1>1 DEF LeaseTypeOK, Engine
<1>3. Serves(e, None, "none", FALSE)
  BY DEF AnswerTick
<1> HIDE DEF e
<1>4. Ordered(e, "none")
  BY <1>2 DEF Ordered
<1>5. Handled
  BY <1>1, <1>2, <1>3, <1>4, ConstantTypes, ServesKeeps
<1>6. QED
  BY <1>5, HandledKeeps DEF AnswerTick, Answering

LEMMA AnswerWorldKeeps ==
  ASSUME LeaseInv, NEW lag \in Lags, NEW still \in BOOLEAN, AnswerWorld(lag, still) PROVE LeaseInv'
<1> DEFINE at == gate.reqSim - lag
           settle == IF eng.settle = 0 \/ at <= eng.since THEN eng.settle
                     ELSE IF still THEN eng.settle - 1 ELSE Settle
           since == IF settle = 0 THEN 0 ELSE eng.since
           e == [eng EXCEPT !.world = at, !.settle = settle, !.since = since]
<1>1. LeaseTypeOK /\ Clocks /\ Issued(gate, wire, eng) /\ Agrees(gate, eng) /\ gate.asked
  BY DEF LeaseInv, AnswerWorld, Answering
<1>2. gate.reqSim \in Nat /\ lag \in Nat /\ eng \in Engine /\ eng.settle \in Nat /\ eng.since \in Nat
  BY <1>1, PermitAssumption DEF LeaseTypeOK, Node, Engine
<1>3. at \in Int /\ settle \in Nat
  BY <1>2, ConstantTypes
<1>4. Serves(e, at, "none", FALSE)
  BY DEF AnswerWorld
<1> HIDE DEF at, settle
<1>5. since \in Nat
  BY <1>2
<1> HIDE DEF since
<1>6. e \in Engine /\ e.active = eng.active /\ e.expires = eng.expires
  BY <1>2, <1>3, <1>5 DEF Engine
<1> HIDE DEF e
<1>7. Ordered(e, "none")
  BY <1>6 DEF Ordered
<1>8. Handled
  BY <1>1, <1>3, <1>4, <1>6, <1>7, ConstantTypes, ServesKeeps
<1>9. QED
  BY <1>8, HandledKeeps DEF AnswerWorld, Answering

LEMMA AnswerRearmKeeps ==
  ASSUME LeaseInv, AnswerRearm PROVE LeaseInv'
<1> DEFINE e == [eng EXCEPT !.armed = TRUE]
<1>1. LeaseTypeOK /\ Clocks /\ Issued(gate, wire, eng) /\ Agrees(gate, eng) /\ gate.asked
  BY DEF LeaseInv, AnswerRearm, Answering
<1>2. e \in Engine /\ e.active = eng.active /\ e.expires = eng.expires
  BY <1>1 DEF LeaseTypeOK, Engine
<1>3. Serves(e, None, "none", TRUE)
  BY DEF AnswerRearm
<1> HIDE DEF e
<1>4. Ordered(e, "none")
  BY <1>2 DEF Ordered
<1>5. Handled
  BY <1>1, <1>2, <1>3, <1>4, ConstantTypes, ServesKeeps
<1>6. QED
  BY <1>5, HandledKeeps DEF AnswerRearm, Answering

LEMMA AnswerExecuteKeeps ==
  ASSUME LeaseInv, NEW d \in Goal, NEW ttl \in Ttls, AnswerExecute(d, ttl) PROVE LeaseInv'
<1> DEFINE x == gate.reqSim + ttl
           e == [eng EXCEPT !.active = d, !.expires[d] = x]
<1>1. LeaseTypeOK /\ Clocks /\ Issued(gate, wire, eng) /\ Agrees(gate, eng) /\ gate.asked
  BY DEF LeaseInv, AnswerExecute, Answering
<1>2. gate.reqSim \in Nat /\ ttl \in Nat \ {0} /\ eng \in Engine /\ d \in Digest
  BY <1>1, PermitAssumption DEF LeaseTypeOK, Node, Digest
<1>3. x \in Nat /\ x # 0
  BY <1>2
<1>4. eng.expires[d] = 0
  <2>1. d >= d
    BY ConstantTypes
  <2>2. QED
    BY <2>1 DEF AnswerExecute
<1>5. Serves(e, None, "execute", FALSE)
  BY DEF AnswerExecute
<1> HIDE DEF x
<1>6. /\ e \in Engine /\ e.active = d /\ e.expires = [eng.expires EXCEPT ![d] = x]
  BY <1>2, <1>3 DEF Engine
<1> HIDE DEF e
<1>7. e.expires[d] = x /\ \A c \in Goal \ {d} : e.expires[c] = eng.expires[c]
  BY <1>2, <1>6 DEF Engine
<1>8. Ordered(e, "execute")
  BY <1>3, <1>4, <1>6, <1>7 DEF Ordered
<1>9. Handled
  BY <1>1, <1>5, <1>6, <1>8, ConstantTypes, ServesKeeps
<1>10. QED
  BY <1>9, HandledKeeps DEF AnswerExecute, Answering

LEMMA AnswerCancelKeeps ==
  ASSUME LeaseInv, AnswerCancel PROVE LeaseInv'
<1> DEFINE e == Cleared(eng, gate.reqSim)
<1>1. LeaseTypeOK /\ Clocks /\ Issued(gate, wire, eng) /\ Agrees(gate, eng) /\ gate.asked
  BY DEF LeaseInv, AnswerCancel, Answering
<1>2. e \in Engine /\ e.active = Idle /\ e.expires = eng.expires
  BY <1>1, ClearedEngine DEF LeaseTypeOK, Node
<1>3. Serves(e, None, "cancel", FALSE)
  BY DEF AnswerCancel
<1> HIDE DEF e
<1>4. Ordered(e, "cancel")
  BY <1>2 DEF Ordered
<1>5. Handled
  BY <1>1, <1>2, <1>3, <1>4, ConstantTypes, ServesKeeps
<1>6. QED
  BY <1>5, HandledKeeps DEF AnswerCancel, Answering

-----------------------------------------------------------------------------
(* The other steps of the node.                                            *)

\* A node that changes neither its clocks nor what it follows.
LEMMA NodeKeeps ==
  ASSUME LeaseInv, UNCHANGED <<sim, wall, eng, wire, ctl, starts>>, gate' \in Node,
         gate'.stamp = gate.stamp, gate'.anchor = gate.anchor, gate'.sent = gate.sent,
         gate'.active = gate.active, gate'.goal = "none" <=> gate.goal = "none",
         gate.nonce <= gate'.nonce /\ gate'.nonce <= ctl.nonce,
         gate'.asked => gate'.anchor <= gate'.reqWall /\ gate'.reqWall <= wall
  PROVE  LeaseInv'
<1>1. /\ gate \in Node /\ wire \in SUBSET Token /\ eng \in Engine /\ ctl \in Controller
      /\ sim' = sim /\ wall' = wall /\ eng' = eng /\ wire' = wire /\ ctl' = ctl /\ starts' = starts
      /\ gate' \in Node /\ gate.stamp \in Int /\ gate.anchor \in Int
  BY DEF LeaseInv, LeaseTypeOK, Node
<1>2. /\ gate'.stamp = gate.stamp /\ gate'.anchor = gate.anchor /\ gate'.sent = gate.sent
      /\ gate'.active = gate.active
      /\ gate'.goal = "none" <=> gate.goal = "none"
  OBVIOUS
<1>3. gate.nonce <= gate'.nonce /\ gate'.nonce <= ctl.nonce
  OBVIOUS
<1>4. LeaseTypeOK'
  BY <1>1 DEF LeaseInv, LeaseTypeOK
<1>5. Clocks'
  BY <1>1, <1>2 DEF LeaseInv, Clocks
<1>6. Issued(gate', wire', eng')
  <2>1. \A d \in Goal : eng.expires[d] <= eng.expires[d]
    BY <1>1 DEF Engine
  <2>2. gate.stamp <= gate'.stamp /\ gate.anchor <= gate'.anchor
    BY <1>1, <1>2
  <2>3. Issued(gate, wire, eng)
    BY DEF LeaseInv
  <2>4. Issued(gate', wire, eng)
    BY <1>1, <1>2, <1>3, <2>1, <2>2, <2>3, IssuedLater
  <2>5. QED
    BY <1>1, <2>4
<1>7. Agrees(gate', eng')
  <2>1. Agrees(gate, eng)
    BY DEF LeaseInv
  <2>2. gate.nonce # 0 => gate'.nonce # 0
    BY <1>1, <1>3 DEF Node
  <2>3. QED
    BY <1>1, <1>2, <2>1, <2>2 DEF Agrees, Ready
<1>8. gate'.nonce <= ctl'.nonce /\ ctl'.nonce # 0
  BY <1>1, <1>3 DEF LeaseInv
<1>9. Granted(ctl', gate', eng')
  BY <1>1, <1>2 DEF LeaseInv, Granted, Bounded
<1>10. Outstanding(ctl', gate') /\ Follows(ctl') /\ Unstarted(ctl', wire', starts') /\ Counted'
  BY <1>1, <1>2 DEF LeaseInv, Outstanding, Counted
<1>11. QED
  BY <1>4, <1>5, <1>6, <1>7, <1>8, <1>9, <1>10 DEF LeaseInv

LEMMA AskKeeps == ASSUME LeaseInv, Ask PROVE LeaseInv'
<1> DEFINE n == [gate EXCEPT !.asked = TRUE, !.reqSim = sim, !.reqWall = wall]
<1>1. /\ gate \in Node /\ ctl \in Controller /\ sim \in Nat /\ wall \in Nat /\ gate.anchor <= wall
      /\ gate.nonce \in Nat /\ gate.nonce <= ctl.nonce
  BY DEF LeaseInv, LeaseTypeOK, Clocks, Node
<1>2. /\ n \in Node /\ n.reqWall = wall
      /\ n.stamp = gate.stamp /\ n.anchor = gate.anchor /\ n.sent = gate.sent
      /\ n.active = gate.active /\ n.goal = gate.goal /\ n.nonce = gate.nonce
  BY <1>1 DEF Node
<1>3. gate' = n
  BY DEF Ask
<1> HIDE DEF n
<1>4. gate.nonce <= gate'.nonce /\ gate'.nonce <= ctl.nonce
  BY <1>1, <1>2, <1>3
<1>5. gate'.anchor <= gate'.reqWall /\ gate'.reqWall <= wall
  BY <1>1, <1>2, <1>3
<1>6. UNCHANGED <<sim, wall, eng, wire, ctl, starts>>
  BY DEF Ask
<1>7. QED
  BY <1>2, <1>3, <1>4, <1>5, <1>6, NodeKeeps

LEMMA ObserveKeeps == ASSUME LeaseInv, Observe PROVE LeaseInv'
<1> DEFINE x == ctl.holding /\ ctl.expired
           n == [gate EXCEPT !.nonce = ctl.nonce, !.admitted = ctl.admitted,
                             !.admittedSeq = ctl.admittedSeq, !.holding = ctl.holding,
                             !.expired = x]
<1>1. /\ gate \in Node /\ ctl \in Controller
      /\ gate.nonce \in Nat /\ ctl.nonce \in Nat /\ gate.nonce <= ctl.nonce
  BY DEF LeaseInv, LeaseTypeOK, Node, Controller
<1>2. /\ ctl.admitted \in Digest /\ ctl.admittedSeq \in Nat /\ ctl.holding \in BOOLEAN
      /\ x \in BOOLEAN
  BY <1>1 DEF Controller
<1>3. gate' = n /\ ~gate.asked
  BY DEF Observe
<1> HIDE DEF x
<1>4. /\ n \in Node /\ n.asked = gate.asked
      /\ n.stamp = gate.stamp /\ n.anchor = gate.anchor /\ n.sent = gate.sent
      /\ n.active = gate.active /\ n.goal = gate.goal /\ n.nonce = ctl.nonce
  BY <1>1, <1>2 DEF Node
<1> HIDE DEF n
<1>5. gate.nonce <= gate'.nonce /\ gate'.nonce <= ctl.nonce
  BY <1>1, <1>3, <1>4
<1>6. UNCHANGED <<sim, wall, eng, wire, ctl, starts>>
  BY DEF Observe
<1>7. QED
  BY <1>3, <1>4, <1>5, <1>6, NodeKeeps

LEMMA GoalAnsweredKeeps == ASSUME LeaseInv, GoalAnswered PROVE LeaseInv'
<1> DEFINE n == [gate EXCEPT !.goal = "handle"]
<1>1. gate \in Node /\ ctl \in Controller /\ gate.nonce \in Nat /\ gate.nonce <= ctl.nonce
  BY DEF LeaseInv, LeaseTypeOK, Node
<1>2. gate' = n /\ ~gate.asked /\ gate.goal = "future"
  BY DEF GoalAnswered
<1>3. /\ n \in Node /\ n.asked = gate.asked /\ n.goal = "handle"
      /\ n.stamp = gate.stamp /\ n.anchor = gate.anchor /\ n.sent = gate.sent
      /\ n.active = gate.active /\ n.nonce = gate.nonce
  BY <1>1 DEF Node
<1> HIDE DEF n
<1>4. gate.nonce <= gate'.nonce /\ gate'.nonce <= ctl.nonce
  BY <1>1, <1>2, <1>3
<1>5. UNCHANGED <<sim, wall, eng, wire, ctl, starts>>
  BY DEF GoalAnswered
<1>6. QED
  BY <1>2, <1>3, <1>4, <1>5, NodeKeeps

LEMMA GoalOverKeeps == ASSUME LeaseInv, GoalOver PROVE LeaseInv'
<1> DEFINE w == {t \in wire : t.kind = "goal" => t.digest # gate.sent}
           x == [gate |-> gate, wire |-> w]
           y == IF gate.goal = "cancel" \/ ctl.succeeded = gate.sent THEN x ELSE AbortedGate(x)
           m == y.gate
           n == [m EXCEPT !.goal = "none", !.sent = Idle]
<1>1. /\ gate \in Node /\ wire \in SUBSET Token /\ eng \in Engine /\ ctl \in Controller
      /\ sim \in Nat /\ wall \in Nat
      /\ Issued(gate, wire, eng) /\ Agrees(gate, eng)
      /\ Outstanding(ctl, gate)
  BY DEF LeaseInv, LeaseTypeOK
<1>2. /\ gate' = n /\ wire' = y.wire /\ NothingLeft(gate.sent) /\ ~gate.asked
      /\ sim' = sim /\ wall' = wall /\ eng' = eng /\ ctl' = ctl /\ starts' = starts
  BY DEF GoalOver
<1>3. x \in Pair /\ x.gate = gate /\ x.wire = w
  BY <1>1 DEF Pair
<1>4. (\A t \in w : t.kind # "goal") /\ w \subseteq wire
  BY <1>1 DEF Issued
<1>5. Issued(gate, w, eng) /\ Ready(gate, eng)
  BY <1>1, <1>4 DEF Issued, Agrees
<1> HIDE DEF w, x
<1>6. /\ y \in Pair /\ m \in Node /\ m.stamp = gate.stamp /\ m.anchor = gate.anchor
      /\ m.nonce = gate.nonce /\ m.active \in {Idle, gate.active} /\ m.asked = gate.asked
      /\ Issued(m, y.wire, eng) /\ Agrees(m, eng)
      /\ \A t \in y.wire : t.kind # "goal"
  <2>1. CASE y = x
    BY <1>1, <1>3, <1>4, <1>5, <2>1 DEF Pair
  <2>2. CASE y = AbortedGate(x)
    <3>1. Stopped(y, x)
      BY <1>1, <1>3, <2>2, AbortStops
    <3>2. /\ Issued(y.gate, y.wire, eng) /\ Agrees(y.gate, eng)
          /\ \A t \in y.wire : t.kind = "goal" => t \in x.wire
      BY <1>1, <1>3, <1>5, <3>1, StoppedKeeps
    <3> HIDE DEF y
    <3>3. QED
      BY <1>3, <1>4, <3>1, <3>2 DEF Stopped, Pair
  <2>3. QED
    BY <2>1, <2>2
<1> HIDE DEF y, m
<1>7. /\ n \in Node /\ n.goal = "none" /\ n.sent = Idle /\ n.stamp = m.stamp /\ n.anchor = m.anchor
      /\ n.nonce = m.nonce /\ n.active = m.active /\ n.asked = m.asked
  BY <1>6, ConstantTypes DEF Node
<1> HIDE DEF n
<1>8. ctl.goal = Idle /\ ~Pending(ctl)
  BY <1>1, <1>2 DEF Outstanding, NothingLeft, Pending
<1>9. LeaseTypeOK'
  BY <1>1, <1>2, <1>6, <1>7 DEF LeaseInv, LeaseTypeOK, Pair
<1>10. Clocks'
  BY <1>2, <1>6, <1>7 DEF LeaseInv, Clocks
<1>11. Issued(gate', wire', eng') /\ Agrees(gate', eng')
  BY <1>2, <1>6, <1>7 DEF Issued, Bounded, Agrees, Ready
<1>12. gate'.nonce <= ctl'.nonce /\ ctl'.nonce # 0
  BY <1>2, <1>6, <1>7 DEF LeaseInv
<1>13. Granted(ctl', gate', eng')
  BY <1>2, <1>6, <1>7 DEF LeaseInv, Granted, Bounded
<1>14. Follows(ctl') /\ Outstanding(ctl', gate') /\ Unstarted(ctl', wire', starts') /\ Counted'
  BY <1>2, <1>6, <1>8 DEF LeaseInv, Outstanding, Unstarted, Counted
<1>15. QED
  BY <1>9, <1>10, <1>11, <1>12, <1>13, <1>14 DEF LeaseInv

-----------------------------------------------------------------------------
(* The controller.                                                         *)

\* What the invariant says of a controller c, the rest of the system as it is.
Sound(c) ==
  /\ c \in Controller
  /\ gate.nonce <= c.nonce /\ c.nonce # 0
  /\ Granted(c, gate, eng)
  /\ Follows(c)
  /\ Outstanding(c, gate)
  /\ Unstarted(c, wire, starts)

\* A controller that starts nothing.
LEMMA BecomesKeeps ==
  ASSUME LeaseInv, NEW c, Becomes(c), Sound(c), c.goal \in {Idle, ctl.goal} PROVE LeaseInv'
<1>1. /\ ctl' = c /\ UNCHANGED <<sim, wall, eng, gate, wire>>
      /\ starts' = IF c.goal \in Goal \ {ctl.goal} THEN [starts EXCEPT ![c.goal] = @ + 1] ELSE starts
  BY DEF Becomes
<1>2. starts' = starts
  BY <1>1, ConstantTypes
<1>3. QED
  BY <1>1, <1>2 DEF LeaseInv, Sound, LeaseTypeOK, Clocks, Counted

LEMMA SoundNow == ASSUME LeaseInv PROVE Sound(ctl)
  BY DEF LeaseInv, Sound, LeaseTypeOK

\* A guard that locks grants nothing, and what it has received stays as it is.
LEMMA LockedSound ==
  ASSUME NEW c, Sound(c)
  PROVE  /\ Sound(Locked(c)) /\ Locked(c).locked
         /\ Locked(c).goal = c.goal /\ Locked(c).active = c.active /\ Locked(c).seq = c.seq
         /\ Locked(c).nonce = c.nonce /\ Locked(c).pending = c.pending
         /\ Locked(c).admittedSeq = c.admittedSeq
<1> DEFINE g == NoGrant
           l == [c EXCEPT !.locked = TRUE, !.grant = g, !.expired = FALSE]
<1>1. Locked(c) = l
  BY DEF Locked
<1>2. c \in Controller
  BY DEF Sound
<1>3. g \in Token
  BY ConstantTypes DEF NoGrant, Token, Kind
<1> HIDE DEF g
<1>4. /\ l \in Controller /\ l.locked /\ l.nonce = c.nonce /\ l.seq = c.seq
      /\ l.active = c.active /\ l.pending = c.pending /\ l.admittedSeq = c.admittedSeq
      /\ l.goal = c.goal
  BY <1>2, <1>3 DEF Controller
<1> HIDE DEF l
<1>5. Sound(l)
  BY <1>4 DEF Sound, Granted, Follows, Outstanding, Unstarted, Pending
<1>6. QED
  BY <1>1, <1>4, <1>5

\* live_unlocked.
LEMMA LivedSound ==
  ASSUME NEW c, Sound(c)
  PROVE  /\ Sound(Lived(c))
         /\ Lived(c).goal = c.goal /\ Lived(c).active = c.active /\ Lived(c).seq = c.seq
         /\ Lived(c).nonce = c.nonce /\ Lived(c).pending = c.pending
         /\ Lived(c).admittedSeq = c.admittedSeq
         /\ c.locked => Lived(c).locked
<1> DEFINE k == Locked(c)
           l == [k EXCEPT !.expired = TRUE]
<1>1. /\ Sound(k) /\ k.locked /\ k.goal = c.goal /\ k.active = c.active /\ k.seq = c.seq
      /\ k.nonce = c.nonce /\ k.pending = c.pending /\ k.admittedSeq = c.admittedSeq
  BY LockedSound
<1>2. Lived(c) = IF ~c.locked /\ ~LiveNow(c) THEN l ELSE c
  BY DEF Lived
<1> HIDE DEF k
<1>3. k \in Controller
  BY <1>1 DEF Sound
<1>4. /\ l \in Controller /\ l.locked /\ l.nonce = k.nonce /\ l.seq = k.seq
      /\ l.active = k.active /\ l.pending = k.pending /\ l.admittedSeq = k.admittedSeq
      /\ l.goal = k.goal
  BY <1>1, <1>3 DEF Controller
<1> HIDE DEF l
<1>5. Sound(l)
  BY <1>1, <1>4 DEF Sound, Granted, Follows, Outstanding, Unstarted, Pending
<1>6. QED
  BY <1>1, <1>2, <1>4, <1>5

\* An accepted token is the grant, unless it is a stop.
LEMMA AcceptedController ==
  ASSUME NEW c \in Controller, NEW t \in Token
  PROVE  LET a == Accepted(c, t)
         IN  /\ a \in Controller /\ a.seq = t.seq /\ a.nonce = c.nonce
             /\ a.locked <=> t.kind = "stop"
             /\ ~a.locked => a.grant = t
             /\ a.goal = c.goal /\ a.active = c.active /\ a.pending = c.pending
             /\ a.admittedSeq = c.admittedSeq /\ a.resetRequested = c.resetRequested
<1> DEFINE s == t.seq
           g == NoGrant
           k == [c EXCEPT !.locked = TRUE, !.grant = g, !.expired = FALSE]
           p == [k EXCEPT !.seq = s]
           q == [c EXCEPT !.seq = s, !.locked = FALSE, !.grant = t, !.expired = FALSE]
<1>1. Accepted(c, t) = IF t.kind = "stop" THEN p ELSE q
  BY DEF Accepted, Locked
<1>2. s \in Nat /\ g \in Token
  BY ConstantTypes DEF Token, NoGrant, Kind
<1> HIDE DEF g
<1>3. s = t.seq
  OBVIOUS
<1> HIDE DEF s
<1>4. /\ k \in Controller /\ k.locked /\ k.nonce = c.nonce
      /\ k.goal = c.goal /\ k.active = c.active /\ k.pending = c.pending
      /\ k.admittedSeq = c.admittedSeq /\ k.resetRequested = c.resetRequested
  BY <1>2 DEF Controller
<1> HIDE DEF k
<1>5. /\ p \in Controller /\ p.seq = s /\ p.locked /\ p.nonce = k.nonce
      /\ p.goal = k.goal /\ p.active = k.active /\ p.pending = k.pending
      /\ p.admittedSeq = k.admittedSeq /\ p.resetRequested = k.resetRequested
  BY <1>2, <1>4 DEF Controller
<1>6. /\ q \in Controller /\ q.seq = s /\ ~q.locked /\ q.nonce = c.nonce /\ q.grant = t
      /\ q.goal = c.goal /\ q.active = c.active /\ q.pending = c.pending
      /\ q.admittedSeq = c.admittedSeq /\ q.resetRequested = c.resetRequested
  BY <1>2 DEF Controller
<1> HIDE DEF p, q
<1>7. QED
  BY <1>1, <1>3, <1>4, <1>5, <1>6

\* A later token leaves fewer that could still be accepted.
LEMMA LaterUnstarted ==
  ASSUME NEW c, NEW a, c \in Controller, a \in Controller, wire \in SUBSET Token,
         Unstarted(c, wire, starts), a.seq >= c.seq, a.nonce = c.nonce,
         \/ a.active = c.active /\ a.pending = c.pending /\ a.admittedSeq = c.admittedSeq
         \/ ~Pending(a)
  PROVE  Unstarted(a, wire, starts)
<1>1. /\ c.seq \in Nat /\ a.seq \in Nat /\ a.seq >= c.seq
      /\ \A u \in wire : u.seq \in Nat
  BY DEF Controller, Token
<1>2. \A u \in wire : u.seq > a.seq => u.seq > c.seq
  BY <1>1
<1>3. Pending(a) => Pending(c) /\ a.active = c.active
  BY DEF Pending
<1>4. QED
  BY <1>2, <1>3 DEF Unstarted

\* An accepted lease is for what the controller calls active.
LEMMA LeaseSound ==
  ASSUME NEW c, Sound(c), NEW t \in wire, Issued(gate, wire, eng), wire \in SUBSET Token,
         t.kind = "lease", Bound(c, t, c.active), ~c.locked
  PROVE  Sound(Accepted(c, t)) /\ Accepted(c, t).goal = c.goal
<1> DEFINE a == Accepted(c, t)
<1>1. /\ c \in Controller /\ t \in Token
      /\ t.digest = c.active /\ t.seq > c.seq /\ ~c.locked /\ t.seq \in Nat /\ c.seq \in Nat
  BY DEF Sound, Bound, Token, Controller
<1>2. /\ a \in Controller /\ ~a.locked /\ a.grant = t /\ a.seq = t.seq /\ a.nonce = c.nonce
      /\ a.active = c.active /\ a.pending = c.pending /\ a.admittedSeq = c.admittedSeq
      /\ a.goal = c.goal /\ a.resetRequested = c.resetRequested
  BY <1>1, AcceptedController
<1> HIDE DEF a
<1>3. Granted(a, gate, eng)
  BY <1>1, <1>2 DEF Granted, Issued
<1>4. Follows(a) /\ Outstanding(a, gate)
  BY <1>1, <1>2 DEF Sound, Follows, Outstanding, Pending
<1>5. a.seq >= c.seq
  BY <1>1, <1>2
<1>6. Unstarted(a, wire, starts)
  BY <1>1, <1>2, <1>5, LaterUnstarted DEF Sound
<1>7. QED
  BY <1>2, <1>3, <1>4, <1>6 DEF Sound, a

\* Forgetting a trajectory is sound when nothing is granted for it.
LEMMA ForgottenController ==
  ASSUME NEW c \in Controller
  PROVE  LET f == Forgotten(c)
         IN  /\ f \in Controller /\ f.seq = c.seq /\ f.nonce = c.nonce /\ f.locked = c.locked
             /\ f.grant = c.grant /\ f.goal = c.goal /\ f.active = Idle /\ ~Pending(f)
             /\ f.resetRequested = c.resetRequested
<1> DEFINE i == Idle
           z == 0
           h == TRUE
           f == [c EXCEPT !.active = i, !.admitted = i, !.pending = z, !.admittedSeq = z, !.holding = h]
<1>1. Forgotten(c) = f
  BY DEF Forgotten
<1>2. i = Idle /\ i \in Digest /\ z = 0 /\ z \in Nat /\ h \in BOOLEAN
  BY ConstantTypes
<1> HIDE DEF i, z, h
<1>3. /\ f \in Controller /\ f.seq = c.seq /\ f.nonce = c.nonce /\ f.locked = c.locked
      /\ f.grant = c.grant /\ f.goal = c.goal /\ f.active = i /\ f.pending = z
      /\ f.resetRequested = c.resetRequested
  BY <1>2 DEF Controller
<1> HIDE DEF f
<1>4. QED
  BY <1>1, <1>2, <1>3 DEF Pending

\* An accepted stop or reset forgets the goal; a reset is an empty grant.
LEMMA ResetOrStoppedSound ==
  ASSUME NEW c, Sound(c), NEW t \in wire, Issued(gate, wire, eng), wire \in SUBSET Token,
         t.kind \in {"reset", "stop"}, Bound(c, t, Idle)
  PROVE  Sound(ResetOrStopped(c, t)) /\ ResetOrStopped(c, t).goal = c.goal
<1> DEFINE a == Accepted(c, t)
           f == Forgotten(a)
           q == f.resetRequested \/ t.kind = "reset"
           r == [f EXCEPT !.resetRequested = q]
<1>1. /\ c \in Controller /\ t \in Token
      /\ t.digest = Idle /\ t.seq > c.seq /\ t.seq \in Nat /\ c.seq \in Nat
  BY DEF Sound, Bound, Token, Controller
<1>2. ResetOrStopped(c, t) = r
  BY DEF ResetOrStopped
<1>3. /\ a \in Controller /\ a.seq = t.seq /\ a.nonce = c.nonce /\ a.goal = c.goal
      /\ a.locked <=> t.kind = "stop"
      /\ ~a.locked => a.grant = t
  BY <1>1, AcceptedController
<1> HIDE DEF a
<1>4. /\ f \in Controller /\ f.seq = a.seq /\ f.nonce = a.nonce /\ f.locked = a.locked
      /\ f.grant = a.grant /\ f.goal = a.goal /\ f.active = Idle /\ ~Pending(f)
  BY <1>3, ForgottenController
<1> HIDE DEF f
<1>5. q \in BOOLEAN /\ (t.kind = "reset" => q)
  BY <1>4 DEF Controller
<1> HIDE DEF q
<1>6. /\ r \in Controller /\ r.seq = f.seq /\ r.nonce = f.nonce /\ r.locked = f.locked
      /\ r.grant = f.grant /\ r.goal = f.goal /\ r.active = f.active
      /\ r.pending = f.pending /\ r.admittedSeq = f.admittedSeq /\ r.resetRequested = q
  BY <1>4, <1>5 DEF Controller
<1> HIDE DEF r
<1>7. Granted(r, gate, eng)
  BY <1>1, <1>3, <1>4, <1>6 DEF Granted, Issued
<1>8. ~Pending(r)
  BY <1>4, <1>6 DEF Pending
<1>9. Follows(r) /\ Outstanding(r, gate)
  BY <1>3, <1>4, <1>5, <1>6, <1>8 DEF Sound, Follows, Outstanding
<1>10. r.seq >= c.seq
  BY <1>1, <1>3, <1>4, <1>6
<1>11. Unstarted(r, wire, starts)
  BY <1>1, <1>3, <1>4, <1>6, <1>8, <1>10, LaterUnstarted DEF Sound
<1>12. QED
  BY <1>2, <1>3, <1>4, <1>6, <1>7, <1>9, <1>11 DEF Sound

LEMMA OnHeartbeatKeeps == ASSUME LeaseInv, NEW t \in wire, OnHeartbeat(t) PROVE LeaseInv'
<1> DEFINE c == Lived(ctl)
           digest == IF t.kind = "lease" THEN c.active ELSE Idle
<1>1. /\ Sound(ctl) /\ Issued(gate, wire, eng) /\ wire \in SUBSET Token
      /\ t.kind \in {"lease", "reset", "stop"}
  BY SoundNow DEF LeaseInv, LeaseTypeOK, OnHeartbeat
<1>2. Sound(c) /\ c.goal = ctl.goal
  BY <1>1, LivedSound
<1>3. \/ Becomes(Locked(c))
      \/ /\ Acceptable(c, t, digest)
         /\ Becomes(IF t.kind = "lease" THEN Accepted(c, t) ELSE ResetOrStopped(c, t))
  BY DEF OnHeartbeat
<1> HIDE DEF c
<1>4. CASE Becomes(Locked(c))
  <2>1. Sound(Locked(c)) /\ Locked(c).goal = ctl.goal
    BY <1>2, LockedSound
  <2>2. QED
    BY <1>4, <2>1, BecomesKeeps
<1>5. CASE t.kind = "lease" /\ Acceptable(c, t, digest) /\ Becomes(Accepted(c, t))
  <2>1. Bound(c, t, c.active) /\ ~Lived(c).locked
    BY <1>5 DEF Acceptable
  <2>2. ~c.locked
    BY <1>2, <2>1, LivedSound
  <2>3. Sound(Accepted(c, t)) /\ Accepted(c, t).goal = ctl.goal
    BY <1>1, <1>2, <1>5, <2>1, <2>2, LeaseSound
  <2>4. QED
    BY <1>5, <2>3, BecomesKeeps
<1>6. CASE t.kind # "lease" /\ Acceptable(c, t, digest) /\ Becomes(ResetOrStopped(c, t))
  <2>1. Bound(c, t, Idle) /\ t.kind \in {"reset", "stop"}
    BY <1>1, <1>6 DEF Acceptable
  <2>2. Sound(ResetOrStopped(c, t)) /\ ResetOrStopped(c, t).goal = ctl.goal
    BY <1>1, <1>2, <2>1, ResetOrStoppedSound
  <2>3. QED
    BY <1>6, <2>2, BecomesKeeps
<1>7. QED
  BY <1>3, <1>4, <1>5, <1>6

\* A received goal is the one the node has sent, and has not been started.
LEMMA OnGoalKeeps == ASSUME LeaseInv, NEW t \in wire, OnGoal(t) PROVE LeaseInv'
<1> DEFINE c == Lived(ctl)
           d == Accepted(c, t)
           g == t.digest
           s == t.seq
           r == [d EXCEPT !.active = g, !.pending = s]
<1>1. /\ Sound(ctl) /\ Issued(gate, wire, eng) /\ wire \in SUBSET Token /\ t.kind = "goal"
  BY SoundNow DEF LeaseInv, LeaseTypeOK, OnGoal
<1>2. Sound(c) /\ c.goal = ctl.goal
  BY <1>1, LivedSound
<1>3. \/ Becomes(Locked(c))
      \/ Acceptable(c, t, g) /\ Becomes(r)
  BY DEF OnGoal
<1> HIDE DEF c
<1>4. CASE Becomes(Locked(c))
  <2>1. Sound(Locked(c)) /\ Locked(c).goal = ctl.goal
    BY <1>2, LockedSound
  <2>2. QED
    BY <1>4, <2>1, BecomesKeeps
<1>5. CASE Acceptable(c, t, g) /\ Becomes(r)
  <2>1. /\ c \in Controller /\ t \in Token /\ s \in Nat /\ c.seq \in Nat /\ g \in Digest
        /\ t.nonce = c.nonce /\ s > c.seq
    BY <1>1, <1>2, <1>5 DEF Sound, Acceptable, Bound, Token, Controller
  <2>2. /\ d \in Controller /\ d.seq = s /\ d.nonce = c.nonce /\ ~d.locked /\ d.grant = t
        /\ d.goal = c.goal /\ d.resetRequested = c.resetRequested
    BY <1>1, <2>1, AcceptedController
  <2>3. g = gate.sent /\ g # Idle
    BY <1>1 DEF Issued
  <2>4. starts[g] = 0
    BY <1>1, <1>2, <2>1 DEF Sound, Unstarted
  <2>5. \A u \in wire : u.kind = "goal" => u = t
    BY <1>1 DEF Issued
  <2>6. g = t.digest /\ s = t.seq
    OBVIOUS
  <2> HIDE DEF d, g, s
  <2>7. /\ r \in Controller /\ r.seq = s /\ r.nonce = c.nonce /\ ~r.locked /\ r.grant = t
        /\ r.goal = c.goal /\ r.active = g
    BY <2>1, <2>2 DEF Controller
  <2> HIDE DEF r
  <2>8. Granted(r, gate, eng)
    BY <1>1, <2>6, <2>7 DEF Granted, Issued
  <2>9. Follows(r) /\ Outstanding(r, gate)
    BY <1>2, <2>3, <2>7 DEF Sound, Follows, Outstanding
  <2>10. \A u \in wire : u.kind = "goal" => ~(u.seq > r.seq)
    BY <2>1, <2>5, <2>6, <2>7
  <2>11. Unstarted(r, wire, starts)
    BY <2>4, <2>7, <2>10 DEF Unstarted
  <2>12. Sound(r) /\ r.goal = ctl.goal
    BY <1>2, <2>7, <2>8, <2>9, <2>11 DEF Sound
  <2>13. QED
    BY <1>5, <2>12, BecomesKeeps
<1>6. QED
  BY <1>3, <1>4, <1>5

\* A goal that is accepted is started for the first time.
LEMMA OnGoalAcceptedKeeps == ASSUME LeaseInv, OnGoalAccepted PROVE LeaseInv'
<1> DEFINE c == Lived(ctl)
           g == c.active
           p == c.pending
           a == [c EXCEPT !.admitted = g, !.admittedSeq = p, !.goal = g]
           k == Locked(c)
           f == Forgotten(k)
<1>1. Sound(ctl) /\ Pending(ctl) /\ LeaseTypeOK /\ Counted /\ Ready(gate, eng)
  BY SoundNow DEF LeaseInv, OnGoalAccepted, Pending, Agrees
<1>2. Sound(c) /\ c.goal = ctl.goal /\ Pending(c)
  BY <1>1, LivedSound DEF Pending
<1>3. Becomes(a) \/ Becomes(f)
  BY DEF OnGoalAccepted
<1> HIDE DEF c
<1>4. CASE Becomes(f)
  <2>1. Sound(k) /\ k.locked /\ k.goal = ctl.goal
    BY <1>2, LockedSound
  <2> HIDE DEF k
  <2>2. k \in Controller
    BY <2>1 DEF Sound
  <2>3. /\ f \in Controller /\ f.seq = k.seq /\ f.nonce = k.nonce /\ f.locked = k.locked
        /\ f.goal = k.goal /\ ~Pending(f)
    BY <2>2, ForgottenController
  <2> HIDE DEF f
  <2>4. f.seq >= k.seq
    BY <2>2, <2>3 DEF Controller
  <2>5. Unstarted(f, wire, starts)
    BY <1>1, <2>1, <2>2, <2>3, <2>4, LaterUnstarted DEF Sound, LeaseTypeOK
  <2>6. Sound(f)
    BY <2>1, <2>3, <2>5 DEF Sound, Granted, Follows, Outstanding
  <2>7. QED
    BY <1>4, <2>1, <2>3, <2>6, BecomesKeeps
<1>5. CASE Becomes(a)
  <2>1. c \in Controller /\ g \in Digest /\ p \in Nat
    BY <1>2 DEF Sound, Controller
  <2>2. g = gate.sent /\ g # Idle /\ starts[g] = 0
    BY <1>2 DEF Sound, Outstanding, Unstarted
  <2>3. g \in Goal /\ eng.expires[g] # 0
    BY <1>1, <2>1, <2>2 DEF Ready, Digest
  <2>4. g = c.active /\ p = c.pending
    OBVIOUS
  <2> HIDE DEF g, p
  <2>5. /\ a \in Controller /\ a.seq = c.seq /\ a.nonce = c.nonce /\ a.locked = c.locked
        /\ a.grant = c.grant /\ a.active = g /\ a.goal = g /\ a.pending = p /\ a.admittedSeq = p
        /\ a.resetRequested = c.resetRequested
    BY <2>1, <2>4 DEF Controller
  <2> HIDE DEF a
  <2>6. ~Pending(a)
    BY <2>5 DEF Pending
  <2>7. Granted(a, gate, eng) /\ Follows(a) /\ Outstanding(a, gate)
    BY <1>2, <2>2, <2>4, <2>5, <2>6 DEF Sound, Granted, Follows, Outstanding
  <2>8. \A u \in wire : ~(u.kind = "goal" /\ u.nonce = a.nonce /\ u.seq > a.seq)
    BY <1>2, <2>5 DEF Sound, Unstarted
  <2>9. /\ ctl' = a /\ UNCHANGED <<sim, wall, eng, gate, wire>>
        /\ starts' = IF g \in Goal \ {ctl.goal} THEN [starts EXCEPT ![g] = @ + 1] ELSE starts
    BY <1>5, <2>5 DEF Becomes
  <2>10. /\ starts \in [Goal -> Nat] /\ starts' \in [Goal -> Nat]
         /\ \A d \in Goal : starts'[d] = starts[d] \/ (d = g /\ starts'[d] = 1)
    BY <1>1, <2>2, <2>3, <2>9 DEF LeaseTypeOK
  <2>11. Counted'
    BY <1>1, <2>3, <2>9, <2>10 DEF Counted
  <2>12. Unstarted(ctl', wire', starts')
    BY <2>6, <2>8, <2>9 DEF Unstarted
  <2>13. LeaseTypeOK'
    BY <1>1, <2>5, <2>9, <2>10 DEF LeaseTypeOK
  <2>14. Clocks' /\ Issued(gate', wire', eng') /\ Agrees(gate', eng')
    BY <2>9 DEF LeaseInv, Clocks
  <2>15. gate'.nonce <= ctl'.nonce /\ ctl'.nonce # 0
    BY <1>2, <2>5, <2>9 DEF Sound
  <2>16. QED
    BY <2>7, <2>9, <2>11, <2>12, <2>13, <2>14, <2>15 DEF LeaseInv
<1>6. QED
  BY <1>3, <1>4, <1>5

LEMMA OnNonsenseKeeps == ASSUME LeaseInv, OnNonsense PROVE LeaseInv'
<1>1. Sound(Locked(ctl)) /\ Locked(ctl).goal = ctl.goal
  BY SoundNow, LockedSound
<1>2. QED
  BY <1>1, BecomesKeeps DEF OnNonsense

\* Dropping the trajectory that is followed is sound.
LEMMA DroppedSound ==
  ASSUME NEW c, Sound(c), NEW a \in Controller, a.seq = c.seq, a.nonce = c.nonce,
         a.locked = c.locked, a.grant = c.grant, a.active = c.active, a.pending = c.pending,
         a.admittedSeq = c.admittedSeq,
         a.goal = Idle \/ (a.goal = c.goal /\ a.resetRequested = c.resetRequested)
  PROVE  Sound(a)
  BY DEF Sound, Granted, Follows, Outstanding, Unstarted, Pending

LEMMA UpdatedSound ==
  ASSUME NEW c, Sound(c), sim \in Nat
  PROVE  Sound(Updated(c)) /\ Updated(c).goal \in {Idle, c.goal}
<1> DEFINE l == Lived(c)
           i == Idle
           t == TRUE
           f == FALSE
           q == [l EXCEPT !.resetRequested = f, !.goal = i, !.wasHolding = t, !.cutoff = sim]
           r == Reset(l)
           u == IF r.wasHolding THEN r.cutoff ELSE sim
           h == [r EXCEPT !.holding = t, !.cutoff = u, !.wasHolding = t, !.goal = i]
           m == [r EXCEPT !.holding = f, !.wasHolding = f]
<1>1. Sound(l) /\ l.goal = c.goal /\ l \in Controller
  BY LivedSound DEF Sound
<1>2. i \in Digest /\ i = Idle /\ t \in BOOLEAN /\ f \in BOOLEAN
  BY ConstantTypes
<1>3. r = IF ~l.resetRequested THEN l ELSE q
  BY DEF Reset
<1>4. Updated(c) = IF r.locked THEN h ELSE m
  BY DEF Updated, Held
<1> HIDE DEF l, i, t, f
<1>5. /\ q \in Controller /\ q.seq = l.seq /\ q.nonce = l.nonce /\ q.locked = l.locked
      /\ q.grant = l.grant /\ q.active = l.active /\ q.pending = l.pending
      /\ q.admittedSeq = l.admittedSeq /\ q.goal = i
  BY <1>1, <1>2 DEF Controller
<1> HIDE DEF q
<1>6. Sound(q)
  BY <1>1, <1>2, <1>5, DroppedSound
<1>7. Sound(r) /\ r.goal \in {Idle, c.goal} /\ r \in Controller
  BY <1>1, <1>2, <1>3, <1>5, <1>6
<1> HIDE DEF r
<1>8. u \in Nat
  BY <1>7 DEF Controller
<1> HIDE DEF u
<1>9. /\ h \in Controller /\ h.seq = r.seq /\ h.nonce = r.nonce /\ h.locked = r.locked
      /\ h.grant = r.grant /\ h.active = r.active /\ h.pending = r.pending
      /\ h.admittedSeq = r.admittedSeq /\ h.goal = i
  BY <1>2, <1>7, <1>8 DEF Controller
<1>10. /\ m \in Controller /\ m.seq = r.seq /\ m.nonce = r.nonce /\ m.locked = r.locked
       /\ m.grant = r.grant /\ m.active = r.active /\ m.pending = r.pending
       /\ m.admittedSeq = r.admittedSeq /\ m.goal = r.goal
       /\ m.resetRequested = r.resetRequested
  BY <1>2, <1>7 DEF Controller
<1> HIDE DEF h, m
<1>11. Sound(h)
  BY <1>2, <1>7, <1>9, DroppedSound
<1>12. Sound(m)
  BY <1>7, <1>10, DroppedSound
<1>13. QED
  BY <1>2, <1>4, <1>7, <1>9, <1>10, <1>11, <1>12

LEMMA UpdateKeeps == ASSUME LeaseInv, Update PROVE LeaseInv'
<1>1. Sound(Updated(ctl)) /\ Updated(ctl).goal \in {Idle, ctl.goal}
  BY SoundNow, UpdatedSound DEF LeaseInv, LeaseTypeOK
<1>2. QED
  BY <1>1, BecomesKeeps DEF Update

LEMMA GoalEndsKeeps == ASSUME LeaseInv, NEW success \in BOOLEAN, GoalEnds(success) PROVE LeaseInv'
<1> DEFINE i == Idle
           s == IF success THEN ctl.goal ELSE ctl.succeeded
           c == [ctl EXCEPT !.goal = i, !.succeeded = s]
<1>1. Sound(ctl) /\ ctl \in Controller /\ i \in Digest /\ i = Idle
  BY SoundNow, ConstantTypes DEF Sound
<1>2. s \in Digest
  BY <1>1 DEF Controller
<1>3. Becomes(c)
  BY DEF GoalEnds
<1> HIDE DEF i, s
<1>4. /\ c \in Controller /\ c.seq = ctl.seq /\ c.nonce = ctl.nonce /\ c.locked = ctl.locked
      /\ c.grant = ctl.grant /\ c.active = ctl.active /\ c.pending = ctl.pending
      /\ c.admittedSeq = ctl.admittedSeq /\ c.goal = i
  BY <1>1, <1>2 DEF Controller
<1> HIDE DEF c
<1>5. Sound(c)
  BY <1>1, <1>4, DroppedSound
<1>6. QED
  BY <1>1, <1>3, <1>4, <1>5, BecomesKeeps

\* A new nonce outdates every token that was signed.
LEMMA ActivateKeeps == ASSUME LeaseInv, Activate PROVE LeaseInv'
<1> DEFINE n == ctl.nonce + 1
           s == ctl.succeeded
           o == FreshController
           c == [o EXCEPT !.nonce = n, !.cutoff = sim, !.succeeded = s]
<1>1. /\ Sound(ctl) /\ ctl \in Controller /\ sim \in Nat /\ gate \in Node /\ wire \in SUBSET Token
      /\ Issued(gate, wire, eng)
  BY SoundNow DEF Sound, LeaseInv, LeaseTypeOK
<1>2. s \in Digest /\ n \in Nat /\ n # 0 /\ gate.nonce < n
  BY <1>1 DEF Controller, Node, Sound
<1>3. Becomes(c)
  BY DEF Activate
<1>4. o \in Controller /\ o.locked /\ o.goal = Idle /\ o.pending = 0
  BY ConstantTypes DEF FreshController, NoGrant, Controller, Token, Kind
<1> HIDE DEF n, s, o
<1>5. /\ c \in Controller /\ c.nonce = n /\ c.locked = o.locked /\ c.goal = o.goal
      /\ c.pending = o.pending
  BY <1>1, <1>2, <1>4 DEF Controller
<1> HIDE DEF c
<1>6. ~Pending(c)
  BY <1>4, <1>5 DEF Pending
<1>7. \A u \in wire : u.nonce # c.nonce
  BY <1>1, <1>2, <1>5 DEF Issued, Node, Token
<1>8. gate.nonce <= c.nonce /\ c.nonce # 0
  BY <1>1, <1>2, <1>5 DEF Node
<1>9. Sound(c)
  BY <1>4, <1>5, <1>6, <1>7, <1>8 DEF Sound, Granted, Follows, Outstanding, Unstarted
<1>10. QED
  BY <1>3, <1>4, <1>5, <1>9, BecomesKeeps

LEMMA TickKeeps == ASSUME LeaseInv, NEW ds \in {0, 1}, Tick(ds) PROVE LeaseInv'
<1>1. /\ sim \in Nat /\ wall \in Nat /\ gate \in Node
      /\ sim' = sim + ds /\ wall' = wall + 1 /\ wire' \subseteq wire
      /\ eng' = eng /\ gate' = gate /\ ctl' = ctl /\ starts' = starts
  BY DEF LeaseInv, LeaseTypeOK, Tick, Deliverable
<1>2. LeaseTypeOK'
  BY <1>1 DEF LeaseInv, LeaseTypeOK
<1>3. Clocks'
  <2>1. gate.anchor \in Int /\ gate.reqWall \in Nat
    BY <1>1 DEF Node
  <2>2. QED
    BY <1>1, <2>1 DEF LeaseInv, Clocks
<1>4. Issued(gate', wire', eng') /\ Agrees(gate', eng')
  BY <1>1 DEF LeaseInv, Issued
<1>5. Unstarted(ctl', wire', starts')
  BY <1>1 DEF LeaseInv, Unstarted
<1>6. QED
  BY <1>1, <1>2, <1>3, <1>4, <1>5 DEF LeaseInv, Counted

-----------------------------------------------------------------------------
LEMMA InitHolds == ASSUME LeaseInit PROVE LeaseInv
<1>1. FreshEngine \in Engine /\ FreshEngine.active = Idle /\ \A d \in Goal : FreshEngine.expires[d] = 0
  BY ConstantTypes DEF FreshEngine, Engine
<1>2. /\ FreshGate \in Node /\ ~FreshGate.asked /\ FreshGate.anchor = None /\ FreshGate.nonce = 0
      /\ FreshGate.active = Idle /\ FreshGate.goal = "none" /\ FreshGate.sent = Idle
  BY ConstantTypes DEF FreshGate, Node
<1>3. /\ FreshController \in Controller /\ FreshController.nonce = 1 /\ FreshController.locked
      /\ FreshController.goal = Idle /\ FreshController.pending = 0
  BY ConstantTypes DEF FreshController, NoGrant, Controller, Token, Kind
<1>4. /\ sim = Start /\ wall = Start /\ eng = FreshEngine /\ gate = FreshGate /\ wire = {}
      /\ ctl = FreshController /\ starts = [d \in Goal |-> 0]
  BY DEF LeaseInit
<1>5. None <= Start
  BY ConstantTypes DEF None
<1>6. LeaseTypeOK
  BY <1>1, <1>2, <1>3, <1>4, ConstantTypes DEF LeaseTypeOK
<1>7. Clocks
  BY <1>2, <1>4, <1>5 DEF Clocks
<1>8. Issued(gate, wire, eng) /\ Agrees(gate, eng)
  BY <1>2, <1>4 DEF Issued, Agrees, Ready
<1>9. gate.nonce <= ctl.nonce /\ ctl.nonce # 0
  BY <1>2, <1>3, <1>4
<1>10. Granted(ctl, gate, eng) /\ Follows(ctl) /\ Outstanding(ctl, gate)
       /\ Unstarted(ctl, wire, starts) /\ Counted
  BY <1>3, <1>4 DEF Granted, Follows, Outstanding, Unstarted, Pending, Counted
<1>11. QED
  BY <1>6, <1>7, <1>8, <1>9, <1>10 DEF LeaseInv

LEMMA NextKeeps == ASSUME LeaseInv, LeaseNext PROVE LeaseInv'
<1>1. ASSUME NEW armed \in BOOLEAN, AnswerTick(armed) PROVE LeaseInv'
  BY <1>1, AnswerTickKeeps
<1>2. ASSUME NEW lag \in Lags, NEW still \in BOOLEAN, AnswerWorld(lag, still) PROVE LeaseInv'
  BY <1>2, AnswerWorldKeeps
<1>3. ASSUME NEW d \in Goal, NEW ttl \in Ttls, AnswerExecute(d, ttl) PROVE LeaseInv'
  BY <1>3, AnswerExecuteKeeps
<1>4. ASSUME NEW t \in wire, OnHeartbeat(t) \/ OnGoal(t) PROVE LeaseInv'
  BY <1>4, OnHeartbeatKeeps, OnGoalKeeps
<1>5. ASSUME NEW success \in BOOLEAN, GoalEnds(success) PROVE LeaseInv'
  BY <1>5, GoalEndsKeeps
<1>6. ASSUME NEW ds \in {0, 1}, Tick(ds) PROVE LeaseInv'
  BY <1>6, TickKeeps
<1>7. QED
  BY <1>1, <1>2, <1>3, <1>4, <1>5, <1>6, AskKeeps, ObserveKeeps, GoalAnsweredKeeps, GoalOverKeeps,
     AnswerRearmKeeps, AnswerCancelKeeps, OnGoalAcceptedKeeps, OnNonsenseKeeps, UpdateKeeps,
     ActivateKeeps DEF LeaseNext

LEMMA StutterKeeps == ASSUME LeaseInv, UNCHANGED leaseVars PROVE LeaseInv'
  BY DEF leaseVars, LeaseInv, LeaseTypeOK, Clocks, Counted

\* The inductive invariant of the permits.
THEOREM AlwaysSigned == LeaseSpec => []LeaseInv
<1>1. LeaseInit => LeaseInv
  BY InitHolds
<1>2. LeaseInv /\ [LeaseNext]_leaseVars => LeaseInv'
  BY NextKeeps, StutterKeeps
<1>3. QED
  BY <1>1, <1>2, PTL DEF LeaseSpec

\* What moves is what the grant was signed for, and within what it was signed under.
LEMMA InvWithinGrant == ASSUME LeaseInv PROVE WithinGrant
<1>1. /\ ctl \in Controller /\ gate \in Node /\ eng \in Engine /\ sim \in Nat /\ wall \in Nat
      /\ Granted(ctl, gate, eng) /\ Follows(ctl)
  BY DEF LeaseInv, LeaseTypeOK
<1>2. ASSUME Moves
      PROVE  /\ ctl.grant.digest = ctl.goal
             /\ sim < eng.expires[ctl.goal]
             /\ sim - gate.stamp < WorldMaxAge
             /\ wall - gate.anchor < WorldMaxAge
  <2> DEFINE g == ctl.grant
             d == ctl.goal
  <2>1. /\ d # Idle /\ ~ctl.resetRequested /\ ~ctl.locked
        /\ sim < g.simEnd /\ wall < g.wallEnd
    BY <1>2 DEF Moves, LiveNow
  <2>2. d = ctl.active /\ g.digest = d /\ g.kind # "stop" /\ Bounded(g, gate, eng)
    BY <1>1, <2>1 DEF Granted, Follows
  <2>3. g \in Token /\ d \in Goal
    BY <1>1, <2>1 DEF Controller, Digest
  <2>4. /\ g.simEnd \in Int /\ g.wallEnd \in Int /\ gate.stamp \in Int /\ gate.anchor \in Int
        /\ eng.expires[d] \in Int
    BY <1>1, <2>3 DEF Token, Node, Engine
  <2>5. /\ g.simEnd <= gate.stamp + WorldMaxAge /\ g.wallEnd <= gate.anchor + WorldMaxAge
        /\ g.simEnd <= eng.expires[d]
    BY <2>2, <2>3 DEF Bounded
  <2>6. sim < eng.expires[d] /\ sim - gate.stamp < WorldMaxAge /\ wall - gate.anchor < WorldMaxAge
    BY <1>1, <2>1, <2>4, <2>5, ConstantTypes
  <2>7. QED
    BY <2>2, <2>6
<1>3. QED
  BY <1>2 DEF WithinGrant, ExactAction, WithinAuthority

\* The arm moves only the trajectory its live grant was signed for, before that
\* proposal expires and on a world that is not too old (node.py _permit, permit.hpp
\* accept, controller.cpp update).
THEOREM AlwaysWithinGrant == LeaseSpec => []WithinGrant
  BY AlwaysSigned, InvWithinGrant, PTL

\* No trajectory is started twice, whatever is delivered again and however often the
\* controller is activated (permit.hpp: nonce and sequence).
THEOREM AlwaysStartedOnce == LeaseSpec => []StartedOnce
<1>1. LeaseInv => StartedOnce
  BY DEF LeaseInv, Counted, StartedOnce
<1>2. QED
  BY <1>1, AlwaysSigned, PTL

-----------------------------------------------------------------------------
(* The source signer.                                                       *)

USE SourceSignerAssumption

\* The instances that have read the file, and those with an envelope in hand.
Loaded  == {"idle", "signed", "renamed", "reserved"}
Holding == {"signed", "renamed", "reserved"}

\* What b holds is at least what a holds.
Covers(b, a) ==
  \/ a.epoch < b.epoch
  \/ a.epoch = b.epoch /\ \A r \in Role : a.counters[r] <= b.counters[r]

Memory(p) == [epoch |-> proc[p].epoch, counters |-> proc[p].counters]

\* The numbers of the proposals are the counter of their role.
Numbered ==
  \A p \in Process : proc[p].seq = IF "vla" \in Role THEN proc[p].counters["vla"] ELSE 0

Exclusive ==
  \A p \in Process : IF proc[p].at = "off" THEN proc[p] = Off ELSE lock = p

\* An instance that has read the file is never behind it.
NotBehind(p) == proc[p].at \in Loaded => proc[p].epoch > 0 /\ Covers(Memory(p), file)

NeverBehind == Covers(file, disk) /\ \A p \in Process : NotBehind(p)

Key(p) == <<proc[p].envelope.epoch, proc[p].envelope.role, proc[p].envelope.counter>>

\* The envelope in hand has the newest counter of its role, and nobody has seen it.
Fresh(p) ==
  /\ proc[p].envelope \in Envelope
  /\ proc[p].envelope.epoch = proc[p].epoch
  /\ proc[p].envelope.counter = proc[p].counters[proc[p].envelope.role]
  /\ published[Key(p)] = 0

HeldSafely(p) ==
  /\ proc[p].at \in Holding => Fresh(p)
  /\ proc[p].at \in {"renamed", "reserved"} => file = Memory(p)
  /\ proc[p].at = "reserved" => disk = file

InHand == \A p \in Process : HeldSafely(p)

Safe == Exclusive /\ NeverBehind /\ InHand /\ ReservedFirst /\ SignedOnce

SignerInv == TypeOK /\ Numbered /\ Safe

\* The instances, their keys and their envelopes stay in their types.
LEMMA TypeStep ==
  ASSUME TypeOK, Numbered, NeverBehind, InHand, [Next]_vars
  PROVE  TypeOK' /\ Numbered'
<1> USE DEF TypeOK, Numbered, Stored, Places
<1>0. /\ Zero \in Counters /\ Nothing \in Envelope \cup {Nothing}
      /\ \A r \in Role : Zero[r] = 0
  BY DEF Zero, Counters
<1> HIDE DEF Nothing
<1>1. ASSUME NEW p \in Process, Ends(p) PROVE proc' \in [Process -> [at : Places, epoch : 0..MaxEpoch,
        counters : Counters, seq : 0..MaxCounter, envelope : Envelope \cup {Nothing}]]
        /\ lock' \in Process \cup {Nobody} /\ Numbered'
  BY <1>0, <1>1 DEF Ends, Off
<1>2. ASSUME NEW p \in Process, Open(p) PROVE TypeOK' /\ Numbered'
  BY <1>2 DEF Open
<1>3. ASSUME NEW p \in Process, Load(p) PROVE TypeOK' /\ Numbered'
  <2>1. CASE RolledBack(trust)
    BY <1>1, <1>3, <2>1 DEF Load
  <2>2. CASE ~RolledBack(trust)
    <3>1. /\ Restored(trust) \in Counters
          /\ SeqFrom(Restored(trust)) = IF "vla" \in Role THEN Restored(trust)["vla"] ELSE 0
          /\ SeqFrom(Restored(trust)) \in 0..MaxCounter
      BY <1>0 DEF Restored, SeqFrom, Counters
    <3>2. QED
      BY <1>3, <2>2, <3>1 DEF Load
  <2>3. QED
    BY <2>1, <2>2
<1>4. ASSUME NEW p \in Process, NEW r \in Role, NEW s \in 0..MaxCounter, NEW b \in Bodies \cup {Forwarded},
             Sign(p, r, s, b), proc[p].epoch \in 1..MaxEpoch,
             s = IF r = "vla" THEN proc[p].counters["vla"] + 1 ELSE proc[p].seq
      PROVE  TypeOK' /\ Numbered'
  <2>1. proc[p].counters[r] + 1 \in 1..MaxCounter
    BY <1>4 DEF Sign, Counters
  <2>2. [proc[p].counters EXCEPT ![r] = proc[p].counters[r] + 1] \in Counters
    BY <2>1 DEF Counters
  <2>3. [epoch |-> proc[p].epoch, role |-> r, counter |-> proc[p].counters[r] + 1,
         id |-> s, body |-> b] \in Envelope
    BY <1>4, <2>1 DEF Envelope
  <2>4. /\ proc' = [proc EXCEPT ![p] = [at |-> "signed", epoch |-> proc[p].epoch,
                      counters |-> [proc[p].counters EXCEPT ![r] = proc[p].counters[r] + 1],
                      seq |-> s,
                      envelope |-> [epoch |-> proc[p].epoch, role |-> r,
                                    counter |-> proc[p].counters[r] + 1, id |-> s, body |-> b]]]
        /\ UNCHANGED <<trust, file, disk, lock, clock, published>>
    BY <1>4 DEF Sign
  <2>5. TypeOK'
    BY <2>2, <2>3, <2>4
  <2>6. Numbered'
    BY <1>4, <2>1, <2>4 DEF Counters
  <2>7. QED
    BY <2>5, <2>6
<1>5. ASSUME NEW p \in Process, NEW r \in Role, Forward(p, r), proc[p].epoch \in 1..MaxEpoch
      PROVE  TypeOK' /\ Numbered'
  BY <1>4, <1>5 DEF Forward
<1>6. ASSUME NEW p \in Process, NEW a \in Actions, NEW f \in Frames, Propose(p, a, f), proc[p].epoch \in 1..MaxEpoch
      PROVE  TypeOK' /\ Numbered'
  <2>1. Proposal(a, f) \in Bodies
    BY DEF Bodies
  <2>2. "vla" \in Role /\ proc[p].seq + 1 = proc[p].counters["vla"] + 1
    BY <1>6 DEF Propose
  <2>3. proc[p].seq + 1 \in 0..MaxCounter
    BY <1>6, <2>2 DEF Propose, Sign, Counters
  <2>4. QED
    BY <1>4, <1>6, <2>1, <2>2, <2>3 DEF Propose
<1>7. ASSUME NEW p \in Process, Reserve(p) \/ SyncDirectory(p), proc[p].epoch \in 1..MaxEpoch
      PROVE  TypeOK' /\ Numbered'
  BY <1>7 DEF Reserve, SyncDirectory
<1>8. ASSUME NEW p \in Process, Publish(p), proc[p].envelope \in Envelope PROVE TypeOK' /\ Numbered'
  <2> DEFINE k == <<proc[p].envelope.epoch, proc[p].envelope.role, proc[p].envelope.counter>>
  <2>1. k \in (1..MaxEpoch) \X Role \X (1..MaxCounter) /\ published[k] \in Nat
    BY <1>8 DEF Envelope
  <2>2. published' = [published EXCEPT ![k] = published[k] + 1]
    BY <1>8 DEF Publish
  <2>3. published' \in [(1..MaxEpoch) \X Role \X (1..MaxCounter) -> Nat]
    BY <2>1, <2>2
  <2>4. QED
    <3>1. /\ proc' = [proc EXCEPT ![p].at = "idle", ![p].envelope = Nothing]
          /\ UNCHANGED <<trust, file, disk, lock, clock>>
      BY <1>8 DEF Publish
    <3>2. proc' \in [Process -> [at : Places, epoch : 0..MaxEpoch, counters : Counters,
                                 seq : 0..MaxCounter, envelope : Envelope \cup {Nothing}]]
      <4> HIDE DEF Numbered, Stored
      <4>1. proc \in [Process -> [at : Places, epoch : 0..MaxEpoch, counters : Counters,
                                 seq : 0..MaxCounter, envelope : Envelope \cup {Nothing}]]
        OBVIOUS
      <4> HIDE DEF TypeOK
      <4>2. QED
        BY <1>0, <3>1, <4>1
    <3>3. TypeOK'
      BY <2>3, <3>1, <3>2
    <3>4. Numbered'
      BY <3>1
    <3>5. QED
      BY <3>3, <3>4
<1>9. ASSUME NEW p \in Process, Dies(p) PROVE TypeOK' /\ Numbered'
  BY <1>1, <1>9 DEF Dies
<1>10. ASSUME PowerFails PROVE TypeOK' /\ Numbered'
  <2>1. Off \in [at : Places, epoch : 0..MaxEpoch, counters : Counters, seq : 0..MaxCounter,
                 envelope : Envelope \cup {Nothing}]
    BY <1>0 DEF Off
  <2>2. file' \in Stored /\ disk' \in Stored
    BY <1>10 DEF PowerFails
  <2>3. \A p \in Process : proc'[p] = Off
    BY <1>10 DEF PowerFails
  <2>4. Numbered'
    BY <1>0, <2>3 DEF Off
  <2>5. QED
    BY <1>10, <2>1, <2>2, <2>4 DEF PowerFails
<1>11. ASSUME NEW e \in 1..MaxEpoch, Provision(e) PROVE TypeOK' /\ Numbered'
  BY <1>11 DEF Provision
<1>12. ASSUME ClockFound \/ UNCHANGED vars PROVE TypeOK' /\ Numbered'
  BY <1>12 DEF ClockFound, vars
<1>13. \A p \in Process : /\ proc[p].at \in Loaded => proc[p].epoch \in 1..MaxEpoch
                          /\ proc[p].at \in Holding => proc[p].envelope \in Envelope
  <2>1. \A p \in Process : proc[p].at \in Loaded => proc[p].epoch \in 1..MaxEpoch
    <3>1. \A p \in Process : proc[p].epoch \in 0..MaxEpoch
      OBVIOUS
    <3> HIDE DEF TypeOK
    <3>2. QED
      BY <3>1 DEF NeverBehind, NotBehind
  <2> HIDE DEF TypeOK, Numbered
  <2>2. \A p \in Process : proc[p].at \in Holding => proc[p].envelope \in Envelope
    BY DEF InHand, HeldSafely, Fresh
  <2>3. QED
    BY <2>1, <2>2
<1> HIDE DEF TypeOK, Numbered
<1>14. CASE UNCHANGED vars
  BY <1>12, <1>14
<1>15. CASE Next
  <2>1. CASE PowerFails \/ ClockFound \/ \E e \in 1..MaxEpoch : Provision(e)
    BY <1>10, <1>11, <1>12, <2>1
  <2>2. ASSUME NEW p \in Process,
               Open(p) \/ Load(p) \/ Reserve(p) \/ SyncDirectory(p) \/ Publish(p) \/ Dies(p)
        PROVE  TypeOK' /\ Numbered'
    <3>1. (Reserve(p) \/ SyncDirectory(p) => proc[p].epoch \in 1..MaxEpoch)
          /\ (Publish(p) => proc[p].envelope \in Envelope)
      <4>1. /\ Reserve(p) => proc[p].at = "signed"
            /\ SyncDirectory(p) => proc[p].at = "renamed"
            /\ Publish(p) => proc[p].at = "reserved"
        BY DEF Reserve, SyncDirectory, Publish
      <4>2. QED
        BY <1>13, <4>1 DEF Loaded, Holding
    <3>2. QED
      BY <1>2, <1>3, <1>7, <1>8, <1>9, <2>2, <3>1
  <2>3. ASSUME NEW p \in Process,
               \/ \E r \in Role : Forward(p, r)
               \/ \E a \in Actions, f \in Frames : Propose(p, a, f)
        PROVE  TypeOK' /\ Numbered'
    <3>1. proc[p].epoch \in 1..MaxEpoch
      <4>1. proc[p].at = "idle"
        BY <2>3 DEF Forward, Propose
      <4>2. proc[p].at \in Loaded
        BY <4>1 DEF Loaded
      <4>3. QED
        BY <1>13, <4>2
    <3>2. QED
      BY <1>5, <1>6, <2>3, <3>1
  <2>4. QED
    BY <1>15, <2>1, <2>2, <2>3 DEF Next
<1>16. QED
  BY <1>14, <1>15

-----------------------------------------------------------------------------
LEMMA CoversTransitive ==
  ASSUME NEW a \in Stored, NEW b \in Stored, NEW c \in Stored, Covers(b, a), Covers(c, b)
  PROVE  Covers(c, a)
<1>1. \A x \in Stored : x.epoch \in Int /\ \A r \in Role : x.counters[r] \in Int
  BY DEF Stored, Counters
<1>2. CASE a.epoch = b.epoch /\ b.epoch = c.epoch
  BY <1>1, <1>2 DEF Covers
<1>3. CASE a.epoch < b.epoch \/ b.epoch < c.epoch
  BY <1>1, <1>3 DEF Covers
<1>4. QED
  BY <1>2, <1>3 DEF Covers

\* What a reservation covers, a later one covers.
Reserved(s, e, r, c) == s.epoch > e \/ (s.epoch = e /\ s.counters[r] >= c)

LEMMA CoversReserved ==
  ASSUME NEW a \in Stored, NEW b \in Stored, Covers(b, a),
         NEW e \in 1..MaxEpoch, NEW r \in Role, NEW c \in 1..MaxCounter, Reserved(a, e, r, c)
  PROVE  Reserved(b, e, r, c)
<1>1. /\ a.epoch \in Int /\ a.counters[r] \in Int
      /\ b.epoch \in Int /\ b.counters[r] \in Int
  BY DEF Stored, Counters
<1>2. a.epoch < b.epoch \/ (a.epoch = b.epoch /\ a.counters[r] <= b.counters[r])
  BY DEF Covers
<1>3. QED
  BY <1>1, <1>2 DEF Reserved

\* Everybody but the holder of the lock is off.
LEMMA Alone ==
  ASSUME Exclusive, NEW p \in Process, proc[p].at # "off"
  PROVE  lock = p /\ \A q \in Process \ {p} : proc[q] = Off
BY DEF Exclusive

\* So only the instance that steps has anything to prove.
LEMMA OnlyOne ==
  ASSUME NEW p \in Process, lock' = p, proc'[p].at # "off",
         \A q \in Process \ {p} : proc'[q] = Off,
         Covers(file', disk'), NotBehind(p)', HeldSafely(p)'
  PROVE  Exclusive' /\ NeverBehind' /\ InHand'
<1>1. ASSUME NEW q \in Process \ {p} PROVE NotBehind(q)' /\ HeldSafely(q)'
  <2>1. proc'[q].at = "off"
    BY DEF Off
  <2>2. QED
    BY <2>1 DEF NotBehind, HeldSafely, Loaded, Holding
<1>2. Exclusive'
  <2>1. ASSUME NEW q \in Process PROVE IF proc'[q].at = "off" THEN proc'[q] = Off ELSE lock' = q
    BY DEF Off
  <2>2. QED
    BY <2>1 DEF Exclusive
<1>3. QED
  BY <1>1, <1>2 DEF NeverBehind, InHand

-----------------------------------------------------------------------------
(* One lemma per action, each proving the five parts of Safe afterwards. *)

Committed == <<disk, published>>

\* Neither the disk nor the published envelopes change in most steps.
LEMMA CommittedStep ==
  ASSUME ReservedFirst, SignedOnce, UNCHANGED Committed
  PROVE  ReservedFirst' /\ SignedOnce'
BY DEF ReservedFirst, SignedOnce, Committed

\* An end takes away an instance and its lock, and touches no file.
LEMMA EndsStep ==
  ASSUME SignerInv, NEW p \in Process, Ends(p), UNCHANGED <<file, disk, published>>
  PROVE  Safe'
<1>1. \A q \in Process : proc'[q] = IF q = p THEN Off ELSE proc[q]
  BY DEF SignerInv, TypeOK, Ends
<1>2. ReservedFirst' /\ SignedOnce'
  BY CommittedStep DEF SignerInv, Safe, Committed
<1>3. ASSUME NEW q \in Process
      PROVE  /\ IF proc'[q].at = "off" THEN proc'[q] = Off ELSE lock' = q
             /\ NotBehind(q)' /\ HeldSafely(q)'
  <2>1. CASE q = p
    <3>1. proc'[q].at = "off" /\ proc'[q] = Off
      BY <1>1, <2>1 DEF Off
    <3>2. QED
      BY <3>1 DEF NotBehind, HeldSafely, Loaded, Holding
  <2>2. CASE q # p
    <3>1. proc'[q] = proc[q]
      BY <1>1, <2>2
    <3>2. IF proc'[q].at = "off" THEN proc'[q] = Off ELSE lock' = q
      BY <2>2, <3>1 DEF SignerInv, Safe, Exclusive, Ends
    <3>3. NotBehind(q) /\ HeldSafely(q)
      BY DEF SignerInv, Safe, NeverBehind, InHand
    <3>4. NotBehind(q)' /\ HeldSafely(q)'
      BY <3>1, <3>3 DEF NotBehind, HeldSafely, Fresh, Key, Memory, Covers
    <3>5. QED
      BY <3>2, <3>4
  <2>3. QED
    BY <2>1, <2>2
<1>4. Covers(file', disk')
  BY DEF SignerInv, Safe, NeverBehind
<1>5. QED
  BY <1>2, <1>3, <1>4 DEF Safe, Exclusive, NeverBehind, InHand

LEMMA OpenStep ==
  ASSUME SignerInv, NEW p \in Process, Open(p)
  PROVE  Safe'
<1>1. lock = Nobody /\ lock' = p /\ UNCHANGED <<file, disk, published>>
  BY DEF Open
<1>2. proc'[p].at = "opened" /\ \A q \in Process \ {p} : proc'[q] = proc[q]
  BY DEF SignerInv, TypeOK, Open
<1>3. \A q \in Process : proc[q] = Off
  BY <1>1 DEF SignerInv, Safe, Exclusive, Nobody
<1>4. NotBehind(p)' /\ HeldSafely(p)'
  BY <1>2 DEF NotBehind, HeldSafely, Loaded, Holding
<1>5. Covers(file', disk')
  BY <1>1 DEF SignerInv, Safe, NeverBehind
<1>6. Exclusive' /\ NeverBehind' /\ InHand'
  BY <1>1, <1>2, <1>3, <1>4, <1>5, OnlyOne
<1>7. QED
  BY <1>1, <1>6, CommittedStep DEF SignerInv, Safe, Committed

LEMMA LoadStep ==
  ASSUME SignerInv, NEW p \in Process, Load(p)
  PROVE  Safe'
<1>1. CASE RolledBack(trust)
  BY <1>1, EndsStep DEF Load
<1>2. CASE ~RolledBack(trust)
  <2>1. UNCHANGED <<file, disk, lock, published>> /\ proc[p].at = "opened"
    BY <1>2 DEF Load
  <2>2. /\ proc'[p].at = "idle" /\ proc'[p].epoch = trust
        /\ proc'[p].counters = Restored(trust)
        /\ \A q \in Process \ {p} : proc'[q] = proc[q]
    BY <1>2 DEF SignerInv, TypeOK, Load
  <2>3. lock = p /\ \A q \in Process \ {p} : proc[q] = Off
    BY <2>1, Alone DEF SignerInv, Safe
  <2>4. trust \in Int /\ trust > 0 /\ file.epoch \in Int /\ file.epoch <= trust
        /\ \A r \in Role : file.counters[r] \in Int
    BY <1>2 DEF SignerInv, TypeOK, Stored, Counters, RolledBack
  <2>5. Covers([epoch |-> trust, counters |-> Restored(trust)], file)
    BY <2>4 DEF Covers, Restored
  <2>6. NotBehind(p)' /\ HeldSafely(p)'
    <3>1. Memory(p)' = [epoch |-> trust, counters |-> Restored(trust)]
      BY <2>2 DEF Memory
    <3>2. QED
      BY <2>1, <2>2, <2>4, <2>5, <3>1 DEF NotBehind, HeldSafely, Holding, Covers
  <2>7. Exclusive' /\ NeverBehind' /\ InHand'
    BY <2>1, <2>2, <2>3, <2>6, OnlyOne DEF SignerInv, Safe, NeverBehind
  <2>8. QED
    BY <2>1, <2>7, CommittedStep DEF SignerInv, Safe, Committed
<1>3. QED
  BY <1>1, <1>2

\* The counter about to be signed is one nobody published: what was published is
\* on the disk, the disk is not ahead of the file, nor the file of the instance.
LEMMA SignStep ==
  ASSUME SignerInv, NEW p \in Process, NEW r \in Role, NEW s, NEW b,
         proc[p].at = "idle", Sign(p, r, s, b), TypeOK'
  PROVE  Safe'
<1> DEFINE e == proc[p].epoch
           c == proc[p].counters[r] + 1
<1>1. UNCHANGED <<file, disk, lock, published>> /\ c <= MaxCounter
  BY DEF Sign
<1>2. /\ proc'[p] = [at |-> "signed", epoch |-> e, counters |-> [proc[p].counters EXCEPT ![r] = c],
                     seq |-> s,
                     envelope |-> [epoch |-> e, role |-> r, counter |-> c, id |-> s, body |-> b]]
      /\ \A q \in Process \ {p} : proc'[q] = proc[q]
  BY DEF SignerInv, TypeOK, Sign
<1>3. lock = p /\ \A q \in Process \ {p} : proc[q] = Off
  BY Alone DEF SignerInv, Safe
<1>4. e \in 1..MaxEpoch /\ Covers(Memory(p), file)
  <2>1. e > 0 /\ Covers(Memory(p), file)
    BY DEF SignerInv, Safe, NeverBehind, NotBehind, Loaded
  <2>2. e \in 0..MaxEpoch
    BY DEF SignerInv, TypeOK
  <2>3. QED
    BY <2>1, <2>2
<1>5. /\ proc[p].counters \in Counters /\ file \in Stored /\ disk \in Stored
      /\ Memory(p) \in Stored /\ c \in 1..MaxCounter
  <2>1. proc[p].counters \in Counters /\ file \in Stored /\ disk \in Stored
    BY DEF SignerInv, TypeOK
  <2>2. QED
    BY <1>1, <1>4, <2>1 DEF Memory, Stored, Counters
<1>6. published[<<e, r, c>>] = 0
  <2>1. <<e, r, c>> \in (1..MaxEpoch) \X Role \X (1..MaxCounter)
    BY <1>4, <1>5
  <2>2. published[<<e, r, c>>] \in Nat
    BY <2>1 DEF SignerInv, TypeOK
  <2>3. SUFFICES ASSUME published[<<e, r, c>>] > 0 PROVE FALSE
    BY <2>2
  <2>4. Reserved(disk, e, r, c)
    <3>1. <<e, r, c>> \in DOMAIN published
      BY <2>1 DEF SignerInv, TypeOK
    <3>2. QED
      BY <2>3, <3>1 DEF SignerInv, Safe, ReservedFirst, Reserved
  <2>5. Covers(Memory(p), disk)
    BY <1>4, <1>5, CoversTransitive DEF SignerInv, Safe, NeverBehind
  <2>6. Reserved(Memory(p), e, r, c)
    BY <1>4, <1>5, <2>4, <2>5, CoversReserved
  <2>7. QED
    BY <1>4, <1>5, <2>6 DEF Reserved, Memory, Counters
<1>7. HeldSafely(p)'
  <2>1. proc'[p].envelope \in Envelope \cup {Nothing}
    BY DEF TypeOK
  <2>2. proc'[p].envelope # Nothing
    BY <1>2, <1>4 DEF Nothing
  <2>3. Key(p)' = <<e, r, c>>
    BY <1>2 DEF Key
  <2>4. Fresh(p)'
    BY <1>1, <1>2, <1>5, <1>6, <2>1, <2>2, <2>3 DEF Fresh, Counters
  <2>5. proc'[p].at = "signed"
    BY <1>2
  <2>6. QED
    BY <2>4, <2>5 DEF HeldSafely
<1>8. NotBehind(p)'
  <2>1. /\ Memory(p)'.epoch = e /\ Memory(p).epoch = e
        /\ \A x \in Role : Memory(p)'.counters[x] = IF x = r THEN c ELSE Memory(p).counters[x]
    BY <1>2, <1>5 DEF Memory, Counters
  <2>2. \A x \in Role : Memory(p).counters[x] \in Int /\ Memory(p).counters[x] <= Memory(p)'.counters[x]
                        /\ Memory(p)'.counters[x] \in Int /\ file.counters[x] \in Int
    BY <1>5, <2>1 DEF Memory, Stored, Counters
  <2>3. file.epoch \in Int
    BY <1>5 DEF Stored
  <2>4. Covers(Memory(p)', file)
    <3>1. CASE file.epoch < e
      BY <2>1, <3>1 DEF Covers
    <3>2. CASE file.epoch = e /\ \A x \in Role : file.counters[x] <= Memory(p).counters[x]
      BY <2>1, <2>2, <3>2 DEF Covers
    <3>3. QED
      BY <1>4, <2>1, <3>1, <3>2 DEF Covers
  <2>5. proc'[p].epoch > 0 /\ file' = file
    BY <1>1, <1>2, <1>4
  <2>6. QED
    BY <2>4, <2>5 DEF NotBehind, Covers
<1>9. Exclusive' /\ NeverBehind' /\ InHand'
  <2>1. proc'[p].at # "off" /\ Covers(file', disk')
    BY <1>1, <1>2 DEF SignerInv, Safe, NeverBehind
  <2>2. QED
    BY <1>1, <1>2, <1>3, <1>7, <1>8, <2>1, OnlyOne
<1>10. QED
  BY <1>1, <1>9, CommittedStep DEF SignerInv, Safe, Committed

\* The rename puts what the instance remembers into the file.
LEMMA ReserveStep ==
  ASSUME SignerInv, NEW p \in Process, Reserve(p)
  PROVE  Safe'
<1>1. proc[p].at = "signed" /\ UNCHANGED <<disk, lock, published>> /\ file' = Memory(p)
  BY DEF Reserve, Memory
<1>2. /\ proc'[p].at = "renamed" /\ proc'[p].epoch = proc[p].epoch
      /\ proc'[p].counters = proc[p].counters /\ proc'[p].envelope = proc[p].envelope
      /\ \A q \in Process \ {p} : proc'[q] = proc[q]
  BY DEF SignerInv, TypeOK, Reserve
<1>3. lock = p /\ \A q \in Process \ {p} : proc[q] = Off
  BY <1>1, Alone DEF SignerInv, Safe
<1>4. proc[p].epoch > 0 /\ Covers(Memory(p), file) /\ Fresh(p)
  BY <1>1 DEF SignerInv, Safe, NeverBehind, InHand, NotBehind, HeldSafely, Loaded, Holding
<1>5. Memory(p) \in Stored /\ file \in Stored /\ disk \in Stored
  <2>1. proc[p].epoch \in 0..MaxEpoch /\ proc[p].counters \in Counters
    BY DEF SignerInv, TypeOK
  <2>2. QED
    BY <2>1 DEF SignerInv, TypeOK, Memory, Stored
<1>6. Covers(file', disk')
  <2>1. Covers(Memory(p), disk)
    BY <1>4, <1>5, CoversTransitive DEF SignerInv, Safe, NeverBehind
  <2>2. QED
    BY <1>1, <2>1
<1>7. Memory(p)' = Memory(p) /\ file' = Memory(p)'
  BY <1>1, <1>2 DEF Memory
<1>8. NotBehind(p)'
  <2>1. Covers(Memory(p), Memory(p))
    BY <1>5 DEF Covers, Stored, Counters
  <2>2. Covers(Memory(p)', file')
    BY <1>7, <2>1
  <2>3. QED
    BY <1>2, <1>4, <2>2 DEF NotBehind
<1>9. HeldSafely(p)'
  <2>1. Fresh(p)'
    BY <1>1, <1>2, <1>4 DEF Fresh, Key
  <2>2. QED
    BY <1>2, <1>7, <2>1 DEF HeldSafely
<1>10. Exclusive' /\ NeverBehind' /\ InHand'
  BY <1>1, <1>2, <1>3, <1>6, <1>8, <1>9, OnlyOne
<1>11. QED
  BY <1>1, <1>10, CommittedStep DEF SignerInv, Safe, Committed

\* The sync of the directory makes the file the disk: the reservation moves up.
LEMMA SyncStep ==
  ASSUME SignerInv, NEW p \in Process, SyncDirectory(p)
  PROVE  Safe'
<1>1. proc[p].at = "renamed" /\ UNCHANGED <<file, lock, published>> /\ disk' = file
  BY DEF SyncDirectory
<1>2. /\ proc'[p].at = "reserved" /\ proc'[p].epoch = proc[p].epoch
      /\ proc'[p].counters = proc[p].counters /\ proc'[p].envelope = proc[p].envelope
      /\ \A q \in Process \ {p} : proc'[q] = proc[q]
  BY DEF SignerInv, TypeOK, SyncDirectory
<1>3. lock = p /\ \A q \in Process \ {p} : proc[q] = Off
  BY <1>1, Alone DEF SignerInv, Safe
<1>4. proc[p].epoch > 0 /\ Covers(Memory(p), file) /\ Fresh(p) /\ file = Memory(p)
  BY <1>1 DEF SignerInv, Safe, NeverBehind, InHand, NotBehind, HeldSafely, Loaded, Holding
<1>5. file \in Stored /\ disk \in Stored
  BY DEF SignerInv, TypeOK
<1>6. Covers(file', disk')
  BY <1>1, <1>5 DEF Covers, Stored, Counters
<1>7. Memory(p)' = Memory(p)
  BY <1>2 DEF Memory
<1>8. NotBehind(p)'
  <2>1. Covers(Memory(p)', file')
    BY <1>1, <1>4, <1>7
  <2>2. QED
    BY <1>2, <1>4, <2>1 DEF NotBehind
<1>9. HeldSafely(p)'
  <2>1. Fresh(p)'
    BY <1>1, <1>2, <1>4 DEF Fresh, Key
  <2>2. QED
    BY <1>1, <1>2, <1>4, <1>7, <2>1 DEF HeldSafely
<1>10. Exclusive' /\ NeverBehind' /\ InHand'
  BY <1>1, <1>2, <1>3, <1>6, <1>8, <1>9, OnlyOne
<1>11. ReservedFirst'
  <2>1. ASSUME NEW k \in DOMAIN published, published[k] > 0
        PROVE  Reserved(disk', k[1], k[2], k[3])
    <3>1. k[1] \in 1..MaxEpoch /\ k[2] \in Role /\ k[3] \in 1..MaxCounter
      BY <2>1 DEF SignerInv, TypeOK
    <3>2. Reserved(disk, k[1], k[2], k[3])
      BY <2>1 DEF SignerInv, Safe, ReservedFirst, Reserved
    <3>3. QED
      BY <1>1, <1>5, <3>1, <3>2, CoversReserved DEF SignerInv, Safe, NeverBehind
  <2>2. QED
    BY <1>1, <2>1 DEF ReservedFirst, Reserved
<1>12. SignedOnce'
  BY <1>1 DEF SignerInv, Safe, SignedOnce
<1>13. QED
  BY <1>10, <1>11, <1>12 DEF Safe

\* What goes out now was seen by nobody, and the disk already holds its counter.
LEMMA PublishStep ==
  ASSUME SignerInv, NEW p \in Process, Publish(p)
  PROVE  Safe'
<1>1. proc[p].at = "reserved" /\ UNCHANGED <<file, disk, lock>>
      /\ published' = [published EXCEPT ![Key(p)] = @ + 1]
  BY DEF Publish, Key
<1>2. /\ proc'[p].at = "idle" /\ proc'[p].epoch = proc[p].epoch
      /\ proc'[p].counters = proc[p].counters
      /\ \A q \in Process \ {p} : proc'[q] = proc[q]
  BY DEF SignerInv, TypeOK, Publish
<1>3. lock = p /\ \A q \in Process \ {p} : proc[q] = Off
  BY <1>1, Alone DEF SignerInv, Safe
<1>4. proc[p].epoch > 0 /\ Covers(Memory(p), file) /\ Fresh(p) /\ file = Memory(p) /\ disk = file
  BY <1>1 DEF SignerInv, Safe, NeverBehind, InHand, NotBehind, HeldSafely, Loaded, Holding
<1>5. Covers(file', disk')
  BY <1>1 DEF SignerInv, Safe, NeverBehind
<1>6. NotBehind(p)' /\ HeldSafely(p)'
  <2>1. Covers(Memory(p)', file')
    BY <1>1, <1>2, <1>4 DEF Memory
  <2>2. QED
    BY <1>2, <1>4, <2>1 DEF NotBehind, HeldSafely, Holding
<1>7. Exclusive' /\ NeverBehind' /\ InHand'
  <2>1. proc'[p].at # "off" /\ lock' = p
    BY <1>1, <1>2, <1>3
  <2>2. QED
    BY <1>2, <1>3, <1>5, <1>6, <2>1, OnlyOne
<1>8. Key(p) \in (1..MaxEpoch) \X Role \X (1..MaxCounter)
  BY <1>4 DEF Fresh, Key, Envelope
<1>9. /\ DOMAIN published' = DOMAIN published
      /\ published'[Key(p)] = 1
      /\ \A k \in DOMAIN published \ {Key(p)} : published'[k] = published[k]
  <2>1. published[Key(p)] = 0
    BY <1>4 DEF Fresh
  <2>2. published \in [(1..MaxEpoch) \X Role \X (1..MaxCounter) -> Nat]
    BY DEF SignerInv, TypeOK
  <2>3. QED
    BY <1>1, <1>8, <2>1, <2>2
<1>10. ReservedFirst'
  <2>1. ASSUME NEW k \in DOMAIN published, published'[k] > 0
        PROVE  Reserved(disk, k[1], k[2], k[3])
    <3>1. CASE k = Key(p)
      <4>1. k[1] = proc[p].epoch /\ k[2] = proc[p].envelope.role /\ k[3] = proc[p].counters[k[2]]
        BY <1>4, <3>1 DEF Fresh, Key
      <4>2. disk.epoch = k[1] /\ disk.counters[k[2]] = k[3] /\ k[3] \in Int
        BY <1>4, <1>8, <3>1, <4>1 DEF Memory
      <4>3. QED
        BY <4>2 DEF Reserved
    <3>2. CASE k # Key(p)
      BY <1>9, <2>1, <3>2 DEF SignerInv, Safe, ReservedFirst, Reserved
    <3>3. QED
      BY <3>1, <3>2
  <2>2. QED
    BY <1>1, <1>9, <2>1 DEF ReservedFirst, Reserved
<1>11. SignedOnce'
  BY <1>9 DEF SignerInv, Safe, SignedOnce
<1>12. QED
  BY <1>7, <1>10, <1>11 DEF Safe

\* Whatever the power failure left, nobody remembers anything else.
LEMMA PowerFailsStep ==
  ASSUME SignerInv, PowerFails
  PROVE  Safe'
<1>1. /\ file' = disk' /\ disk' \in {file, disk} /\ UNCHANGED published
      /\ \A p \in Process : proc'[p] = Off
  BY DEF PowerFails
<1>2. file \in Stored /\ disk \in Stored
  BY DEF SignerInv, TypeOK
<1>3. \A p \in Process : proc'[p].at = "off"
  BY <1>1 DEF Off
<1>4. Exclusive' /\ \A p \in Process : NotBehind(p)' /\ HeldSafely(p)'
  BY <1>1, <1>3 DEF Exclusive, NotBehind, HeldSafely, Loaded, Holding
<1>5. Covers(file', disk') /\ Covers(disk', disk)
  <2>1. \A x \in Stored : Covers(x, x)
    BY DEF Covers, Stored, Counters
  <2>2. Covers(file, disk)
    BY DEF SignerInv, Safe, NeverBehind
  <2>3. QED
    BY <1>1, <1>2, <2>1, <2>2
<1>6. ReservedFirst'
  <2>1. ASSUME NEW k \in DOMAIN published, published[k] > 0
        PROVE  Reserved(disk', k[1], k[2], k[3])
    <3>1. k[1] \in 1..MaxEpoch /\ k[2] \in Role /\ k[3] \in 1..MaxCounter
      BY <2>1 DEF SignerInv, TypeOK
    <3>2. Reserved(disk, k[1], k[2], k[3])
      BY <2>1 DEF SignerInv, Safe, ReservedFirst, Reserved
    <3>3. disk' \in Stored
      BY <1>1, <1>2
    <3>4. QED
      BY <1>2, <1>5, <3>1, <3>2, <3>3, CoversReserved
  <2>2. QED
    BY <1>1, <2>1 DEF ReservedFirst, Reserved
<1>7. SignedOnce'
  BY <1>1 DEF SignerInv, Safe, SignedOnce
<1>8. QED
  BY <1>4, <1>5, <1>6, <1>7 DEF Safe, NeverBehind, InHand

\* The operator and the clock touch nothing of it.
LEMMA ElsewhereStep ==
  ASSUME SignerInv, UNCHANGED <<file, disk, lock, proc, published>>
  PROVE  Safe'
BY DEF SignerInv, Safe, Exclusive, NeverBehind, InHand, ReservedFirst, SignedOnce,
       NotBehind, HeldSafely, Fresh, Key, Memory, Covers

-----------------------------------------------------------------------------
LEMMA Initially ==
  Init => SignerInv
<1> SUFFICES ASSUME Init PROVE SignerInv
  OBVIOUS
<1> USE DEF Init
<1>1. Zero \in Counters /\ \A r \in Role : Zero[r] = 0
  BY DEF Zero, Counters
<1>2. Off \in [at : Places, epoch : 0..MaxEpoch, counters : Counters, seq : 0..MaxCounter,
               envelope : Envelope \cup {Nothing}]
  BY <1>1 DEF Off, Places
<1>3. file \in Stored /\ disk \in Stored
  BY <1>1 DEF Stored
<1>4. TypeOK
  <2>1. published \in [(1..MaxEpoch) \X Role \X (1..MaxCounter) -> Nat]
    OBVIOUS
  <2>2. trust \in 1..MaxEpoch
    OBVIOUS
  <2>3. clock \in BOOLEAN /\ lock \in Process \cup {Nobody}
    OBVIOUS
  <2>4. proc \in [Process -> [at : Places, epoch : 0..MaxEpoch, counters : Counters,
                              seq : 0..MaxCounter, envelope : Envelope \cup {Nothing}]]
    BY <1>2
  <2>5. QED
    BY <1>3, <2>1, <2>2, <2>3, <2>4 DEF TypeOK
<1>5. Numbered
  BY <1>1 DEF Numbered, Off
<1>6. \A p \in Process : proc[p] = Off /\ proc[p].at = "off"
  BY DEF Off
<1>7. Exclusive /\ \A p \in Process : NotBehind(p) /\ HeldSafely(p)
  BY <1>6 DEF Exclusive, NotBehind, HeldSafely, Loaded, Holding
<1>8. Covers(file, disk)
  BY <1>3 DEF Covers, Stored, Counters
<1>9. ReservedFirst /\ SignedOnce
  BY DEF ReservedFirst, SignedOnce
<1>10. QED
  BY <1>4, <1>5, <1>7, <1>8, <1>9 DEF SignerInv, Safe, NeverBehind, InHand

LEMMA Inductive ==
  SignerInv /\ [Next]_vars => SignerInv'
<1> SUFFICES ASSUME SignerInv, [Next]_vars PROVE SignerInv'
  OBVIOUS
<1>1. TypeOK' /\ Numbered'
  BY TypeStep DEF SignerInv, Safe
<1>2. Safe'
  <2>1. CASE UNCHANGED vars
    BY <2>1, ElsewhereStep DEF vars
  <2>2. CASE PowerFails
    BY <2>2, PowerFailsStep
  <2>3. CASE ClockFound \/ \E e \in 1..MaxEpoch : Provision(e)
    BY <2>3, ElsewhereStep DEF ClockFound, Provision
  <2>4. ASSUME NEW p \in Process, Open(p) \/ Load(p) \/ Reserve(p) \/ SyncDirectory(p)
        PROVE  Safe'
    BY <2>4, OpenStep, LoadStep, ReserveStep, SyncStep
  <2>5. ASSUME NEW p \in Process, Publish(p) \/ Dies(p)
        PROVE  Safe'
    BY <2>5, PublishStep, EndsStep DEF Dies
  <2>6. ASSUME NEW p \in Process, NEW r \in Role, Forward(p, r)
        PROVE  Safe'
    BY <1>1, <2>6, SignStep DEF Forward
  <2>7. ASSUME NEW p \in Process, NEW a \in Actions, NEW f \in Frames, Propose(p, a, f)
        PROVE  Safe'
    BY <1>1, <2>7, SignStep DEF Propose
  <2>8. QED
    BY <2>1, <2>2, <2>3, <2>4, <2>5, <2>6, <2>7 DEF Next
<1>3. QED
  BY <1>1, <1>2 DEF SignerInv

LEMMA Invariance ==
  Spec => []SignerInv
BY Initially, Inductive, PTL DEF Spec

\* The variables stay in their types: counters and epochs in their bounds,
\* envelopes complete, whoever starts and dies (signing.py, counter_store.py).
THEOREM TypeCorrect ==
  Spec => []TypeOK
<1>1. SignerInv => TypeOK
  BY DEF SignerInv
<1>2. QED
  BY <1>1, Invariance, PTL

\* No counter of an epoch is ever published twice, for any number of instances:
\* the flock of counter_store.py and the order of source_node.py send (reserve,
\* then publish) are enough, against every crash and power failure.
THEOREM AlwaysSignedOnce ==
  Spec => []SignedOnce
<1>1. SignerInv => SignedOnce
  BY DEF SignerInv, Safe
<1>2. QED
  BY <1>1, Invariance, PTL

\* Whatever was published is covered by what a power failure would leave on the
\* disk (counter_store.py reserve: the directory is synced before send publishes).
THEOREM AlwaysReservedFirst ==
  Spec => []ReservedFirst
<1>1. SignerInv => ReservedFirst
  BY DEF SignerInv, Safe
<1>2. QED
  BY <1>1, Invariance, PTL

\* The durable reservation never goes back, neither by a power failure nor under
\* a bundle provisioned by mistake (signing.py refuses the bundle that is older).
THEOREM AlwaysReservationGrows ==
  Spec => ReservationGrows
<1> DEFINE Grown == \/ disk'.epoch > disk.epoch
                    \/ /\ disk'.epoch = disk.epoch
                       /\ \A r \in Role : disk'.counters[r] >= disk.counters[r]
<1>1. ASSUME SignerInv, SignerInv', [Next]_vars PROVE [Grown]_vars
  <2>1. file \in Stored /\ disk \in Stored /\ disk' \in Stored
    BY <1>1 DEF SignerInv, TypeOK
  <2>2. \A s \in Stored : s.epoch \in Int /\ \A r \in Role : s.counters[r] \in Int
    BY DEF Stored, Counters
  <2>3. ASSUME Covers(disk', disk) PROVE Grown
    BY <2>1, <2>2, <2>3 DEF Covers
  <2>4. CASE disk' = disk
    BY <2>1, <2>2, <2>3, <2>4 DEF Covers
  <2>5. CASE disk' = file
    BY <1>1, <2>3, <2>5 DEF SignerInv, Safe, NeverBehind
  <2>6. disk' = disk \/ disk' = file \/ UNCHANGED vars
    BY <1>1 DEF Next, Open, Load, Ends, Reserve, SyncDirectory, Publish, Dies, Forward, Propose,
                Sign, PowerFails, Provision, ClockFound
  <2>7. QED
    BY <2>4, <2>5, <2>6
<1>2. QED
  BY <1>1, Invariance, PTL DEF Spec, ReservationGrows
=============================================================================
