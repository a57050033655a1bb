--------------------------- MODULE SessionProofs ----------------------------
(***************************************************************************)
(* The H1 bench, for every value of its parameters that the code could have:    *)
(* the LED is lit only by a recent approval, and a fault darkens it in time.     *)
(*                                                                         *)
(* No single step sees both ends.  The argument follows the challenge: whoever   *)
(* names the board's present challenge learnt it from the board after the board  *)
(* issued it (Carried, Knows, with Told for the numbers and Dated for the time), *)
(* so the approval a RUN carries is no older than the challenge it answers,      *)
(* and the board accepts it for less than Challenge ms and lights for less than  *)
(* Lease ms more (Guarded).  A fault begins with a cycle, when nothing of the    *)
(* session is under way (Alternates); what is approved after it rests on the     *)
(* last world before it (Fading), or on nothing (Ended).                         *)
(*                                                                         *)
(* The arm fault sessions of the Gazebo rig, at the end: an OFF is settled as     *)
(* the one request it was, and a session passes on the controller's own hold.     *)
(* The numbers of the one signed writer only grow (Numbered), so the decision on  *)
(* the number the rig predicted (Piped) says that nothing before it is left       *)
(* (NoOffLeft); a token counts for one activation only (ThisSession), and the      *)
(* reset that unlocked the arm is older than the goal that moves it (ResetBefore), *)
(* so a hold after the fault is for good (HeldOn).                                *)
(***************************************************************************)
EXTENDS BenchSession, ArmFault, TLAPS

-----------------------------------------------------------------------------
(* The types, and the invariant.                                            *)

Clock == 0 .. (Wrap - 1)
Op    == {"HELLO", "ARM", "RUN", "STATUS", "STOP"}
Place == {"boot", "send", "link", "cycle", "world", "motion", "ack", "final", "done"}

Lines   == [op : Op, sess : Nat, seq : Nat, chal : Nat, age : Nat]
Replies == [ok : BOOLEAN, sess : Nat, seq : Nat, chal : Nat, state : {"ON", "ARMED", "LOCKED"}]

BoardState ==
  [sess : Nat, seq : Nat, chal : Nat, issued : Clock, renewed : Clock,
   canArm : BOOLEAN, armed : BOOLEAN, on : BOOLEAN, ok : BOOLEAN, age : Nat]

WireState == [cmds : Seq(Lines), replies : Seq(Replies)]

HostState ==
  [sess : Nat, pc : Place, seq : Nat, chal : Nat, op : Op, waited : Nat, limit : Int,
   begun : Nat, fault : Faults \cup {"none"}, faultAge : 0 .. Old]

GateState ==
  [world : Nat, positive : BOOLEAN, served : BOOLEAN, reported : Nat, approved : BOOLEAN]

TypeOK ==
  /\ clk \in Clock
  /\ board \in BoardState
  /\ wire \in WireState
  /\ host \in HostState
  /\ gate \in GateState

\* How long ago, for the board, at the time t of its clock.
Ago(t, then) == (t - then) % Wrap

\* The board b by itself, at time t: while it is armed its ages do not wrap.
Guarded(b, t) ==
  /\ b.armed => /\ ~b.canArm
                /\ Ago(t, b.issued) <= Ago(t, b.renewed) /\ Ago(t, b.renewed) < Lease
  /\ b.on => b.armed /\ b.age < Challenge + Ago(t, b.renewed)

\* Who knows the challenge of that number has it from the board, which has not
\* opened that session again.
Told(sess, chal, b) ==
  /\ b.sess <= sess
  /\ b.sess < sess => chal = 0
  /\ b.sess = sess => chal <= b.chal

\* An approval of that age began after the present challenge, if it is for it.
Dated(sess, chal, age, b, t) ==
  b.armed /\ sess = b.sess /\ chal = b.chal => age <= Ago(t, b.issued)

\* A cycle has begun and its RUN is not sent yet.
Asking(h) == h.pc \in {"world", "motion"} \/ (h.pc = "send" /\ h.op = "RUN")

\* The link keeps the order of the sessions, and what is on it was told.
Carried(w, b, h, t) ==
  /\ \A i \in DOMAIN w.cmds :
       /\ w.cmds[i].sess <= h.sess
       /\ Told(w.cmds[i].sess, w.cmds[i].chal, b)
       /\ w.cmds[i].op = "RUN" => Dated(w.cmds[i].sess, w.cmds[i].chal, w.cmds[i].age, b, t)
       /\ \A j \in DOMAIN w.cmds : i < j => w.cmds[i].sess <= w.cmds[j].sess
  /\ \A i \in DOMAIN w.replies :
       /\ w.replies[i].sess <= b.sess
       /\ w.replies[i].sess = b.sess => w.replies[i].chal <= b.chal

Knows(h, b, t) ==
  /\ Told(h.sess, h.chal, b)
  /\ Asking(h) => Dated(h.sess, h.chal, h.begun, b, t)

\* One line of a session is under way at a time, until the host gives up.
Quiet(w, s) ==
  /\ \A i \in DOMAIN w.cmds : w.cmds[i].sess # s
  /\ \A i \in DOMAIN w.replies : w.replies[i].sess # s
Alternates(w, h) ==
  /\ h.pc \notin {"link", "final", "done"} => Quiet(w, h.sess)
  /\ h.pc = "link" =>
       \A i \in DOMAIN w.cmds : w.cmds[i].sess = h.sess =>
         i = Len(w.cmds) /\ \A j \in DOMAIN w.replies : w.replies[j].sess # h.sess

\* A run begins with a HELLO, a cycle with a motion that is not served yet.
Begins(h, g) ==
  /\ h.pc = "boot" => h.op = "HELLO" /\ h.fault = "none"
  /\ h.pc = "world" => ~g.served

\* The decision that may still become a RUN.
Positive(h, g) == (h.pc = "motion" /\ g.served /\ g.positive) \/ (h.pc = "send" /\ h.op = "RUN")
Runs(w, s) == {i \in DOMAIN w.cmds : w.cmds[i].op = "RUN" /\ w.cmds[i].sess = s}

\* After the loss of the world what is approved and lit rests on the last one.
Fading(b, w, h, g) ==
  /\ g.world <= WorldMaxAge => h.faultAge <= g.world
  /\ Positive(h, g) /\ h.begun < Permit => h.faultAge <= h.begun + WorldMaxAge
  /\ \A i \in Runs(w, h.sess) : h.faultAge <= w.cmds[i].age + WorldMaxAge
  /\ b.on /\ b.sess = h.sess => h.faultAge <= b.age + WorldMaxAge

\* After any other fault nothing is approved, and nothing was under way.
Ended(b, w, h, g, t) ==
  /\ ~Positive(h, g)
  /\ Runs(w, h.sess) = {}
  /\ b.on /\ b.sess = h.sess => h.faultAge <= Ago(t, b.renewed)

Faulted(b, w, h, g, t) ==
  /\ h.fault = "world-loss" => Fading(b, w, h, g)
  /\ h.fault \notin {"none", "world-loss"} => Ended(b, w, h, g, t)

IInv ==
  /\ TypeOK
  /\ Guarded(board, clk)
  /\ Carried(wire, board, host, clk)
  /\ Knows(host, board, clk)
  /\ Alternates(wire, host)
  /\ Begins(host, gate)
  /\ Faulted(board, wire, host, gate, clk)

-----------------------------------------------------------------------------
(* The board's clock, and sequences.                                        *)

\* What remains modulo Wrap is a value of the clock.
LEMMA Remainder ==
  ASSUME Parameters, NEW a \in Int
  PROVE  /\ a % Wrap \in Clock
         /\ 0 <= a /\ a < Wrap => a % Wrap = a
         /\ -Wrap <= a /\ a < 0 => a % Wrap = a + Wrap
         /\ Wrap % Wrap = 0
<1>1. Wrap \in Nat \ {0}
  BY DEF Parameters
<1>2. QED
  BY <1>1 DEF Clock

\* An age that the board computes is a value of the clock (uint32_t differences).
LEMMA AgoType ==
  ASSUME Parameters, NEW t \in Clock, NEW s \in Clock
  PROVE  /\ Ago(t, s) \in Clock
         /\ Ago(t, t) = 0
         /\ Wrap \in Nat /\ Clock \subseteq Nat
<1>1. Wrap \in Nat \ {0} /\ Clock \subseteq Nat
  BY DEF Parameters, Clock
<1>2. QED
  BY <1>1, Remainder DEF Ago, Clock

\* The next tick of the clock, which may wrap, is one later for every age that
\* does not.
LEMMA AgoLater ==
  ASSUME Parameters, NEW t \in Clock, NEW s \in Clock, Ago(t, s) < Wrap - 1
  PROVE  /\ (t + 1) % Wrap \in Clock
         /\ Ago((t + 1) % Wrap, s) = Ago(t, s) + 1
<1>1. Wrap \in Nat \ {0} /\ t \in Int /\ s \in Int /\ 0 <= t /\ t < Wrap /\ 0 <= s /\ s < Wrap
  BY DEF Parameters, Clock
<1>2. (t + 1) % Wrap \in Clock /\ (t + 1) % Wrap = IF t + 1 = Wrap THEN 0 ELSE t + 1
  BY <1>1, Remainder
<1>3. Ago(t, s) = IF s <= t THEN t - s ELSE t - s + Wrap
  BY <1>1, Remainder DEF Ago
<1>4. CASE t + 1 = Wrap
  <2>1. Ago(0, s) = IF s = 0 THEN 0 ELSE Wrap - s
    BY <1>1, Remainder DEF Ago
  <2>2. QED
    BY <1>1, <1>2, <1>3, <1>4, <2>1
<1>5. CASE t + 1 # Wrap
  <2>1. Ago(t + 1, s) = IF s <= t + 1 THEN t + 1 - s ELSE t + 1 - s + Wrap
    BY <1>1, <1>5, Remainder DEF Ago
  <2>2. QED
    BY <1>1, <1>2, <1>3, <1>5, <2>1
<1>6. QED
  BY <1>4, <1>5

\* Every entry of a queue is typed.
LEMMA Entries ==
  ASSUME NEW S, NEW s \in Seq(S)
  PROVE  \A i \in DOMAIN s : s[i] \in S
  OBVIOUS

\* A line at the end of a queue leaves the others where they are.
LEMMA Appended ==
  ASSUME NEW S, NEW s \in Seq(S), NEW x \in S
  PROVE  /\ Append(s, x) \in Seq(S) /\ Len(s) \in Nat
         /\ Len(Append(s, x)) = Len(s) + 1
         /\ DOMAIN s = 1 .. Len(s) /\ DOMAIN Append(s, x) = 1 .. (Len(s) + 1)
         /\ \A i \in 1 .. Len(s) : Append(s, x)[i] = s[i]
         /\ Append(s, x)[Len(s) + 1] = x
  OBVIOUS

\* The first line leaves; the others move up.
LEMMA Tailed ==
  ASSUME NEW S, NEW s \in Seq(S), s # <<>>
  PROVE  /\ Head(s) = s[1] /\ s[1] \in S /\ 1 \in DOMAIN s
         /\ Len(s) \in Nat /\ Len(s) >= 1
         /\ Tail(s) \in Seq(S) /\ Len(Tail(s)) = Len(s) - 1
         /\ DOMAIN s = 1 .. Len(s) /\ DOMAIN Tail(s) = 1 .. (Len(s) - 1)
         /\ \A i \in 1 .. (Len(s) - 1) : Tail(s)[i] = s[i + 1] /\ i + 1 \in 1 .. Len(s)
  OBVIOUS

\* A queue whose lines have aged is still that queue.
LEMMA Aged ==
  ASSUME NEW S, NEW s \in Seq(S), NEW v, v = [i \in DOMAIN s |-> v[i]],
         \A i \in DOMAIN s : v[i] \in S
  PROVE  v \in Seq(S) /\ Len(v) = Len(s) /\ DOMAIN v = DOMAIN s
<1>1. DOMAIN s = 1 .. Len(s) /\ Len(s) \in Nat /\ DOMAIN v = DOMAIN s
  OBVIOUS
<1>2. v \in [1 .. Len(s) -> S]
  BY <1>1
<1>3. v \in Seq(S)
  BY <1>1, <1>2
<1>4. QED
  BY <1>1, <1>3

-----------------------------------------------------------------------------
(* The board's commands.                                                    *)

\* The board m comes after b: with a new session, a new challenge, or the same
\* challenge and not armed since.
Follows(m, b) ==
  \/ m.sess > b.sess /\ ~m.armed
  \/ /\ m.sess = b.sess
     /\ \/ m.chal > b.chal
        \/ m.chal = b.chal /\ m.issued = b.issued /\ (m.armed => b.armed)

\* What every command leaves of the board b at time t.
Proper(m, b, t) == m \in BoardState /\ Guarded(m, t) /\ Follows(m, b)

\* The LED stays as it was, or a RUN of that session has lit it.
LitBy(m, b, op, sess, age) ==
  m.on => \/ b.on /\ m.sess = b.sess /\ m.renewed = b.renewed /\ m.age = b.age
          \/ op = "RUN" /\ m.sess = sess /\ m.age = age

\* fail() leaves a dark board with the challenge it had.
LEMMA FailFields ==
  ASSUME Parameters, NEW b \in BoardState
  PROVE  /\ Fail(b) \in BoardState
         /\ Fail(b).sess = b.sess /\ Fail(b).seq = b.seq /\ Fail(b).chal = b.chal
         /\ Fail(b).issued = b.issued
         /\ ~Fail(b).armed /\ ~Fail(b).on /\ ~Fail(b).canArm
<1>1. Old \in Nat
  BY DEF Old, Parameters
<1>2. QED
  BY <1>1 DEF Fail, BoardState

\* Refusing a line or garbage is proper.
LEMMA FailProper ==
  ASSUME Parameters, NEW b \in BoardState, NEW t
  PROVE  Proper(Fail(b), b, t) /\ ~Fail(b).on /\ Fail(b).sess = b.sess
  BY FailFields DEF Proper, Guarded, Follows

\* What was told and dated stays so, unless its session is over.
LEMMA FollowsLater ==
  ASSUME NEW b \in BoardState, NEW m \in BoardState, Follows(m, b),
         NEW sess \in Nat, NEW chal \in Nat, NEW age \in Nat, NEW t,
         m.sess <= sess, Told(sess, chal, b)
  PROVE  /\ Told(sess, chal, m)
         /\ Dated(sess, chal, age, b, t) => Dated(sess, chal, age, m, t)
<1>1. b.sess \in Nat /\ m.sess \in Nat /\ b.chal \in Nat /\ m.chal \in Nat
  BY DEF BoardState
<1>2. CASE m.sess > b.sess /\ ~m.armed
  BY <1>1, <1>2 DEF Told, Dated
<1>3. CASE m.sess = b.sess /\ m.chal > b.chal
  BY <1>1, <1>3 DEF Told, Dated
<1>4. CASE m.sess = b.sess /\ m.chal = b.chal /\ m.issued = b.issued /\ (m.armed => b.armed)
  BY <1>1, <1>4 DEF Told, Dated
<1>5. QED
  BY <1>2, <1>3, <1>4 DEF Follows

\* A HELLO opens a later session, or is refused (guard.h command).
LEMMA OpenedProper ==
  ASSUME Parameters, NEW b \in BoardState, NEW c \in Lines, clk \in Clock, b.sess <= c.sess
  PROVE  /\ Proper(Opened(b, c), b, clk) /\ ~Opened(b, c).on
         /\ Opened(b, c).sess = c.sess
<1> DEFINE m == [Fail(b) EXCEPT !.sess = c.sess, !.canArm = TRUE, !.ok = TRUE,
                                !.seq = 0, !.chal = 1, !.issued = clk]
<1>1. CASE b.sess = c.sess
  BY <1>1, FailProper DEF Opened
<1>2. CASE b.sess # c.sess
  <2>1. /\ m \in BoardState /\ m.sess = c.sess /\ ~m.armed /\ ~m.on
    BY FailFields DEF BoardState, Lines
  <2>2. b.sess \in Nat /\ c.sess \in Nat
    BY DEF BoardState, Lines
  <2> HIDE DEF m
  <2>3. QED
    BY <1>2, <2>1, <2>2 DEF Opened, Proper, Guarded, Follows, m
<1>3. QED
  BY <1>1, <1>2

\* Every other line is refused or answers the present challenge; only a RUN
\* that began after it lights the LED.
LEMMA CommandedProper ==
  ASSUME Parameters, NEW b \in BoardState, NEW c \in Lines, clk \in Clock, Guarded(b, clk),
         c.op # "HELLO", c.op = "RUN" => Dated(c.sess, c.chal, c.age, b, clk)
  PROVE  /\ Proper(Commanded(b, c), b, clk) /\ Commanded(b, c).sess = b.sess
         /\ LitBy(Commanded(b, c), b, c.op, c.sess, c.age)
<1> DEFINE m == Commanded(b, c)
           next == [b EXCEPT !.seq = c.seq, !.chal = @ + 1, !.issued = clk, !.ok = TRUE]
           refused == \/ b.sess # c.sess \/ c.seq # b.seq + 1 \/ c.chal # b.chal
                      \/ ~Timely(b, c.op)
                      \/ c.op = "ARM" /\ ~b.canArm
                      \/ c.op = "RUN" /\ ~b.armed
<1>1. /\ c.op \in Op /\ c.sess \in Nat /\ c.seq \in Nat /\ c.age \in Nat
      /\ b.chal \in Nat /\ b.chal + 1 \in Nat /\ b.sess \in Nat /\ b.age \in Nat
      /\ b.issued \in Clock /\ b.renewed \in Clock
      /\ Lease \in Nat /\ Lease > 0 /\ Challenge \in Nat /\ Challenge > 0
  BY DEF Lines, BoardState, Parameters
<1>2. Ago(clk, clk) = 0 /\ Ago(clk, b.renewed) \in Nat /\ Ago(clk, b.issued) \in Nat
  BY <1>1, AgoType
<1>3. /\ next \in BoardState /\ next.sess = b.sess /\ next.chal = b.chal + 1
      /\ next.issued = clk /\ next.renewed = b.renewed /\ next.armed = b.armed
      /\ next.canArm = b.canArm /\ next.on = b.on /\ next.age = b.age
  BY <1>1 DEF BoardState
<1> HIDE DEF next
<1>4. CASE refused
  <2>1. m = Fail(b)
    BY <1>4 DEF Commanded
  <2>2. QED
    BY <2>1, FailProper DEF LitBy
<1>5. CASE ~refused /\ c.op = "ARM"
  <2>1. m = [next EXCEPT !.canArm = FALSE, !.armed = TRUE, !.renewed = clk]
    BY <1>5 DEF Commanded, next
  <2>2. /\ m \in BoardState /\ m.sess = b.sess /\ m.chal = b.chal + 1 /\ m.issued = clk
        /\ m.renewed = clk /\ m.armed /\ ~m.canArm /\ m.on = b.on
    BY <1>3, <2>1 DEF BoardState
  <2>3. ~b.on
    BY <1>5 DEF Guarded
  <2> HIDE DEF m
  <2>4. QED
    BY <1>1, <1>2, <2>2, <2>3 DEF Proper, Guarded, Follows, LitBy, m
<1>6. CASE ~refused /\ c.op = "RUN"
  <2>1. m = [next EXCEPT !.on = TRUE, !.renewed = clk, !.age = c.age]
    BY <1>6 DEF Commanded, next
  <2>2. /\ m \in BoardState /\ m.sess = b.sess /\ m.chal = b.chal + 1 /\ m.issued = clk
        /\ m.renewed = clk /\ m.armed = b.armed /\ m.canArm = b.canArm /\ m.on
        /\ m.age = c.age
    BY <1>1, <1>3, <2>1 DEF BoardState
  <2>3. b.armed /\ ~b.canArm /\ b.sess = c.sess /\ c.chal = b.chal
    BY <1>6 DEF Guarded
  <2>4. c.age < Challenge
    <3>1. Ago(clk, b.issued) < Challenge
      BY <1>6 DEF Timely, Since, Ago
    <3>2. c.age <= Ago(clk, b.issued)
      BY <1>6, <2>3 DEF Dated
    <3>3. QED
      BY <1>1, <1>2, <3>1, <3>2
  <2> HIDE DEF m
  <2>5. QED
    BY <1>1, <1>2, <1>6, <2>2, <2>3, <2>4 DEF Proper, Guarded, Follows, LitBy, m
<1>7. CASE ~refused /\ c.op = "STOP"
  <2>1. m = [Fail(next) EXCEPT !.ok = TRUE]
    BY <1>7 DEF Commanded, next
  <2> DEFINE f == Fail(next)
  <2>2. /\ f \in BoardState /\ f.sess = b.sess /\ f.chal = b.chal + 1 /\ ~f.armed /\ ~f.on
    BY <1>3, FailFields
  <2> HIDE DEF f, m
  <2>3. /\ m \in BoardState /\ m.sess = b.sess /\ m.chal = b.chal + 1 /\ ~m.armed /\ ~m.on
    BY <2>1, <2>2 DEF BoardState, f
  <2>4. QED
    BY <1>1, <2>3 DEF Proper, Guarded, Follows, LitBy, m
<1>8. CASE ~refused /\ c.op = "STATUS"
  <2>1. m = next
    BY <1>8 DEF Commanded, next
  <2> HIDE DEF m
  <2>2. QED
    BY <1>1, <1>2, <1>3, <2>1 DEF Proper, Guarded, Follows, LitBy, m
<1>9. QED
  BY <1>1, <1>4, <1>5, <1>6, <1>7, <1>8 DEF Op

-----------------------------------------------------------------------------
(* The steps of the board.                                                  *)

\* The parts of a well-typed state.
LEMMA Parts ==
  ASSUME TypeOK
  PROVE  /\ clk \in Clock /\ board \in BoardState /\ wire \in WireState
         /\ host \in HostState /\ gate \in GateState
         /\ wire.cmds \in Seq(Lines) /\ wire.replies \in Seq(Replies)
         /\ board.sess \in Nat /\ board.chal \in Nat /\ board.age \in Nat
         /\ host.sess \in Nat /\ host.chal \in Nat /\ host.begun \in Nat
         /\ host.faultAge \in Nat /\ gate.world \in Nat
<1>1. host.faultAge \in 0 .. Old
  BY DEF TypeOK, HostState
<1>2. QED
  BY <1>1 DEF TypeOK, BoardState, WireState, HostState, GateState

\* What a fault has left the light to rest on is still there after a command.
LEMMA CommandFaulted ==
  ASSUME NEW b, NEW m, NEW w, NEW v, NEW h, NEW g, NEW t, NEW k \in DOMAIN w.cmds,
         Faulted(b, w, h, g, t),
         LitBy(m, b, w.cmds[k].op, w.cmds[k].sess, w.cmds[k].age),
         \A i \in DOMAIN v.cmds : \E j \in DOMAIN w.cmds : v.cmds[i] = w.cmds[j]
  PROVE  Faulted(m, v, h, g, t)
<1>1. \A i \in Runs(v, h.sess) : \E j \in Runs(w, h.sess) : v.cmds[i] = w.cmds[j]
  BY DEF Runs
<1>2. m.on /\ m.sess = h.sess =>
        \/ b.on /\ b.sess = h.sess /\ m.renewed = b.renewed /\ m.age = b.age
        \/ k \in Runs(w, h.sess) /\ m.age = w.cmds[k].age
  BY DEF LitBy, Runs
<1>3. Fading(b, w, h, g) => Fading(m, v, h, g)
  BY <1>1, <1>2 DEF Fading
<1>4. Ended(b, w, h, g, t) => Ended(m, v, h, g, t)
  BY <1>1, <1>2 DEF Ended
<1>5. QED
  BY <1>3, <1>4 DEF Faulted

\* A line reaches the board.
LEMMA CommandHolds == ASSUME Parameters, IInv, BoardCommand PROVE IInv'
<1> DEFINE c == wire.cmds[1]
           m == board'
           n == Len(wire.cmds)
           q == wire.replies
<1>1. /\ clk \in Clock /\ board \in BoardState /\ wire \in WireState
      /\ host \in HostState /\ gate \in GateState
      /\ wire.cmds \in Seq(Lines) /\ q \in Seq(Replies)
      /\ board.sess \in Nat /\ board.chal \in Nat /\ host.sess \in Nat /\ host.chal \in Nat
      /\ host.begun \in Nat
  BY Parts DEF IInv
<1>2. /\ Head(wire.cmds) = c /\ c \in Lines /\ 1 \in DOMAIN wire.cmds /\ n \in Nat /\ n >= 1
      /\ Tail(wire.cmds) \in Seq(Lines) /\ Len(Tail(wire.cmds)) = n - 1
      /\ DOMAIN wire.cmds = 1 .. n /\ DOMAIN Tail(wire.cmds) = 1 .. (n - 1)
      /\ \A i \in 1 .. (n - 1) : Tail(wire.cmds)[i] = wire.cmds[i + 1] /\ i + 1 \in 1 .. n
  BY <1>1, Tailed DEF BoardCommand
<1>3. /\ Carried(wire, board, host, clk) /\ Knows(host, board, clk) /\ Guarded(board, clk)
      /\ Alternates(wire, host) /\ Faulted(board, wire, host, gate, clk)
  BY DEF IInv
<1>4. /\ c.sess \in Nat /\ c.op \in Op /\ board.sess <= c.sess /\ c.sess <= host.sess
      /\ c.op = "RUN" => Dated(c.sess, c.chal, c.age, board, clk)
  BY <1>2, <1>3 DEF Carried, Told, Lines
<1>5. /\ m = IF c.op = "HELLO" THEN Opened(board, c) ELSE Commanded(board, c)
      /\ wire' = [cmds |-> Tail(wire.cmds), replies |-> Append(q, Reply(m))]
      /\ clk' = clk /\ host' = host /\ gate' = gate
  BY <1>2 DEF BoardCommand
<1> HIDE DEF c, m, n
<1>6. Proper(m, board, clk) /\ m.sess <= c.sess /\ LitBy(m, board, c.op, c.sess, c.age)
  <2>1. CASE c.op = "HELLO"
    BY <1>1, <1>2, <1>4, <1>5, <2>1, OpenedProper DEF LitBy
  <2>2. CASE c.op # "HELLO"
    BY <1>1, <1>2, <1>3, <1>4, <1>5, <2>2, CommandedProper
  <2>3. QED
    BY <2>1, <2>2
<1>7. /\ m \in BoardState /\ Follows(m, board) /\ Guarded(m, clk)
      /\ m.sess \in Nat /\ m.chal \in Nat
      /\ m.sess >= board.sess /\ (m.sess = board.sess => m.chal >= board.chal)
  BY <1>1, <1>6 DEF Proper, Follows, BoardState
<1> DEFINE r == Reply(m)
<1>8. r \in Replies /\ r.sess = m.sess /\ r.chal = m.chal
  BY <1>7 DEF Reply, Replies, BoardState
<1> HIDE DEF r
<1>9. /\ Append(q, r) \in Seq(Replies) /\ Len(q) \in Nat
      /\ DOMAIN q = 1 .. Len(q) /\ DOMAIN Append(q, r) = 1 .. (Len(q) + 1)
      /\ \A i \in 1 .. Len(q) : Append(q, r)[i] = q[i]
      /\ Append(q, r)[Len(q) + 1] = r
  BY <1>1, <1>8, Appended
<1>10. /\ wire'.cmds = Tail(wire.cmds) /\ wire'.replies = Append(q, r) /\ wire' \in WireState
  BY <1>2, <1>5, <1>9 DEF WireState, r
<1>11. ASSUME NEW i \in DOMAIN wire'.replies
       PROVE  wire'.replies[i] = r \/ \E j \in DOMAIN q : wire'.replies[i] = q[j]
  <2>1. i \in 1 .. Len(q) \/ i = Len(q) + 1
    BY <1>9, <1>10
  <2>2. QED
    BY <1>9, <1>10, <2>1
<1>12. ASSUME NEW i \in DOMAIN wire'.cmds
       PROVE  /\ i + 1 \in DOMAIN wire.cmds /\ i \in Nat /\ 1 < i + 1
              /\ wire'.cmds[i] = wire.cmds[i + 1]
  BY <1>2, <1>10
<1>13. Carried(wire', m, host, clk)
  <2>1. ASSUME NEW i \in DOMAIN wire'.cmds
        PROVE  LET d == wire'.cmds[i]
               IN  /\ d.sess <= host.sess /\ Told(d.sess, d.chal, m)
                   /\ d.op = "RUN" => Dated(d.sess, d.chal, d.age, m, clk)
                   /\ \A j \in DOMAIN wire'.cmds : i < j => d.sess <= wire'.cmds[j].sess
    <3> DEFINE d == wire.cmds[i + 1]
    <3>1. wire'.cmds[i] = d /\ i + 1 \in DOMAIN wire.cmds /\ 1 < i + 1
      BY <1>12
    <3>2. d \in Lines /\ d.sess \in Nat /\ d.chal \in Nat /\ d.age \in Nat
      <4>1. d \in Lines
        BY <1>1, <3>1, Entries
      <4>2. QED
        BY <4>1 DEF Lines
    <3>3. /\ d.sess <= host.sess /\ Told(d.sess, d.chal, board) /\ c.sess <= d.sess
          /\ d.op = "RUN" => Dated(d.sess, d.chal, d.age, board, clk)
      BY <1>2, <1>3, <3>1 DEF Carried, c
    <3> HIDE DEF d
    <3>4. m.sess <= d.sess
      BY <1>4, <1>6, <1>7, <3>2, <3>3
    <3>5. Told(d.sess, d.chal, m) /\ (d.op = "RUN" => Dated(d.sess, d.chal, d.age, m, clk))
      BY <1>1, <1>7, <3>2, <3>3, <3>4, FollowsLater
    <3>6. ASSUME NEW j \in DOMAIN wire'.cmds, i < j PROVE d.sess <= wire'.cmds[j].sess
      <4>1. j + 1 \in DOMAIN wire.cmds /\ i + 1 < j + 1 /\ wire'.cmds[j] = wire.cmds[j + 1]
        BY <1>12, <3>6
      <4>2. QED
        BY <1>3, <3>1, <4>1 DEF Carried, d
    <3>7. QED
      BY <3>1, <3>3, <3>5, <3>6
  <2>2. ASSUME NEW i \in DOMAIN wire'.replies
        PROVE  /\ wire'.replies[i].sess <= m.sess
               /\ wire'.replies[i].sess = m.sess => wire'.replies[i].chal <= m.chal
    <3>1. CASE wire'.replies[i] = r
      BY <1>7, <1>8, <3>1
    <3>2. ASSUME NEW j \in DOMAIN q, wire'.replies[i] = q[j]
          PROVE  /\ q[j].sess <= m.sess
                 /\ q[j].sess = m.sess => q[j].chal <= m.chal
      <4>1. q[j].sess \in Nat /\ q[j].chal \in Nat
        <5>1. q[j] \in Replies
          BY <1>1, <3>2, Entries
        <5>2. QED
          BY <5>1 DEF Replies
      <4>2. q[j].sess <= board.sess /\ (q[j].sess = board.sess => q[j].chal <= board.chal)
        BY <1>3 DEF Carried
      <4>3. QED
        BY <1>1, <1>7, <4>1, <4>2
    <3>3. QED
      BY <1>11, <3>1, <3>2
  <2>3. QED
    BY <2>1, <2>2 DEF Carried
<1>14. Knows(host, m, clk)
  <2>1. m.sess <= host.sess
    BY <1>1, <1>4, <1>6, <1>7
  <2>2. Told(host.sess, host.chal, board)
        /\ (Asking(host) => Dated(host.sess, host.chal, host.begun, board, clk))
    BY <1>3 DEF Knows
  <2>3. QED
    BY <1>1, <1>7, <2>1, <2>2, FollowsLater DEF Knows
<1>15. Alternates(wire', host)
  <2>1. ASSUME host.pc \notin {"link", "final", "done"} PROVE Quiet(wire', host.sess)
    <3>1. Quiet(wire, host.sess)
      BY <1>3, <2>1 DEF Alternates
    <3>2. c.sess # host.sess
      BY <1>2, <3>1 DEF Quiet, c
    <3>3. r.sess # host.sess
      BY <1>1, <1>4, <1>6, <1>7, <1>8, <3>2
    <3>4. QED
      BY <1>11, <1>12, <3>1, <3>3 DEF Quiet
  <2>2. ASSUME host.pc = "link", NEW i \in DOMAIN wire'.cmds, wire'.cmds[i].sess = host.sess
        PROVE  i = Len(wire'.cmds) /\ \A j \in DOMAIN wire'.replies : wire'.replies[j].sess # host.sess
    <3>1. i + 1 = n /\ \A j \in DOMAIN q : q[j].sess # host.sess
      BY <1>3, <1>12, <2>2 DEF Alternates, n
    <3>2. i = Len(wire'.cmds) /\ i \in Nat /\ 1 # n
      BY <1>2, <1>10, <1>12, <3>1
    <3>3. c.sess # host.sess
      BY <1>2, <1>3, <2>2, <3>2 DEF Alternates, c, n
    <3>4. r.sess # host.sess
      BY <1>1, <1>4, <1>6, <1>7, <1>8, <3>3
    <3>5. QED
      BY <1>11, <3>1, <3>2, <3>4
  <2>3. QED
    BY <2>1, <2>2 DEF Alternates
<1>16. Faulted(m, wire', host, gate, clk)
  <2>1. \A i \in DOMAIN wire'.cmds : \E j \in DOMAIN wire.cmds : wire'.cmds[i] = wire.cmds[j]
    BY <1>12
  <2>2. QED
    BY <1>2, <1>3, <1>6, <2>1, CommandFaulted DEF c
<1>17. TypeOK'
  BY <1>1, <1>5, <1>7, <1>10 DEF TypeOK, m
<1>18. Begins(host', gate')
  BY <1>5 DEF IInv, Begins
<1>19. QED
  BY <1>5, <1>7, <1>13, <1>14, <1>15, <1>16, <1>17, <1>18 DEF IInv, m

\* A line that is no line.
LEMMA GarbageHolds == ASSUME Parameters, IInv, BoardGarbage PROVE IInv'
<1> DEFINE m == Fail(board)
<1>1. /\ clk \in Clock /\ board \in BoardState /\ wire \in WireState
      /\ host \in HostState /\ gate \in GateState
      /\ clk' = clk /\ board' = m /\ wire' = wire /\ host' = host /\ gate' = gate
  BY Parts DEF IInv, BoardGarbage
<1>2. /\ m \in BoardState /\ m.sess = board.sess /\ m.chal = board.chal
      /\ ~m.armed /\ ~m.on
  BY <1>1, FailFields
<1> HIDE DEF m
<1>3. Guarded(m, clk)
  BY <1>2 DEF Guarded
<1>4. Carried(wire, m, host, clk)
  BY <1>2 DEF IInv, Carried, Told, Dated
<1>5. Knows(host, m, clk)
  BY <1>2 DEF IInv, Knows, Told, Dated
<1>6. Faulted(m, wire, host, gate, clk)
  BY <1>2 DEF IInv, Faulted, Fading, Ended
<1>7. Alternates(wire', host') /\ Begins(host', gate')
  BY <1>1 DEF IInv, Alternates, Quiet, Begins
<1>8. QED
  BY <1>1, <1>2, <1>3, <1>4, <1>5, <1>6, <1>7 DEF IInv, TypeOK

-----------------------------------------------------------------------------
(* The steps of the host and the gate.                                      *)

\* The host gives up: a last STOP, whatever is under way.
LEMMA FinallyHolds ==
  ASSUME Parameters, IInv, NEW h \in HostState, h.sess = host.sess, h.fault = host.fault,
         h.faultAge = host.faultAge, Told(h.sess, h.chal, board),
         NEW unread \in Seq(Replies),
         \A i \in DOMAIN unread : \E j \in DOMAIN wire.replies : unread[i] = wire.replies[j],
         Finally(h, unread), UNCHANGED <<clk, board, gate>>
  PROVE  IInv'
<1> DEFINE l == Line(h, "STOP")
           n == Len(wire.cmds)
<1>1. /\ clk \in Clock /\ board \in BoardState /\ wire \in WireState
      /\ host \in HostState /\ gate \in GateState /\ wire.cmds \in Seq(Lines)
      /\ h.sess \in Nat /\ h.chal \in Nat /\ h.seq \in Nat /\ h.seq + 1 \in Nat
  <2>1. h.sess \in Nat /\ h.chal \in Nat /\ h.seq \in Nat
    BY DEF HostState
  <2>2. QED
    BY <2>1, Parts DEF IInv
<1>2. l \in Lines /\ l.sess = host.sess /\ l.chal = h.chal /\ l.op = "STOP"
  BY <1>1 DEF Line, Lines, Op, Old, Parameters
<1>3. /\ host' \in HostState /\ host'.pc = "final" /\ host'.op = "STOP" /\ host'.sess = host.sess
      /\ host'.chal = h.chal /\ host'.fault = host.fault /\ host'.faultAge = host.faultAge
      /\ host'.begun = h.begun
  BY DEF Finally, HostState, Place, Op
<1>4. wire' = [cmds |-> Append(wire.cmds, l), replies |-> unread]
  BY DEF Finally
<1> HIDE DEF l
<1>5. /\ Append(wire.cmds, l) \in Seq(Lines) /\ n \in Nat
      /\ DOMAIN wire.cmds = 1 .. n /\ DOMAIN Append(wire.cmds, l) = 1 .. (n + 1)
      /\ \A i \in 1 .. n : Append(wire.cmds, l)[i] = wire.cmds[i]
      /\ Append(wire.cmds, l)[n + 1] = l
  BY <1>1, <1>2, Appended
<1>6. wire'.cmds = Append(wire.cmds, l) /\ wire'.replies = unread /\ wire' \in WireState
  BY <1>4, <1>5 DEF WireState
<1> HIDE DEF n
<1>7. ASSUME NEW i \in DOMAIN wire'.cmds
      PROVE  \/ i \in DOMAIN wire.cmds /\ i \in Nat /\ i <= n /\ wire'.cmds[i] = wire.cmds[i]
             \/ i = n + 1 /\ wire'.cmds[i] = l
  BY <1>5, <1>6
<1>8. Carried(wire, board, host, clk) /\ Faulted(board, wire, host, gate, clk)
  BY DEF IInv
<1>9. Carried(wire', board, host', clk)
  <2>1. ASSUME NEW i \in DOMAIN wire'.cmds
        PROVE  LET d == wire'.cmds[i]
               IN  /\ d.sess <= host.sess /\ Told(d.sess, d.chal, board)
                   /\ d.op = "RUN" => Dated(d.sess, d.chal, d.age, board, clk)
                   /\ \A j \in DOMAIN wire'.cmds : i < j => d.sess <= wire'.cmds[j].sess
    <3>1. CASE i \in DOMAIN wire.cmds /\ i \in Nat /\ i <= n /\ wire'.cmds[i] = wire.cmds[i]
      <4>1. ASSUME NEW j \in DOMAIN wire'.cmds, i < j PROVE wire.cmds[i].sess <= wire'.cmds[j].sess
        BY <1>2, <1>7, <1>8, <3>1, <4>1 DEF Carried
      <4>2. QED
        BY <1>8, <3>1, <4>1 DEF Carried
    <3>2. CASE i = n + 1 /\ wire'.cmds[i] = l
      <4>1. \A j \in DOMAIN wire'.cmds : ~(i < j)
        BY <1>5, <1>6, <3>2
      <4>2. QED
        BY <1>1, <1>2, <3>2, <4>1
    <3>3. QED
      BY <1>7, <3>1, <3>2
  <2>2. ASSUME NEW i \in DOMAIN wire'.replies
        PROVE  /\ wire'.replies[i].sess <= board.sess
               /\ wire'.replies[i].sess = board.sess => wire'.replies[i].chal <= board.chal
    BY <1>6, <1>8 DEF Carried
  <2>3. QED
    BY <1>3, <2>1, <2>2 DEF Carried
<1>10. Knows(host', board, clk) /\ Alternates(wire', host') /\ Begins(host', gate)
  BY <1>3 DEF Knows, Asking, Alternates, Begins
<1>11. Faulted(board, wire', host', gate, clk)
  <2>1. ~Positive(host', gate)
    BY <1>3 DEF Positive
  <2>2. \A i \in Runs(wire', host'.sess) : i \in Runs(wire, host.sess) /\ wire'.cmds[i] = wire.cmds[i]
    BY <1>2, <1>3, <1>7 DEF Runs
  <2>3. QED
    BY <1>3, <1>8, <2>1, <2>2 DEF Faulted, Fading, Ended
<1>12. QED
  BY <1>1, <1>3, <1>6, <1>9, <1>10, <1>11 DEF IInv, TypeOK

\* The host has its answer and goes on: nothing of its session is under way.
LEMMA TurnsHolds ==
  ASSUME Parameters, IInv, NEW h \in HostState, h.sess = host.sess, h.fault = host.fault,
         h.faultAge = host.faultAge, Told(h.sess, h.chal, board),
         NEW pc \in {"send", "cycle", "ack"}, NEW op \in Op, ~(pc = "send" /\ op = "RUN"),
         \A i \in DOMAIN wire.cmds : wire.cmds[i].sess # host.sess,
         Turns(h, pc, op), UNCHANGED <<clk, board, gate>>
  PROVE  IInv'
<1>1. /\ clk \in Clock /\ board \in BoardState /\ wire \in WireState
      /\ host \in HostState /\ gate \in GateState
  BY Parts DEF IInv
<1>2. /\ host' \in HostState /\ host'.pc = pc /\ host'.op = op /\ host'.sess = host.sess
      /\ host'.chal = h.chal /\ host'.fault = host.fault /\ host'.faultAge = host.faultAge
  BY DEF Turns, HostState, Place
<1>3. wire' \in WireState /\ wire'.cmds = wire.cmds /\ wire'.replies = <<>>
  <2>1. wire' = [wire EXCEPT !.replies = <<>>] /\ <<>> \in Seq(Replies)
    BY DEF Turns
  <2>2. QED
    BY <1>1, <2>1 DEF WireState
<1>4. Carried(wire', board, host', clk)
  BY <1>2, <1>3 DEF IInv, Carried
<1>5. ~Asking(host') /\ ~Positive(host', gate)
  BY <1>2 DEF Asking, Positive
<1>6. Knows(host', board, clk) /\ Begins(host', gate)
  BY <1>2, <1>5 DEF Knows, Begins
<1>7. Alternates(wire', host')
  BY <1>2, <1>3 DEF Alternates, Quiet
<1>8. Faulted(board, wire', host', gate, clk)
  <2>1. Runs(wire', host'.sess) = Runs(wire, host.sess)
    BY <1>2, <1>3 DEF Runs
  <2>2. QED
    BY <1>2, <1>3, <1>5, <2>1 DEF IInv, Faulted, Fading, Ended
<1>9. QED
  BY <1>1, <1>2, <1>3, <1>4, <1>6, <1>7, <1>8 DEF IInv, TypeOK

\* The link's deadline, the gate's, and an interrupt.
LEMMA GivesUpHolds ==
  ASSUME Parameters, IInv, Finally(host, wire.replies), UNCHANGED <<clk, board, gate>>
  PROVE  IInv'
<1>1. host \in HostState /\ wire.replies \in Seq(Replies) /\ Told(host.sess, host.chal, board)
  BY Parts DEF IInv, Knows
<1>2. QED
  BY <1>1, FinallyHolds

\* An answer (bench_link.py exchange).
LEMMA ReceiveHolds == ASSUME Parameters, IInv, Receive PROVE IInv'
<1> DEFINE r == wire.replies[1]
<1>1. /\ host \in HostState /\ wire.replies \in Seq(Replies) /\ wire.replies # <<>>
      /\ host.sess \in Nat /\ board.sess \in Nat /\ host.pc = "link"
      /\ Told(host.sess, host.chal, board)
      /\ Carried(wire, board, host, clk) /\ Alternates(wire, host)
      /\ UNCHANGED <<clk, board, gate>>
  BY Parts DEF IInv, Knows, Receive
<1>2. /\ Head(wire.replies) = r /\ r \in Replies /\ 1 \in DOMAIN wire.replies
      /\ Tail(wire.replies) \in Seq(Replies)
      /\ \A i \in DOMAIN Tail(wire.replies) : \E j \in DOMAIN wire.replies :
           Tail(wire.replies)[i] = wire.replies[j]
  BY <1>1, Tailed
<1>3. CASE Good(r)
  <2> DEFINE h == [host EXCEPT !.seq = r.seq, !.chal = r.chal]
  <2>1. r.sess = host.sess /\ r.seq \in Nat /\ r.chal \in Nat
    BY <1>2, <1>3 DEF Good, Replies
  <2>2. /\ h \in HostState /\ h.sess = host.sess /\ h.fault = host.fault
        /\ h.faultAge = host.faultAge /\ h.chal = r.chal /\ h.op = host.op
    BY <1>1, <2>1 DEF HostState
  <2>3. Told(h.sess, h.chal, board)
    BY <1>1, <1>2, <2>1, <2>2 DEF Carried, Told
  <2>4. \A i \in DOMAIN wire.cmds : wire.cmds[i].sess # host.sess
    BY <1>1, <1>2, <2>1 DEF Alternates
  <2>5. Answered(h, r.state)
    BY <1>2, <1>3 DEF Receive
  <2> HIDE DEF h
  <2>6. ASSUME Finally(h, <<>>) PROVE IInv'
    <3>1. <<>> \in Seq(Replies) /\ DOMAIN <<>> = {}
      OBVIOUS
    <3>2. QED
      BY <1>1, <2>2, <2>3, <2>6, <3>1, FinallyHolds
  <2>7. ASSUME NEW pc \in {"send", "cycle", "ack"}, NEW op \in Op, ~(pc = "send" /\ op = "RUN"),
               Turns(h, pc, op)
        PROVE  IInv'
    BY <1>1, <2>2, <2>3, <2>4, <2>7, TurnsHolds
  <2>8. QED
    BY <2>5, <2>6, <2>7 DEF Answered, Op
<1>4. CASE ~Good(r)
  <2>1. Finally(host, Tail(wire.replies))
    BY <1>2, <1>4 DEF Receive
  <2>2. QED
    BY <1>1, <1>2, <2>1, FinallyHolds
<1>5. QED
  BY <1>3, <1>4

\* After the acknowledgment of a RUN.
LEMMA AckHolds == ASSUME Parameters, IInv, Ack PROVE IInv'
<1>1. /\ host \in HostState /\ Told(host.sess, host.chal, board)
      /\ \A i \in DOMAIN wire.cmds : wire.cmds[i].sess # host.sess
  BY Parts DEF IInv, Knows, Ack, Alternates, Quiet
<1>2. ASSUME NEW op \in {"STATUS", "STOP"}, Turns(host, "send", op) PROVE IInv'
  <2>1. op \in Op /\ op # "RUN"
    BY DEF Op
  <2>2. QED
    BY <1>1, <1>2, <2>1, TurnsHolds DEF Ack
<1>3. QED
  BY <1>2, GivesUpHolds DEF Ack

\* A run is over, with or without its last STOP.
LEMMA LeftHolds ==
  ASSUME Parameters, IInv, host' = [host EXCEPT !.pc = "done"], UNCHANGED <<clk, board, wire, gate>>
  PROVE  IInv'
<1>1. /\ clk \in Clock /\ board \in BoardState /\ wire \in WireState
      /\ host \in HostState /\ gate \in GateState
  BY Parts DEF IInv
<1>2. /\ host' \in HostState /\ host'.pc = "done" /\ host'.sess = host.sess /\ host'.chal = host.chal
      /\ host'.fault = host.fault /\ host'.faultAge = host.faultAge
  BY <1>1 DEF HostState, Place
<1>3. Carried(wire, board, host', clk)
  BY <1>2 DEF IInv, Carried
<1>4. Knows(host', board, clk) /\ Alternates(wire, host') /\ Begins(host', gate)
  BY <1>2 DEF IInv, Knows, Asking, Alternates, Begins
<1>5. ~Positive(host', gate) /\ Runs(wire, host'.sess) = Runs(wire, host.sess)
  BY <1>2 DEF Positive, Runs
<1>6. Faulted(board, wire, host', gate, clk)
  BY <1>2, <1>5 DEF IInv, Faulted, Fading, Ended
<1>7. QED
  BY <1>1, <1>2, <1>3, <1>4, <1>6 DEF IInv, TypeOK

\* A step of the host or the gate that sends nothing and learns nothing: what it
\* has to keep is the date of its request, the quiet link and what a fault leaves.
LEMMA SilentHolds ==
  ASSUME Parameters, IInv, UNCHANGED <<clk, board, wire>>,
         host' \in HostState, gate' \in GateState,
         host'.sess = host.sess, host'.chal = host.chal,
         host.pc \notin {"link", "final", "done"}, host'.pc # "link",
         Asking(host') => \/ Asking(host) /\ host'.begun = host.begun
                          \/ host'.begun = 0,
         Begins(host', gate'),
         Faulted(board, wire, host', gate', clk)
  PROVE  IInv'
<1>1. clk \in Clock /\ board \in BoardState /\ wire \in WireState
  BY Parts DEF IInv
<1>2. Carried(wire, board, host', clk)
  BY DEF IInv, Carried
<1>3. Knows(host', board, clk)
  <2>1. 0 <= Ago(clk, board.issued)
    <3>1. board.issued \in Clock
      BY <1>1 DEF BoardState
    <3>2. QED
      BY <1>1, <3>1, AgoType DEF Clock
  <2>2. QED
    BY <2>1 DEF IInv, Knows, Dated
<1>4. Alternates(wire, host')
  BY DEF IInv, Alternates
<1>5. QED
  BY <1>1, <1>2, <1>3, <1>4 DEF IInv, TypeOK

\* The gate has started, or has not.
LEMMA BootHolds == ASSUME Parameters, IInv, Boot PROVE IInv'
<1>1. /\ host \in HostState /\ gate \in GateState /\ host.pc = "boot" /\ host.op = "HELLO"
      /\ host.fault = "none" /\ UNCHANGED <<clk, board, wire>>
  BY Parts DEF IInv, Boot, Begins
<1>2. ASSUME host' = [host EXCEPT !.pc = "send"], gate' = [gate EXCEPT !.world = 0] PROVE IInv'
  <2>1. /\ host' \in HostState /\ gate' \in GateState /\ host'.pc = "send" /\ host'.op = "HELLO"
        /\ host'.sess = host.sess /\ host'.chal = host.chal /\ host'.fault = "none"
    BY <1>1, <1>2 DEF HostState, GateState, Place
  <2>2. ~Asking(host') /\ Begins(host', gate') /\ Faulted(board, wire, host', gate', clk)
    BY <2>1 DEF Asking, Begins, Faulted
  <2>3. QED
    BY <1>1, <2>1, <2>2, SilentHolds
<1>3. QED
  BY <1>1, <1>2, LeftHolds DEF Boot

\* A cycle begins; the fault may show from here on, when nothing is under way.
LEMMA CycleWorldHolds ==
  ASSUME Parameters, IInv, NEW f \in Faults, CycleWorld(f) PROVE IInv'
<1>1. /\ clk \in Clock /\ board \in BoardState /\ host \in HostState /\ gate \in GateState
      /\ board.age \in Nat /\ WorldMaxAge \in Nat /\ gate.world \in Nat
      /\ host.pc = "cycle" /\ UNCHANGED <<clk, board, wire>>
  BY Parts DEF IInv, CycleWorld, Parameters
<1>2. /\ host' = [host EXCEPT !.pc = IF f = "world-loss" THEN "motion" ELSE "world", !.begun = 0,
                      !.waited = 0, !.fault = f, !.faultAge = IF host.fault = "none" THEN 0 ELSE @]
      /\ gate' = [gate EXCEPT !.world = IF f = "world-loss" THEN @ ELSE 0,
                      !.approved = FALSE, !.served = FALSE]
      /\ host.fault = "none" \/ f = host.fault
  BY DEF CycleWorld
<1>3. 0 \in 0 .. Old
  BY DEF Old, Parameters
<1>4. /\ host' \in HostState /\ gate' \in GateState /\ host'.pc \in {"motion", "world"}
      /\ host'.sess = host.sess /\ host'.chal = host.chal /\ host'.begun = 0
      /\ host'.fault = f /\ ~gate'.served
      /\ host.fault = "none" => host'.faultAge = 0
      /\ host.fault # "none" => host'.faultAge = host.faultAge
      /\ f = "world-loss" => gate'.world = gate.world
  BY <1>1, <1>2, <1>3 DEF HostState, GateState, Place
<1>5. ~Positive(host', gate') /\ Begins(host', gate')
  BY <1>4 DEF Positive, Begins
<1>6. Runs(wire, host'.sess) = {}
  BY <1>1, <1>4 DEF IInv, Alternates, Quiet, Runs
<1>7. Faulted(board, wire, host', gate', clk)
  <2>1. CASE host.fault = "none"
    <3>1. Ago(clk, board.renewed) >= 0
      <4>1. board.renewed \in Clock
        BY <1>1 DEF BoardState
      <4>2. QED
        BY <1>1, <4>1, AgoType DEF Clock
    <3>2. host'.faultAge = 0
      BY <1>4, <2>1
    <3>3. Fading(board, wire, host', gate')
      BY <1>1, <1>4, <1>5, <1>6, <3>2 DEF Fading, GateState
    <3>4. Ended(board, wire, host', gate', clk)
      BY <1>5, <1>6, <3>1, <3>2 DEF Ended
    <3>5. QED
      BY <3>3, <3>4 DEF Faulted
  <2>2. CASE host.fault # "none"
    <3>1. f = host.fault /\ host'.faultAge = host.faultAge
      BY <1>2, <1>4, <2>2
    <3>2. f = "world-loss" => Fading(board, wire, host', gate')
      BY <1>4, <1>5, <1>6, <3>1 DEF IInv, Faulted, Fading
    <3>3. f \notin {"none", "world-loss"} => Ended(board, wire, host', gate', clk)
      BY <1>4, <1>5, <1>6, <3>1 DEF IInv, Faulted, Ended
    <3>4. QED
      BY <1>4, <3>2, <3>3 DEF Faulted
  <2>3. QED
    BY <2>1, <2>2
<1>8. QED
  BY <1>1, <1>4, <1>5, <1>7, SilentHolds

\* The answer to the world.
LEMMA CycleMotionHolds == ASSUME Parameters, IInv, CycleMotion PROVE IInv'
<1>1. /\ host \in HostState /\ gate \in GateState /\ host.pc = "world" /\ ~gate.served
      /\ UNCHANGED <<clk, board, wire, gate>>
  BY Parts DEF IInv, Begins, CycleMotion
<1>2. /\ host' \in HostState
      /\ host'.pc = "motion" \/ (host'.pc = "send" /\ host'.op = "STOP")
      /\ host'.sess = host.sess /\ host'.chal = host.chal /\ host'.begun = host.begun
      /\ host'.fault = host.fault /\ host'.faultAge = host.faultAge
  <2>1. CASE host' = [host EXCEPT !.pc = "motion", !.waited = 0]
    BY <1>1, <2>1 DEF HostState, Place
  <2>2. CASE host' = [host EXCEPT !.pc = "send", !.op = "STOP"]
    BY <1>1, <2>2 DEF HostState, Place, Op
  <2>3. QED
    BY <2>1, <2>2 DEF CycleMotion
<1>3. ~Positive(host', gate) /\ Begins(host', gate) /\ Asking(host)
  BY <1>1, <1>2 DEF Positive, Begins, Asking
<1>4. Runs(wire, host'.sess) = Runs(wire, host.sess)
  BY <1>2 DEF Runs
<1>5. Faulted(board, wire, host', gate, clk)
  BY <1>2, <1>3, <1>4 DEF IInv, Faulted, Fading, Ended
<1>6. QED
  BY <1>1, <1>2, <1>3, <1>5, SilentHolds

\* The gate's decision: positive only in a world it still knows.
LEMMA ServeHolds == ASSUME Parameters, IInv, Serve PROVE IInv'
<1>1. /\ host \in HostState /\ gate \in GateState /\ host.pc = "motion"
      /\ host.begun \in Nat /\ host.faultAge \in Nat /\ gate.world \in Nat /\ WorldMaxAge \in Nat
      /\ UNCHANGED <<clk, board, wire, host>>
  BY Parts DEF IInv, Serve, Parameters
<1>2. PICK positive \in {FALSE, Allows} :
        gate' = [gate EXCEPT !.served = TRUE, !.positive = positive, !.reported = gate.world]
  BY DEF Serve
<1>3. positive \in BOOLEAN /\ (positive => Allows)
  BY <1>2 DEF Allows
<1>4. gate' \in GateState /\ gate'.world = gate.world /\ gate'.positive = positive
  BY <1>1, <1>2, <1>3 DEF GateState
<1>5. Begins(host, gate') /\ (Positive(host, gate') => Allows)
  BY <1>1, <1>3, <1>4 DEF Begins, Positive
<1>6. Faulted(board, wire, host, gate', clk)
  <2>1. Allows => gate.world <= WorldMaxAge /\ host.fault \in {"none", "world-loss"}
    BY DEF Allows
  <2>2. Fading(board, wire, host, gate) => Fading(board, wire, host, gate')
    BY <1>1, <1>4, <1>5, <2>1 DEF Fading
  <2>3. ~Allows /\ Ended(board, wire, host, gate, clk) => Ended(board, wire, host, gate', clk)
    BY <1>5 DEF Ended
  <2>4. QED
    BY <2>1, <2>2, <2>3 DEF IInv, Faulted
<1>7. QED
  BY <1>1, <1>4, <1>5, <1>6, SilentHolds

\* The end of a cycle: a RUN is asked for only after a positive decision.
LEMMA CycleEndsHolds == ASSUME Parameters, IInv, CycleEnds PROVE IInv'
<1>1. /\ host \in HostState /\ gate \in GateState /\ host.pc = "motion" /\ gate.served
      /\ UNCHANGED <<clk, board>>
  BY Parts DEF IInv, CycleEnds
<1>2. ASSUME NEW approved \in {FALSE, gate.positive}, UNCHANGED wire,
             host' = [host EXCEPT !.pc = "send", !.op = IF approved THEN "RUN" ELSE "STOP"],
             gate' = [gate EXCEPT !.approved = approved]
      PROVE  IInv'
  <2>1. approved \in BOOLEAN /\ (approved => gate.positive)
    BY <1>1 DEF GateState
  <2>2. /\ host' \in HostState /\ host'.pc = "send" /\ (host'.op = "RUN" => approved)
        /\ host'.sess = host.sess /\ host'.chal = host.chal /\ host'.begun = host.begun
        /\ host'.fault = host.fault /\ host'.faultAge = host.faultAge
    BY <1>1, <1>2 DEF HostState, Place, Op
  <2>3. gate' \in GateState /\ gate'.world = gate.world
    BY <1>1, <1>2, <2>1 DEF GateState
  <2>4. Begins(host', gate') /\ Asking(host) /\ (Positive(host', gate') => Positive(host, gate))
    BY <1>1, <2>1, <2>2 DEF Begins, Asking, Positive
  <2>5. Runs(wire, host'.sess) = Runs(wire, host.sess)
    BY <2>2 DEF Runs
  <2>6. Faulted(board, wire, host', gate', clk)
    BY <2>2, <2>3, <2>4, <2>5 DEF IInv, Faulted, Fading, Ended
  <2>7. QED
    BY <1>1, <1>2, <2>2, <2>3, <2>4, <2>6, SilentHolds
<1>3. QED
  BY <1>2, GivesUpHolds DEF CycleEnds

\* A request is written, while nothing of its session is under way; a RUN only
\* within the cycle that was approved.
LEMMA SendHolds == ASSUME Parameters, IInv, Send PROVE IInv'
<1> DEFINE l == Line(host, host.op)
           n == Len(wire.cmds)
<1>1. /\ clk \in Clock /\ board \in BoardState /\ wire \in WireState
      /\ host \in HostState /\ gate \in GateState
      /\ wire.cmds \in Seq(Lines) /\ wire.replies \in Seq(Replies)
      /\ host.sess \in Nat /\ host.chal \in Nat /\ host.begun \in Nat /\ host.faultAge \in Nat
      /\ board.sess \in Nat /\ board.chal \in Nat
      /\ host.pc = "send" /\ UNCHANGED <<clk, board, gate>>
      /\ Permit \in Nat /\ WorldMaxAge \in Nat
  BY Parts DEF IInv, Send, Parameters
<1>2. CASE host.op = "RUN" /\ ~(gate.approved /\ Fresh)
  BY <1>2, GivesUpHolds DEF Send
<1>3. CASE ~(host.op = "RUN" /\ ~(gate.approved /\ Fresh))
  <2>1. /\ host' = [host EXCEPT !.pc = "link", !.waited = 0,
                       !.limit = IF host.op = "RUN" THEN Permit - host.begun ELSE Permit]
        /\ wire' = [wire EXCEPT !.cmds = Append(@, l)]
    BY <1>3 DEF Send
  <2>2. /\ l \in Lines /\ l.sess = host.sess /\ l.op = host.op /\ l.chal \in {0, host.chal}
        /\ l.op = "RUN" => l.chal = host.chal /\ l.age = host.begun
    <3>1. host.op \in Op /\ host.seq \in Nat
      BY <1>1 DEF HostState
    <3>2. Old \in Nat
      BY DEF Old, Parameters
    <3>3. QED
      BY <1>1, <3>1, <3>2 DEF Line, Lines
  <2> HIDE DEF l
  <2>3. /\ Append(wire.cmds, l) \in Seq(Lines) /\ n \in Nat
        /\ DOMAIN wire.cmds = 1 .. n /\ DOMAIN Append(wire.cmds, l) = 1 .. (n + 1)
        /\ \A i \in 1 .. n : Append(wire.cmds, l)[i] = wire.cmds[i]
        /\ Append(wire.cmds, l)[n + 1] = l /\ Len(Append(wire.cmds, l)) = n + 1
    BY <1>1, <2>2, Appended
  <2> HIDE DEF n
  <2>4. /\ wire'.cmds = Append(wire.cmds, l) /\ wire'.replies = wire.replies /\ wire' \in WireState
    BY <1>1, <2>1, <2>3 DEF WireState
  <2>5. /\ host' \in HostState /\ host'.pc = "link" /\ host'.sess = host.sess
        /\ host'.chal = host.chal /\ host'.fault = host.fault /\ host'.faultAge = host.faultAge
    <3>1. (IF host.op = "RUN" THEN Permit - host.begun ELSE Permit) \in Int
      BY <1>1
    <3>2. QED
      BY <1>1, <2>1, <3>1 DEF HostState, Place
  <2>6. ASSUME NEW i \in DOMAIN wire'.cmds
        PROVE  \/ i \in DOMAIN wire.cmds /\ i \in Nat /\ i <= n /\ wire'.cmds[i] = wire.cmds[i]
               \/ i = n + 1 /\ wire'.cmds[i] = l
    BY <2>3, <2>4
  <2>7. /\ Carried(wire, board, host, clk) /\ Faulted(board, wire, host, gate, clk)
        /\ Knows(host, board, clk) /\ Quiet(wire, host.sess)
    BY <1>1 DEF IInv, Alternates
  <2>8. Told(l.sess, l.chal, board) /\ (l.op = "RUN" => Dated(l.sess, l.chal, l.age, board, clk))
    <3>1. Told(l.sess, l.chal, board)
      BY <1>1, <2>2, <2>7 DEF Knows, Told
    <3>2. l.op = "RUN" => Asking(host)
      BY <1>1, <2>2 DEF Asking
    <3>3. QED
      BY <2>2, <2>7, <3>1, <3>2 DEF Knows
  <2>9. Carried(wire', board, host', clk)
    <3>1. ASSUME NEW i \in DOMAIN wire'.cmds
          PROVE  LET d == wire'.cmds[i]
                 IN  /\ d.sess <= host.sess /\ Told(d.sess, d.chal, board)
                     /\ d.op = "RUN" => Dated(d.sess, d.chal, d.age, board, clk)
                     /\ \A j \in DOMAIN wire'.cmds : i < j => d.sess <= wire'.cmds[j].sess
      <4>1. CASE i \in DOMAIN wire.cmds /\ i \in Nat /\ i <= n /\ wire'.cmds[i] = wire.cmds[i]
        <5>1. ASSUME NEW j \in DOMAIN wire'.cmds, i < j
              PROVE  wire.cmds[i].sess <= wire'.cmds[j].sess
          BY <2>2, <2>6, <2>7, <4>1, <5>1 DEF Carried
        <5>2. QED
          BY <2>7, <4>1, <5>1 DEF Carried
      <4>2. CASE i = n + 1 /\ wire'.cmds[i] = l
        <5>1. \A j \in DOMAIN wire'.cmds : ~(i < j)
          BY <2>3, <2>4, <4>2
        <5>2. QED
          BY <1>1, <2>2, <2>8, <4>2, <5>1
      <4>3. QED
        BY <2>6, <4>1, <4>2
    <3>2. QED
      BY <2>4, <2>5, <2>7, <3>1 DEF Carried
  <2>10. Knows(host', board, clk) /\ Begins(host', gate)
    BY <2>5, <2>7 DEF Knows, Asking, Begins
  <2>11. Alternates(wire', host')
    <3>1. ASSUME NEW i \in DOMAIN wire'.cmds, wire'.cmds[i].sess = host.sess PROVE i = n + 1
      BY <2>6, <2>7, <3>1 DEF Quiet
    <3>2. QED
      BY <2>3, <2>4, <2>5, <2>7, <3>1 DEF Alternates, Quiet
  <2>12. Faulted(board, wire', host', gate, clk)
    <3>1. ~Positive(host', gate)
      BY <2>5 DEF Positive
    <3>2. ASSUME NEW i \in Runs(wire', host'.sess)
          PROVE  \/ i \in Runs(wire, host.sess) /\ wire'.cmds[i] = wire.cmds[i]
                 \/ Positive(host, gate) /\ host.begun < Permit /\ wire'.cmds[i].age = host.begun
      <4>1. CASE i \in DOMAIN wire.cmds /\ wire'.cmds[i] = wire.cmds[i]
        BY <2>5, <4>1 DEF Runs
      <4>2. CASE wire'.cmds[i] = l
        BY <1>1, <1>3, <2>2, <3>2, <4>2 DEF Runs, Positive, Fresh
      <4>3. QED
        BY <2>6, <4>1, <4>2 DEF Runs
    <3>3. Fading(board, wire, host, gate) => Fading(board, wire', host', gate)
      BY <2>5, <3>1, <3>2 DEF Fading
    <3>4. Ended(board, wire, host, gate, clk) => Ended(board, wire', host', gate, clk)
      BY <2>5, <3>1, <3>2 DEF Ended
    <3>5. QED
      BY <2>5, <2>7, <3>3, <3>4 DEF Faulted
  <2>13. QED
    BY <1>1, <2>4, <2>5, <2>9, <2>10, <2>11, <2>12 DEF IInv, TypeOK
<1>4. QED
  BY <1>2, <1>3

\* Another run: its session is later than all the board and the link have seen.
LEMMA NewRunHolds == ASSUME Parameters, IInv, NewRun PROVE IInv'
<1>1. /\ clk \in Clock /\ board \in BoardState /\ wire \in WireState
      /\ wire.cmds \in Seq(Lines) /\ host.sess \in Nat /\ board.sess \in Nat /\ board.chal \in Nat
      /\ UNCHANGED <<clk, board>> /\ host' = NewHost(host.sess + 1) /\ gate' = NewGate
      /\ Carried(wire, board, host, clk) /\ Knows(host, board, clk)
  BY Parts DEF IInv, NewRun
<1>2. /\ host' \in HostState /\ gate' \in GateState /\ host'.pc = "boot" /\ host'.op = "HELLO"
      /\ host'.sess = host.sess + 1 /\ host'.chal = 0 /\ host'.fault = "none"
  BY <1>1 DEF NewHost, NewGate, HostState, GateState, Place, Op, Old, Parameters
<1>3. PICK left \in {<<>>, wire.cmds} : wire' = [cmds |-> left, replies |-> <<>>]
  BY DEF NewRun
<1>4. /\ wire' \in WireState /\ wire'.cmds \in {<<>>, wire.cmds} /\ wire'.replies = <<>>
  <2>1. <<>> \in Seq(Replies) /\ <<>> \in Seq(Lines)
    OBVIOUS
  <2>2. QED
    BY <1>1, <1>3, <2>1 DEF WireState
<1>5. /\ DOMAIN wire'.cmds \subseteq DOMAIN wire.cmds
      /\ \A i \in DOMAIN wire'.cmds : wire'.cmds[i] = wire.cmds[i]
  BY <1>4
<1>6. \A i \in DOMAIN wire.cmds : wire.cmds[i].sess \in Nat
  <2>1. \A i \in DOMAIN wire.cmds : wire.cmds[i] \in Lines
    BY <1>1, Entries
  <2>2. QED
    BY <2>1 DEF Lines
<1>7. Carried(wire', board, host', clk)
  BY <1>1, <1>2, <1>4, <1>5, <1>6 DEF Carried
<1>8. Knows(host', board, clk) /\ Begins(host', gate')
  BY <1>1, <1>2 DEF Knows, Told, Asking, Begins
<1>9. Alternates(wire', host')
  <2>1. \A i \in DOMAIN wire'.cmds : wire'.cmds[i].sess <= host.sess /\ wire'.cmds[i].sess \in Nat
    BY <1>1, <1>5, <1>6 DEF Carried
  <2>2. QED
    BY <1>1, <1>2, <1>4, <2>1 DEF Alternates, Quiet
<1>10. Faulted(board, wire', host', gate', clk)
  BY <1>2 DEF Faulted
<1>11. QED
  BY <1>1, <1>2, <1>4, <1>7, <1>8, <1>9, <1>10 DEF IInv, TypeOK

-----------------------------------------------------------------------------
(* Time, and the theorems.                                                  *)

\* An age grows by one at most, and no further than Old.
LEMMA OlderAge ==
  ASSUME Parameters, NEW a \in Nat
  PROVE  /\ Older(a) \in Nat /\ a <= Older(a) /\ Older(a) <= a + 1
         /\ a \in 0 .. Old => Older(a) \in 0 .. Old
         /\ \A f \in 0 .. Old, k \in Nat : f <= a + k => Older(f) <= Older(a) + k
<1>1. Old \in Nat
  BY DEF Old, Parameters
<1>2. QED
  BY <1>1 DEF Older

\* A tick may end the lease; otherwise it leaves the board as it is, and every age
\* of an armed board is one more.
LEMMA TickProper ==
  ASSUME Parameters, clk \in Clock, board \in BoardState, Guarded(board, clk), Time
  PROVE  /\ clk' \in Clock /\ board' \in BoardState /\ Guarded(board', clk')
         /\ board'.sess = board.sess /\ board'.chal = board.chal
         /\ board'.issued = board.issued
         /\ board'.armed => /\ board.armed
                            /\ Ago(clk', board.issued) = Ago(clk, board.issued) + 1
                            /\ Ago(clk', board.renewed) = Ago(clk, board.renewed) + 1
         /\ board'.on => board.on /\ board'.armed /\ board'.renewed = board.renewed
                         /\ board'.age = Older(board.age)
<1> DEFINE b == [board EXCEPT !.age = Older(@)]
<1>1. /\ clk' = (clk + 1) % Wrap /\ board' = Ticked(b, clk')
      /\ Wrap \in Nat \ {0} /\ Lease \in Nat /\ Lease < Wrap /\ Challenge \in Nat /\ clk \in Int
  BY AgoType DEF Time, Parameters, Clock
<1>2. clk' \in Clock
  BY <1>1, Remainder
<1>3. board.age \in Nat /\ Older(board.age) \in Nat /\ Older(board.age) <= board.age + 1
  BY OlderAge DEF BoardState
<1>4. /\ b \in BoardState /\ b.sess = board.sess /\ b.chal = board.chal /\ b.issued = board.issued
      /\ b.renewed = board.renewed /\ b.canArm = board.canArm /\ b.armed = board.armed
      /\ b.on = board.on /\ b.age = Older(board.age)
  BY <1>3 DEF BoardState
<1> HIDE DEF b
<1>5. board.issued \in Clock /\ board.renewed \in Clock
  BY DEF BoardState
<1>6. /\ Ago(clk, board.issued) \in Nat /\ Ago(clk, board.renewed) \in Nat
  BY <1>5, AgoType
<1>7. ASSUME board.armed
      PROVE  /\ Ago(clk', board.issued) = Ago(clk, board.issued) + 1
             /\ Ago(clk', board.renewed) = Ago(clk, board.renewed) + 1
             /\ Ago(clk, board.issued) <= Ago(clk, board.renewed)
             /\ ~board.canArm
  <2>1. /\ Ago(clk, board.issued) <= Ago(clk, board.renewed) /\ Ago(clk, board.renewed) < Lease
        /\ ~board.canArm
    BY <1>7 DEF Guarded
  <2>2. Ago(clk, board.issued) < Wrap - 1 /\ Ago(clk, board.renewed) < Wrap - 1
    BY <1>1, <1>6, <2>1
  <2>3. QED
    BY <1>1, <1>5, <2>1, <2>2, AgoLater
<1>8. CASE board.armed /\ Ago(clk', board.renewed) >= Lease
  <2>1. board' = Fail(b)
    BY <1>1, <1>4, <1>8 DEF Ticked, Ago
  <2>2. /\ board' \in BoardState /\ board'.sess = b.sess /\ board'.chal = b.chal
        /\ board'.issued = b.issued /\ ~board'.armed /\ ~board'.on
    BY <1>4, <2>1, FailFields
  <2>3. QED
    BY <1>2, <1>4, <2>2 DEF Guarded
<1>9. CASE ~(board.armed /\ Ago(clk', board.renewed) >= Lease)
  <2>1. board' = b
    BY <1>1, <1>4, <1>9 DEF Ticked, Ago
  <2>2. board.armed => Ago(clk', board.renewed) < Lease
    BY <1>1, <1>6, <1>7, <1>9
  <2>3. board.on => board.armed /\ board.age < Challenge + Ago(clk, board.renewed)
    BY DEF Guarded
  <2>4. Guarded(b, clk')
    BY <1>1, <1>3, <1>4, <1>6, <1>7, <2>2, <2>3 DEF Guarded
  <2>5. QED
    BY <1>2, <1>4, <1>7, <2>1, <2>3, <2>4
<1>10. QED
  BY <1>8, <1>9

\* A millisecond passes for everyone.
LEMMA TimeHolds == ASSUME Parameters, IInv, Time PROVE IInv'
<1>1. /\ clk \in Clock /\ board \in BoardState /\ wire \in WireState
      /\ host \in HostState /\ gate \in GateState
      /\ wire.cmds \in Seq(Lines) /\ host.sess \in Nat /\ host.begun \in Nat
      /\ board.age \in Nat /\ gate.world \in Nat /\ host.faultAge \in 0 .. Old
      /\ Permit \in Nat /\ WorldMaxAge \in Nat /\ Old \in Nat
  <2>1. host.faultAge \in 0 .. Old
    BY DEF IInv, TypeOK, HostState
  <2>2. Permit \in Nat /\ WorldMaxAge \in Nat /\ Old \in Nat
    BY DEF Parameters, Old
  <2>3. QED
    BY <2>1, <2>2, Parts DEF IInv
<1>2. /\ Guarded(board, clk) /\ Carried(wire, board, host, clk) /\ Knows(host, board, clk)
      /\ Alternates(wire, host) /\ Begins(host, gate) /\ Faulted(board, wire, host, gate, clk)
  BY DEF IInv
<1>3. /\ clk' \in Clock /\ board' \in BoardState /\ Guarded(board', clk')
      /\ board'.sess = board.sess /\ board'.chal = board.chal
      /\ board'.issued = board.issued
      /\ board'.armed => /\ board.armed
                         /\ Ago(clk', board.issued) = Ago(clk, board.issued) + 1
                         /\ Ago(clk', board.renewed) = Ago(clk, board.renewed) + 1
      /\ board'.on => board.on /\ board'.armed /\ board'.renewed = board.renewed
                      /\ board'.age = Older(board.age)
  BY <1>1, <1>2, TickProper
<1>4. /\ Ago(clk, board.issued) \in Nat /\ Ago(clk, board.renewed) \in Nat
  <2>1. board.issued \in Clock /\ board.renewed \in Clock
    BY <1>1 DEF BoardState
  <2>2. QED
    BY <1>1, <2>1, AgoType
<1>5. /\ host' \in HostState /\ host'.pc = host.pc /\ host'.op = host.op /\ host'.sess = host.sess
      /\ host'.chal = host.chal /\ host'.fault = host.fault
      /\ host'.begun = IF host.begun < Permit THEN host.begun + 1 ELSE host.begun
      /\ host.fault # "none" => host'.faultAge = Older(host.faultAge)
  <2> DEFINE waited == IF host.waited < Permit THEN host.waited + 1 ELSE host.waited
             begun == IF host.begun < Permit THEN host.begun + 1 ELSE host.begun
             late == IF host.fault = "none" THEN 0 ELSE Older(host.faultAge)
  <2>1. late \in 0 .. Old
    <3>1. host.faultAge \in Nat /\ 0 \in 0 .. Old
      BY <1>1
    <3>2. QED
      BY <1>1, <3>1, OlderAge
  <2>2. waited \in Nat /\ begun \in Nat
    BY <1>1 DEF HostState
  <2>3. host' = [host EXCEPT !.waited = waited, !.begun = begun, !.faultAge = late]
    BY DEF Time
  <2>4. host.fault # "none" => late = Older(host.faultAge)
    OBVIOUS
  <2> HIDE DEF waited, late
  <2>5. QED
    BY <1>1, <2>1, <2>2, <2>3, <2>4 DEF HostState
<1>6. /\ gate' \in GateState /\ gate'.positive = gate.positive /\ gate'.served = gate.served
      /\ gate'.world = IF gate.world <= WorldMaxAge THEN gate.world + 1 ELSE gate.world
  <2> DEFINE world == IF gate.world <= WorldMaxAge THEN gate.world + 1 ELSE gate.world
  <2>1. world \in Nat /\ gate' = [gate EXCEPT !.world = world]
    BY <1>1 DEF Time
  <2> HIDE DEF world
  <2>2. QED
    BY <1>1, <2>1 DEF GateState, world
<1>7. /\ wire'.cmds = [i \in DOMAIN wire.cmds |-> OlderLine(wire.cmds[i])]
      /\ wire'.replies = wire.replies
  BY <1>1 DEF Time, WireState
<1>8. ASSUME NEW i \in DOMAIN wire.cmds
      PROVE  /\ OlderLine(wire.cmds[i]) \in Lines
             /\ wire'.cmds[i] = OlderLine(wire.cmds[i])
             /\ wire'.cmds[i].op = wire.cmds[i].op /\ wire'.cmds[i].sess = wire.cmds[i].sess
             /\ wire'.cmds[i].chal = wire.cmds[i].chal
             /\ wire.cmds[i].age \in Nat
             /\ wire'.cmds[i].age = Older(wire.cmds[i].age)
  <2>1. wire.cmds[i] \in Lines
    BY <1>1, Entries
  <2>2. wire.cmds[i].age \in Nat /\ Older(wire.cmds[i].age) \in Nat
    BY <2>1, OlderAge DEF Lines
  <2>3. QED
    BY <1>7, <2>1, <2>2 DEF OlderLine, Lines
<1>9. /\ DOMAIN wire'.cmds = DOMAIN wire.cmds /\ Len(wire'.cmds) = Len(wire.cmds)
      /\ wire'.cmds \in Seq(Lines)
  <2>1. wire'.cmds = [i \in DOMAIN wire.cmds |-> wire'.cmds[i]]
    BY <1>7
  <2>2. \A i \in DOMAIN wire.cmds : wire'.cmds[i] \in Lines
    BY <1>8
  <2>3. QED
    BY <1>1, <2>1, <2>2, Aged
<1>10. wire' \in WireState
  BY <1>1, <1>9 DEF Time, WireState
<1>11. ASSUME NEW s, NEW c, NEW a \in Nat, NEW z \in Nat, z <= a + 1,
              Dated(s, c, a, board, clk)
       PROVE  Dated(s, c, z, board', clk')
  BY <1>3, <1>4, <1>11 DEF Dated
<1>12. Carried(wire', board', host', clk')
  <2>1. ASSUME NEW i \in DOMAIN wire.cmds
        PROVE  wire'.cmds[i].op = "RUN" =>
                 Dated(wire'.cmds[i].sess, wire'.cmds[i].chal, wire'.cmds[i].age, board', clk')
    BY <1>2, <1>8, <1>11, OlderAge DEF Carried
  <2>2. ASSUME NEW i \in DOMAIN wire.cmds
        PROVE  /\ wire'.cmds[i].sess <= host'.sess
               /\ Told(wire'.cmds[i].sess, wire'.cmds[i].chal, board')
               /\ \A j \in DOMAIN wire.cmds : i < j => wire'.cmds[i].sess <= wire'.cmds[j].sess
    BY <1>2, <1>3, <1>5, <1>8 DEF Carried, Told
  <2>3. \A i \in DOMAIN wire'.replies :
          /\ wire'.replies[i].sess <= board'.sess
          /\ wire'.replies[i].sess = board'.sess => wire'.replies[i].chal <= board'.chal
    BY <1>2, <1>3, <1>7 DEF Carried
  <2>4. QED
    BY <1>9, <2>1, <2>2, <2>3 DEF Carried
<1>13. Knows(host', board', clk')
  <2>1. Asking(host') <=> Asking(host)
    BY <1>5 DEF Asking
  <2>2. host'.begun \in Nat /\ host'.begun <= host.begun + 1
    BY <1>1, <1>5
  <2>3. Asking(host') => Dated(host'.sess, host'.chal, host'.begun, board', clk')
    BY <1>1, <1>2, <1>5, <1>11, <2>1, <2>2 DEF Knows
  <2>4. QED
    BY <1>2, <1>3, <1>5, <2>3 DEF Knows, Told
<1>14. Alternates(wire', host') /\ Begins(host', gate')
  BY <1>2, <1>5, <1>6, <1>7, <1>8, <1>9 DEF Alternates, Quiet, Begins
<1>15. Faulted(board', wire', host', gate', clk')
  <2>1. Positive(host', gate') <=> Positive(host, gate)
    BY <1>5, <1>6 DEF Positive
  <2>2. Runs(wire', host'.sess) = Runs(wire, host.sess)
    BY <1>5, <1>8, <1>9 DEF Runs
  <2>3. /\ host.faultAge \in Nat /\ Older(host.faultAge) \in Nat
        /\ Older(host.faultAge) <= host.faultAge + 1
    <3>1. host.faultAge \in Nat
      BY <1>1
    <3>2. QED
      BY <3>1, OlderAge
  <2>4. CASE host.fault = "world-loss"
    <3>1. Fading(board, wire, host, gate) /\ host'.faultAge = Older(host.faultAge)
      BY <1>2, <1>5, <2>4 DEF Faulted
    <3>2. gate'.world <= WorldMaxAge => host'.faultAge <= gate'.world
      BY <1>1, <1>6, <2>3, <3>1 DEF Fading
    <3>3. Positive(host', gate') /\ host'.begun < Permit =>
            host'.faultAge <= host'.begun + WorldMaxAge
      BY <1>1, <1>5, <2>1, <2>3, <3>1 DEF Fading
    <3>4. ASSUME NEW i \in Runs(wire', host'.sess)
          PROVE  host'.faultAge <= wire'.cmds[i].age + WorldMaxAge
      <4>1. i \in DOMAIN wire.cmds /\ host.faultAge <= wire.cmds[i].age + WorldMaxAge
        BY <2>2, <3>1 DEF Fading, Runs
      <4>2. wire.cmds[i].age \in Nat /\ wire'.cmds[i].age = Older(wire.cmds[i].age)
        BY <1>8, <4>1
      <4>3. QED
        BY <1>1, <3>1, <4>1, <4>2, OlderAge
    <3>5. board'.on /\ board'.sess = host'.sess => host'.faultAge <= board'.age + WorldMaxAge
      <4>1. ASSUME board'.on, board'.sess = host'.sess
            PROVE  host'.faultAge <= board'.age + WorldMaxAge
        <5>1. host.faultAge <= board.age + WorldMaxAge /\ board'.age = Older(board.age)
          BY <1>3, <1>5, <3>1, <4>1 DEF Fading
        <5>2. QED
          BY <1>1, <3>1, <5>1, OlderAge
      <4>2. QED
        BY <4>1
    <3>6. QED
      BY <1>5, <2>4, <3>2, <3>3, <3>4, <3>5 DEF Faulted, Fading
  <2>5. CASE host.fault \notin {"none", "world-loss"}
    <3>1. Ended(board, wire, host, gate, clk) /\ host'.faultAge = Older(host.faultAge)
      BY <1>2, <1>5, <2>5 DEF Faulted
    <3>2. board'.on /\ board'.sess = host'.sess => host'.faultAge <= Ago(clk', board'.renewed)
      BY <1>1, <1>3, <1>4, <1>5, <2>3, <3>1 DEF Ended
    <3>3. QED
      BY <1>5, <2>1, <2>2, <2>5, <3>1, <3>2 DEF Faulted, Ended
  <2>6. CASE host.fault = "none"
    BY <1>5, <2>6 DEF Faulted
  <2>7. QED
    BY <2>4, <2>5, <2>6
<1>16. QED
  BY <1>3, <1>5, <1>6, <1>10, <1>12, <1>13, <1>14, <1>15 DEF IInv, TypeOK

\* A dark board, an empty link and a first run.
LEMMA InitHolds == ASSUME Parameters, Init PROVE IInv
<1>1. 0 \in Clock /\ clk \in Clock /\ Old \in Nat /\ 0 \in 0 .. Old
  BY DEF Init, Parameters, Clock, Old
<1>2. board \in BoardState /\ board.sess = 0 /\ ~board.armed /\ ~board.on
  BY <1>1 DEF Init, DarkBoard, BoardState
<1>3. /\ host \in HostState /\ host.sess = 1 /\ host.chal = 0 /\ host.pc = "boot"
      /\ host.op = "HELLO" /\ host.fault = "none"
  BY <1>1 DEF Init, NewHost, HostState, Place, Op, Parameters
<1>4. gate \in GateState
  BY DEF Init, NewGate, GateState, Parameters
<1>5. wire \in WireState /\ DOMAIN wire.cmds = {} /\ DOMAIN wire.replies = {}
  <2>1. <<>> \in Seq(Replies) /\ <<>> \in Seq(Lines) /\ DOMAIN <<>> = {}
    OBVIOUS
  <2>2. QED
    BY <2>1 DEF Init, WireState
<1>6. QED
  BY <1>1, <1>2, <1>3, <1>4, <1>5
  DEF IInv, TypeOK, Guarded, Carried, Knows, Told, Asking, Alternates, Quiet, Begins, Faulted

\* Every step of the bench.
LEMMA StepHolds == ASSUME Parameters, IInv, [Next]_vars PROVE IInv'
<1>1. CASE LinkTimeout
  BY <1>1, GivesUpHolds DEF LinkTimeout
<1>2. CASE GateTimeout
  BY <1>2, GivesUpHolds DEF GateTimeout
<1>3. CASE Interrupted
  BY <1>3, GivesUpHolds DEF Interrupted
<1>4. CASE Final \/ Killed
  BY <1>4, LeftHolds DEF Final, Killed
<1>5. CASE UNCHANGED vars
  BY <1>5 DEF vars, IInv, TypeOK, Guarded, Carried, Knows, Told, Dated, Asking, Alternates, Quiet,
              Begins, Faulted, Fading, Ended, Positive, Runs, Ago
<1>6. QED
  BY <1>1, <1>2, <1>3, <1>4, <1>5, TimeHolds, CommandHolds, GarbageHolds, ReceiveHolds, BootHolds,
     CycleWorldHolds, CycleMotionHolds, ServeHolds, CycleEndsHolds, SendHolds, AckHolds, NewRunHolds
  DEF Next

\* The invariant of the whole bench, for every value of its parameters.
THEOREM BenchInvariant == ASSUME Parameters PROVE Spec => []IInv
<1>1. Init => IInv
  BY InitHolds
<1>2. IInv /\ [Next]_vars => IInv'
  BY StepHolds
<1>3. QED
  BY <1>1, <1>2, PTL DEF Spec

\* The LED is lit only by an approval that began less than a challenge and a lease
\* ago (guard.h command; bench_host.py run).
THEOREM LitIsAlwaysApproved == ASSUME Parameters PROVE Spec => []LitIsApproved
<1>1. IInv => LitIsApproved
  <2>1. ASSUME IInv, board.on PROVE board.age < Challenge + Lease
    <3>1. /\ board.armed /\ board.age < Challenge + Ago(clk, board.renewed)
          /\ Ago(clk, board.renewed) < Lease
      BY <2>1 DEF IInv, Guarded
    <3>2. /\ board.age \in Nat /\ Challenge \in Nat /\ Lease \in Nat
          /\ board.renewed \in Clock /\ clk \in Clock
      BY <2>1 DEF IInv, TypeOK, BoardState, Parameters
    <3>3. Ago(clk, board.renewed) \in Nat
      BY <3>2, AgoType
    <3>4. QED
      BY <3>1, <3>2, <3>3
  <2>2. QED
    BY <2>1 DEF LitIsApproved
<1>2. QED
  BY <1>1, BenchInvariant, PTL

\* A person, a replay or a forgery darkens the LED of its run within a lease, the
\* loss of the world when the last world, challenge and lease are over
\* (bench_gate.py cycle; guard.h tick).
THEOREM FaultAlwaysGoesDark == ASSUME Parameters PROVE Spec => []FaultGoesDark
<1>1. IInv => FaultGoesDark
  <2>1. ASSUME IInv, host.fault # "none", host.faultAge >= DarkAfter, board.on,
               board.sess = host.sess
        PROVE  FALSE
    <3>1. /\ board.armed /\ board.age < Challenge + Ago(clk, board.renewed)
          /\ Ago(clk, board.renewed) < Lease /\ Faulted(board, wire, host, gate, clk)
      BY <2>1 DEF IInv, Guarded
    <3>2. /\ board.age \in Nat /\ Challenge \in Nat /\ Lease \in Nat /\ WorldMaxAge \in Nat
          /\ board.renewed \in Clock /\ clk \in Clock /\ host.faultAge \in Nat
      BY <2>1, Parts DEF IInv, BoardState, Parameters
    <3>3. Ago(clk, board.renewed) \in Nat
      BY <3>2, AgoType
    <3>4. CASE host.fault = "world-loss"
      <4>1. host.faultAge <= board.age + WorldMaxAge
        BY <2>1, <3>1, <3>4 DEF Faulted, Fading
      <4>2. QED
        BY <2>1, <3>1, <3>2, <3>3, <3>4, <4>1 DEF DarkAfter
    <3>5. CASE host.fault # "world-loss"
      <4>1. host.faultAge <= Ago(clk, board.renewed)
        BY <2>1, <3>1, <3>5 DEF Faulted, Ended
      <4>2. QED
        BY <2>1, <3>1, <3>2, <3>3, <3>5, <4>1 DEF DarkAfter
    <3>6. QED
      BY <3>4, <3>5
  <2>2. QED
    BY <2>1 DEF FaultGoesDark
<1>2. QED
  BY <1>1, BenchInvariant, PTL

-----------------------------------------------------------------------------
(* The arm fault sessions of the Gazebo rig: types and invariant.             *)

Phases == {"reset", "activated", "owner", "world", "waiting", "dispatched", "moving", "faulted",
           "held", "resumed", "passed", "failed"}
Proposal == [kind : {"off", "arm"}, attempt : Nat]
Published == [kind : {"off", "arm"}, attempt : Nat, id : Nat]
Outcome == [kind : {"decision", "rejected"}, stop : BOOLEAN, id : Nat, attempt : Nat]
ArmToken == [kind : {"reset", "lease", "goal", "stop"}, seq : Nat, nonce : Nat]
Holds == {"activation", "before", "after"}
Report == [kind : {"guard"}, nonce : Nat, seq : Nat, holding : BOOLEAN, executing : BOOLEAN,
           admitted : BOOLEAN, leased : BOOLEAN, held : Holds]
Sample == [kind : {"state"}, armed : BOOLEAN, active : BOOLEAN, world : BOOLEAN]

RigState == [phase : Phases, session : 1..Len(Cases), attempt : Nat, id : Nat]
ArmGateState ==
  [up : {"none", "running", "stalled", "stopped", "dead"}, matched : BOOLEAN, world : BOOLEAN,
   armed : BOOLEAN, active : BOOLEAN, seq : Nat, nonce : Nat]
Seen == [decision : Outcome \cup {None}, state : Sample \cup {None}, after : BOOLEAN,
         guard : Report \cup {None}]
ControllerState ==
  [nonce : Nat, seq : Nat, holding : BOOLEAN, executing : BOOLEAN, admitted : BOOLEAN,
   leased : BOOLEAN, held : Holds]

ArmType ==
  /\ rig \in RigState
  /\ counter \in Nat /\ pipe \in Seq(Proposal)
  /\ dds = <<>> \/ \E p \in Published : dds = <<p>>
  /\ armGate \in ArmGateState
  /\ outcomes \in Seq(Outcome)
  /\ sample \in Sample \cup {None}
  /\ report \in Report \cup {None}
  /\ seen \in Seen
  /\ beat \in ArmToken \cup {None} /\ goal \in ArmToken \cup {None}
  /\ goal # None => goal.kind = "goal"
  /\ beat.kind # "goal"
  /\ controller \in ControllerState

Early == {"owner", "world", "waiting"}
Late == {"dispatched", "moving", "faulted", "held", "resumed", "passed"}
After == {"moving", "faulted", "held", "resumed", "passed"}

\* What the rig wrote is parsed before it writes again, and numbered as it predicted.
Piped ==
  CASE rig.phase = "waiting" ->
         \/ pipe = <<>> /\ counter = rig.id
         \/ pipe = <<[kind |-> "off", attempt |-> rig.attempt]>> /\ counter + 1 = rig.id
    [] rig.phase = "dispatched" ->
         \/ pipe = <<>> /\ counter = rig.id + 1
         \/ pipe = <<[kind |-> "arm", attempt |-> 0]>> /\ counter = rig.id
    [] rig.phase = "failed" -> TRUE
    [] OTHER -> pipe = <<>>

Decisions == ToSet(outcomes) \cup {seen.decision}

\* The numbers only grow: what DDS holds is later than every decision.
Numbered ==
  /\ \A p \in ToSet(dds) : p.id <= counter
  /\ \A m \in Decisions : m # None => m.id <= counter /\ \A p \in ToSet(dds) : p.id > m.id

\* Until its goal is published nothing can have moved the arm in this session.
Unmoved == rig.phase \in {"activated"} \cup Early \/ (rig.phase = "dispatched" /\ pipe # <<>>)
Still ==
  /\ rig.phase \in Early \/ (rig.phase = "dispatched" /\ pipe # <<>>) =>
       \A p \in ToSet(dds) : p.kind = "off"
  /\ Unmoved => ~controller.executing /\ (goal # None => goal.nonce < rig.session)

NoOffLeft == rig.phase \in Late => \A p \in ToSet(dds) : p.kind # "off"

\* Every token is this session's gate's or an older one's.
ThisSession ==
  /\ controller.nonce = IF rig.phase = "reset" THEN rig.session - 1 ELSE rig.session
  /\ rig.phase \in {"reset", "activated"} =>
       /\ armGate.up \in {"none", "dead"}
       /\ \A t \in {beat, goal} : t # None => t.nonce < rig.session
  /\ rig.phase = "passed" => armGate.up = "dead"
  /\ rig.phase \in Early \cup Late =>
       /\ armGate.nonce = rig.session
       /\ \A t \in {beat, goal} : t # None => t.nonce <= rig.session
       /\ beat.kind = "reset" /\ beat.nonce = rig.session => beat.seq <= armGate.seq

\* A report is the controller's own, but for one from before it was activated.
Current(r) == r # None => r.nonce = controller.nonce
Reported ==
  /\ rig.phase # "activated" => Current(report) /\ (rig.phase # "reset" => Current(seen.guard))
  /\ rig.phase = "activated" =>
       /\ report # None => report.nonce \in {rig.session - 1, rig.session}
       /\ seen.guard # None => seen.guard.nonce \in {rig.session - 1, rig.session}
       /\ seen.guard # None /\ seen.guard.nonce = rig.session => Current(report)

\* The OFF that unlocked the arm is older than the goal that moves it.
ResetBefore ==
  rig.phase \in Late /\ beat.kind = "reset" /\ beat.nonce = rig.session =>
    /\ goal # None /\ goal.nonce = rig.session => beat.seq < goal.seq
    /\ controller.executing \/ rig.phase \in After => beat.seq <= controller.seq

\* A hold is called "after" only from the fault on, and then it is for good.
HeldOn ==
  /\ rig.phase \in {"activated"} \cup Early \cup {"dispatched", "moving"} =>
       /\ controller.held # "after"
       /\ \A r \in {report, seen.guard} : r # None /\ r.nonce = rig.session => r.held # "after"
  /\ rig.phase \in {"faulted", "held", "resumed", "passed"} =>
       /\ controller.held = "after" => controller.holding
       /\ \A r \in {report, seen.guard} : r # None /\ r.held = "after" => controller.held = "after"
  /\ rig.phase \in {"held", "resumed", "passed"} => controller.held = "after"

ArmParts ==
  /\ Piped /\ Numbered /\ Still /\ NoOffLeft /\ ThisSession /\ Reported /\ ResetBefore /\ HeldOn
  /\ IdNamesAttempt

ArmInv == ArmType /\ (rig.phase # "failed" => ArmParts)

-----------------------------------------------------------------------------
(* Sequences as sets.                                                       *)

LEMMA AppendedSet ==
  ASSUME NEW S, NEW s \in Seq(S), NEW e \in S
  PROVE  ToSet(Append(s, e)) \subseteq ToSet(s) \cup {e}
<1>1. /\ DOMAIN Append(s, e) = 1..(Len(s) + 1) /\ DOMAIN s = 1..Len(s)
      /\ Len(s) \in Nat
      /\ \A i \in 1..Len(s) : Append(s, e)[i] = s[i]
      /\ Append(s, e)[Len(s) + 1] = e
  OBVIOUS
<1>2. \A i \in 1..(Len(s) + 1) : i \in 1..Len(s) \/ i = Len(s) + 1
  BY <1>1
<1> QED BY <1>1, <1>2 DEF ToSet

LEMMA TailedSet ==
  ASSUME NEW S, NEW s \in Seq(S), s # <<>>
  PROVE  ToSet(Tail(s)) \subseteq ToSet(s) /\ Head(s) \in ToSet(s) /\ Tail(s) \in Seq(S)
<1>1. DOMAIN Tail(s) = 1..(Len(s) - 1) /\ DOMAIN s = 1..Len(s) /\ Len(s) > 0
  OBVIOUS
<1>2. \A i \in DOMAIN Tail(s) : Tail(s)[i] = s[i + 1]
  OBVIOUS
<1> QED BY <1>1, <1>2 DEF ToSet

LEMMA SingleSet == ToSet(<<>>) = {} /\ \A p : ToSet(<<p>>) = {p}
BY DEF ToSet

LEMMA SetOfMembers ==
  ASSUME NEW S, NEW s \in Seq(S)
  PROVE  ToSet(s) \subseteq S
BY DEF ToSet

-----------------------------------------------------------------------------
(* The types are kept.                                                      *)

LEMMA Gated ==
  ASSUME NEW g \in ArmGateState, NEW armed \in BOOLEAN, NEW active \in BOOLEAN, NEW n \in Nat
  PROVE  [g EXCEPT !.armed = armed, !.active = active, !.seq = n] \in ArmGateState
BY DEF ArmGateState

LEMMA WorldSeen ==
  ASSUME NEW g \in ArmGateState, NEW n \in {g.seq, g.seq + 1}
  PROVE  [g EXCEPT !.world = TRUE, !.seq = n] \in ArmGateState
<1>1. n \in Nat
  BY DEF ArmGateState
<1> QED BY <1>1 DEF ArmGateState

\* What the gate says of the proposal it takes.
LEMMA ArmTypeDecides ==
  ASSUME ArmType, GateDecides
  PROVE  \E o \in Outcome : /\ outcomes' = Append(outcomes, o)
                            /\ o.id = Head(dds).id /\ o.attempt = Head(dds).attempt
<1> DEFINE p == Head(dds)
           off == p.kind = "off" /\ armGate.world
           go == p.kind = "arm" /\ armGate.armed /\ ~armGate.active
           o == [kind |-> IF off \/ go THEN "decision" ELSE "rejected",
                 stop |-> off, id |-> p.id, attempt |-> p.attempt]
<1>1. p \in Published
  BY DEF GateDecides, ArmType
<1>2. o \in Outcome
  BY <1>1 DEF Published, Outcome
<1>3. outcomes' = Append(outcomes, o)
  BY DEF GateDecides
<1>4. o.id = p.id /\ o.attempt = p.attempt
  OBVIOUS
<1> HIDE DEF o
<1> QED BY <1>2, <1>3, <1>4

LEMMA ArmTypeStep == ASSUME ArmType, System \/ Rig PROVE ArmType'
<1> USE DEF ArmType, Same
<1>1. CASE SourceParses
  <2>1. Head(pipe) \in Proposal /\ Tail(pipe) \in Seq(Proposal)
    BY <1>1 DEF SourceParses
  <2>2. [kind |-> Head(pipe).kind, attempt |-> Head(pipe).attempt, id |-> counter + 1] \in Published
    BY <2>1 DEF Proposal, Published
  <2> QED BY <1>1, <2>1, <2>2 DEF SourceParses
<1>2. CASE WriterMatches
  BY <1>2 DEF WriterMatches, ArmGateState
<1>3. CASE GateDecides
  <2> DEFINE p == Head(dds)
             off == p.kind = "off" /\ armGate.world
             go == p.kind = "arm" /\ armGate.armed /\ ~armGate.active
  <2>1. p \in Published
    BY <1>3 DEF GateDecides
  <2>2. armGate' \in ArmGateState
    <3>1. off \in BOOLEAN /\ go \in BOOLEAN
      OBVIOUS
    <3>2. armGate' = [armGate EXCEPT !.armed = armGate.armed \/ off,
                        !.active = go \/ (armGate.active /\ ~off),
                        !.seq = IF off \/ go THEN armGate.seq + 1 ELSE armGate.seq]
      BY <1>3 DEF GateDecides
    <3>3. (armGate.armed \/ off) \in BOOLEAN /\ (go \/ (armGate.active /\ ~off)) \in BOOLEAN
      BY <3>1 DEF ArmGateState
    <3>4. armGate.seq \in Nat /\ armGate.seq + 1 \in Nat
      BY DEF ArmGateState
    <3> QED BY <3>2, <3>3, <3>4, Gated
  <2>3. sample' \in Sample
    BY <1>3, <2>2 DEF GateDecides, ArmGateState, Status, Sample
  <2>4. /\ Token("reset") \in ArmToken /\ Token("reset").kind # "goal"
        /\ Token("goal") \in ArmToken /\ Token("goal").kind = "goal"
    BY DEF Token, ArmToken, ArmGateState
  <2>7. outcomes' \in Seq(Outcome)
    BY <1>3, ArmTypeDecides
  <2>8. /\ beat' = (IF off THEN Token("reset") ELSE beat)
        /\ goal' = (IF go THEN Token("goal") ELSE goal)
    BY <1>3 DEF GateDecides
  <2> HIDE DEF p, off, go
  <2>9. beat' \in ArmToken \cup {None} /\ goal' \in ArmToken \cup {None}
    BY <2>4, <2>8
  <2>10. (goal' # None => goal'.kind = "goal") /\ beat'.kind # "goal"
    BY <2>4, <2>8
  <2> QED BY <1>3, <2>2, <2>3, <2>7, <2>9, <2>10 DEF GateDecides
<1>4. CASE GateTicks
  <2>0. \E n \in {armGate.seq, armGate.seq + 1} :
          armGate' = [armGate EXCEPT !.world = TRUE, !.seq = n]
    BY <1>4 DEF GateTicks
  <2>1. armGate' \in ArmGateState
    BY <2>0, WorldSeen
  <2>2. sample' \in Sample
    BY <1>4, <2>1 DEF GateTicks, ArmGateState, Status, Sample
  <2>3. Token("lease") \in ArmToken /\ Token("lease").kind # "goal"
    BY DEF Token, ArmToken, ArmGateState
  <2> QED BY <1>4, <2>1, <2>2, <2>3 DEF GateTicks
<1>5. CASE GateRevokes
  <2>0. armGate' = [armGate EXCEPT !.armed = FALSE, !.active = FALSE, !.seq = armGate.seq + 1]
    BY <1>5 DEF GateRevokes
  <2>a. armGate.seq + 1 \in Nat
    BY DEF ArmGateState
  <2>1. armGate' \in ArmGateState
    BY <2>0, <2>a, Gated
  <2>2. sample' \in Sample
    BY <1>5, <2>1 DEF GateRevokes, ArmGateState, Status, Sample
  <2>3. Token("stop") \in ArmToken /\ Token("stop").kind # "goal"
    BY DEF Token, ArmToken, ArmGateState
  <2> QED BY <1>5, <2>1, <2>2, <2>3 DEF GateRevokes
<1>6. CASE GateAborts
  BY <1>6 DEF GateAborts, ArmGateState, ArmToken, Token
<1>7. CASE ControllerBeat
  BY <1>7 DEF ControllerBeat, None, ControllerState, Holds, Held, Accepts, Acceptable, ArmToken
<1>8. CASE ControllerGoal
  BY <1>8 DEF ControllerGoal, ControllerState, Holds, Held, Accepts, Acceptable, ArmToken
<1>9. CASE ControllerExpires
  BY <1>9 DEF ControllerExpires, ControllerState, Holds, Held, Accepts, Acceptable, ArmToken
<1>10. CASE ControllerReports
  BY <1>10 DEF ControllerReports, ControllerState, Report
<1>11. CASE ReceiveOutcome
  <2>1. Head(outcomes) \in Outcome /\ Tail(outcomes) \in Seq(Outcome)
    BY <1>11 DEF ReceiveOutcome
  <2> QED BY <1>11, <2>1 DEF ReceiveOutcome, Seen
<1>12. CASE ReceiveState
  BY <1>12 DEF ReceiveState, Seen
<1>13. CASE ReceiveReport
  BY <1>13 DEF ReceiveReport, Seen
<1>14. CASE ResetControllers
  BY <1>14
     DEF ResetControllers, ControllerState, Holds, Held, Accepts, Acceptable, ArmToken, RigState,
         Phases, Goes, Seen, Unseen, Activated
<1>15. CASE StartGate
  <2>1. seen.guard \in Report
    BY <1>15 DEF StartGate, ActivatedGuardsReady, Seen
  <2>2. armGate' \in ArmGateState
    BY <1>15, <2>1 DEF StartGate, ArmGateState, Report, NoGate
  <2> QED BY <1>15, <2>2 DEF StartGate, RigState, Goes, Phases
<1>16. CASE OwnerStarts
  BY <1>16 DEF OwnerStarts, RigState, Phases, Goes
<1>17. CASE SendOff
  <2>1. [kind |-> "off", attempt |-> rig.attempt + 1] \in Proposal
    BY DEF RigState, Proposal
  <2>2. pipe' \in Seq(Proposal)
    BY <1>17, <2>1 DEF SendOff
  <2>3. rig' \in RigState
    <3>1. rig' = [rig EXCEPT !.phase = "waiting", !.attempt = rig.attempt + 1, !.id = counter + 1]
      BY <1>17 DEF SendOff
    <3>2. rig.attempt + 1 \in Nat /\ counter + 1 \in Nat /\ "waiting" \in Phases
      BY DEF RigState, Phases
    <3> QED BY <3>1, <3>2 DEF RigState
  <2>4. seen' \in Seen /\ report' \in Report \cup {None}
    BY <1>17 DEF SendOff, Seen
  <2>5. controller' \in ControllerState
    BY <1>17 DEF SendOff, ControllerState
  <2> QED BY <1>17, <2>2, <2>3, <2>4, <2>5 DEF SendOff
<1>18. CASE Dispatch
  <2>1. [kind |-> "arm", attempt |-> 0] \in Proposal
    BY DEF Proposal
  <2>2. pipe' \in Seq(Proposal)
    BY <1>18, <2>1 DEF Dispatch
  <2>3. rig' \in RigState
    BY <1>18 DEF Dispatch, RigState, Phases, Goes
  <2> QED BY <1>18, <2>2, <2>3 DEF Dispatch
<1>19. CASE RearmTimeout
  BY <1>19 DEF RearmTimeout, RigState, Phases, Goes
<1>20. CASE MovingControl
  BY <1>20 DEF MovingControl, RigState, Phases, Goes
<1>21. CASE Fault
  <2>1. Case \in {"kill", "stall", "delay"}
    BY ArmFaultAssumption DEF Case, RigState
  <2> QED BY <1>21, <2>1 DEF Fault, RigState, Phases, Goes, ArmGateState
<1>22. CASE HoldObserved
  BY <1>22 DEF HoldObserved, RigState, Phases, Goes
<1>23. CASE Resume
  BY <1>23 DEF Resume, RigState, Phases, Goes, ArmGateState
<1>24. CASE Pass
  BY <1>24 DEF Pass, RigState, Phases, Goes, ArmGateState
<1>25. CASE NextCase
  BY <1>25 DEF NextCase, RigState, Phases
<1>26. CASE TimesOut
  BY <1>26 DEF TimesOut, RigState, Phases, Goes
<1> QED
  BY <1>1, <1>2, <1>3, <1>4, <1>5, <1>6, <1>7, <1>8, <1>9, <1>10, <1>11, <1>12, <1>13, <1>14,
     <1>15, <1>16, <1>17, <1>18, <1>19, <1>20, <1>21, <1>22, <1>23, <1>24, <1>25, <1>26
     DEF System, Rig

-----------------------------------------------------------------------------
(* Numbers and requests.                                                    *)

LEMMA PipedStep ==
  ASSUME ArmType, Piped, Numbered, Still, rig.phase # "failed", System \/ Rig, rig'.phase # "failed"
  PROVE  Piped'
<1> USE DEF ArmType, Piped, Same, Goes, Waits, RigState
<1>1. CASE SourceParses
  BY <1>1 DEF SourceParses
<1>2. CASE /\ UNCHANGED <<rig, pipe, counter>>
  BY <1>2
<1>3. CASE ResetControllers \/ StartGate \/ OwnerStarts \/ Fault \/ HoldObserved \/ Resume \/ Pass
  BY <1>3 DEF ResetControllers, StartGate, OwnerStarts, Fault, HoldObserved, Resume, Pass
<1>4. CASE NextCase
  BY <1>4 DEF NextCase
<1>5. CASE SendOff
  <2>1. pipe = <<>>
    BY <1>5 DEF SendOff
  <2>2. rig' = [rig EXCEPT !.phase = "waiting", !.attempt = rig.attempt + 1, !.id = counter + 1]
    BY <1>5 DEF SendOff
  <2>3. rig'.phase = "waiting" /\ rig'.attempt = rig.attempt + 1 /\ rig'.id = counter + 1
    BY <2>2
  <2>4. pipe' = <<[kind |-> "off", attempt |-> rig'.attempt]>> /\ counter' = counter
    BY <1>5, <2>1, <2>3 DEF SendOff
  <2> QED BY <2>3, <2>4
<1>6. CASE Dispatch
  <2>1. seen.decision # None /\ seen.decision.id = rig.id
    BY <1>6 DEF Dispatch, GazeboRearmReady, RearmReady
  <2>2. rig.id <= counter
    BY <2>1 DEF Numbered, Decisions
  <2>3. pipe = <<>> /\ counter = rig.id
    BY <1>6, <2>2 DEF Dispatch
  <2> QED BY <1>6, <2>3 DEF Dispatch
<1>7. CASE RearmTimeout
  BY <1>7 DEF RearmTimeout, Retries
<1>8. CASE MovingControl
  BY <1>8 DEF MovingControl, Still, Unmoved
<1>9. CASE TimesOut
  BY <1>9 DEF TimesOut
<1> QED
  BY <1>1, <1>2, <1>3, <1>4, <1>5, <1>6, <1>7, <1>8, <1>9
     DEF System, Rig, WriterMatches, GateDecides, GateTicks, GateRevokes, GateAborts,
         ControllerBeat, ControllerGoal, ControllerExpires, ControllerReports,
         ReceiveOutcome, ReceiveState, ReceiveReport

\* No step but the source's and the gate's makes an id known.
LEMMA Known ==
  ASSUME ArmType, System \/ Rig, ~SourceParses, ~GateDecides
  PROVE  /\ ToSet(dds') \subseteq ToSet(dds) /\ counter' = counter
         /\ Decisions' \subseteq Decisions \cup {None}
<1> USE DEF ArmType, Same, Goes, Waits, Decisions
<1>1. CASE ReceiveOutcome
  <2>1. Head(outcomes) \in ToSet(outcomes) /\ ToSet(Tail(outcomes)) \subseteq ToSet(outcomes)
    BY <1>1, TailedSet DEF ReceiveOutcome
  <2>2. seen'.decision = Head(outcomes)
    BY <1>1 DEF ReceiveOutcome, Seen
  <2> QED BY <1>1, <2>1, <2>2 DEF ReceiveOutcome
<1>2. CASE ResetControllers
  BY <1>2 DEF ResetControllers, Unseen
<1>7. CASE SendOff
  <2>1. seen' = [seen EXCEPT !.decision = None, !.guard = None, !.after = FALSE]
    BY <1>7 DEF SendOff
  <2>2. seen'.decision = None
    BY <2>1 DEF Seen
  <2>3. rig.phase = "world"
    BY <1>7 DEF SendOff
  <2> QED BY <1>7, <2>2, <2>3 DEF SendOff
<1>3. CASE ReceiveState \/ ReceiveReport
  <2>1. seen'.decision = seen.decision
    BY <1>3 DEF ReceiveState, ReceiveReport, Seen
  <2> QED BY <1>3, <2>1 DEF ReceiveState, ReceiveReport
<1>4. CASE StartGate
  BY <1>4, SingleSet DEF StartGate
<1>5. CASE UNCHANGED <<dds, counter, outcomes, seen, rig>>
  BY <1>5
<1>6. CASE OwnerStarts \/ Dispatch \/ RearmTimeout \/ MovingControl \/ Fault \/ HoldObserved \/ Resume
           \/ Pass \/ NextCase \/ TimesOut
  BY <1>6
     DEF OwnerStarts, Dispatch, RearmTimeout, MovingControl, Fault, HoldObserved, Resume, Pass,
     NextCase, TimesOut, RigState
<1> QED
  BY <1>1, <1>2, <1>3, <1>4, <1>5, <1>6, <1>7
     DEF System, Rig, WriterMatches, GateTicks, GateRevokes, GateAborts,
         ControllerBeat, ControllerGoal, ControllerExpires, ControllerReports


LEMMA NumberedStep ==
  ASSUME ArmType, Piped, Numbered, System \/ Rig PROVE Numbered'
<1> USE DEF Numbered
<1>1. CASE ~SourceParses /\ ~GateDecides
  BY <1>1, Known
<1>2. CASE SourceParses
  <2>1. counter' = counter + 1 /\ Decisions' = Decisions /\ counter \in Nat
    BY <1>2 DEF SourceParses, Decisions, ArmType
  <2>2. dds' = dds \/ \E p : dds' = <<p>> /\ p.id = counter + 1
    BY <1>2 DEF SourceParses
  <2>3. \A m \in Decisions : m # None => m.id \in Nat
    <3>1. \A o \in Outcome : o.id \in Nat
      BY DEF Outcome
    <3>2. ToSet(outcomes) \subseteq Outcome
      BY SetOfMembers DEF ArmType
    <3>3. seen.decision \in Outcome \cup {None}
      BY DEF ArmType, Seen
    <3> QED BY <3>1, <3>2, <3>3 DEF Decisions
  <2>4. \A p \in ToSet(dds) : p.id \in Nat
    BY SingleSet DEF ArmType, Published
  <2>5. CASE dds' = dds
    BY <2>1, <2>3, <2>4, <2>5
  <2>6. CASE \E p : dds' = <<p>> /\ p.id = counter + 1
    <3>1. PICK p : dds' = <<p>> /\ p.id = counter + 1
      BY <2>6
    <3>2. ToSet(dds') = {p}
      BY <3>1, SingleSet
    <3> QED BY <2>1, <2>3, <3>1, <3>2
  <2> QED BY <2>2, <2>5, <2>6
<1>3. CASE GateDecides
  <2>1. PICK p \in Published : dds = <<p>>
    BY <1>3 DEF GateDecides, ArmType
  <2>2. PICK o \in Outcome : outcomes' = Append(outcomes, o) /\ o.id = p.id
    <3>1. Head(dds) = p
      BY <2>1
    <3> QED BY <1>3, <3>1, ArmTypeDecides DEF GateDecides
  <2>3. Decisions' \subseteq Decisions \cup {o}
    <3>1. ToSet(outcomes') \subseteq ToSet(outcomes) \cup {o}
      BY <2>2, AppendedSet DEF ArmType
    <3> QED BY <1>3, <3>1 DEF GateDecides, Decisions
  <2>4. ToSet(dds) = {p} /\ ToSet(dds') = {} /\ counter' = counter
    BY <1>3, <2>1, SingleSet DEF GateDecides
  <2> QED BY <2>2, <2>3, <2>4
<1> QED BY <1>1, <1>2, <1>3

LEMMA NamesStep ==
  ASSUME ArmType, Piped, Numbered, IdNamesAttempt, System \/ Rig PROVE IdNamesAttempt'
<1> SUFFICES ASSUME rig'.phase \in {"waiting", "dispatched"},
                    NEW m \in ToSet(dds') \cup Decisions', m # None, m.id = rig'.id
             PROVE  m.attempt = rig'.attempt
  BY DEF IdNamesAttempt, Decisions
<1> USE DEF Goes, Waits, Same
<1>0. counter \in Nat /\ rig.id \in Nat /\ rig.attempt \in Nat
  BY DEF ArmType, RigState
<1>1. CASE ~SourceParses /\ ~GateDecides
  <2>1. m \in ToSet(dds) \cup Decisions
    BY <1>1, Known
  <2>2. m.id <= counter
    BY <2>1 DEF Numbered
  <2>3. CASE SendOff
    <3>1. rig'.id = counter + 1
      BY <2>3 DEF SendOff, ArmType, RigState
    <3> QED BY <2>2, <3>1, <1>0
  <2>4. CASE ~SendOff
    <3>1. rig.phase \in {"waiting", "dispatched"} /\ rig'.id = rig.id /\ rig'.attempt = rig.attempt
      BY <2>4, <1>1 DEF System, Rig, WriterMatches, GateTicks, GateRevokes, GateAborts,
         ControllerBeat, ControllerGoal, ControllerExpires, ControllerReports,
         ReceiveOutcome, ReceiveState, ReceiveReport, ResetControllers, StartGate, OwnerStarts,
         Dispatch, RearmTimeout, MovingControl, Fault, HoldObserved, Resume, Pass, NextCase, TimesOut,
         ArmType, RigState
    <3> QED BY <2>1, <3>1 DEF IdNamesAttempt, Decisions
  <2> QED BY <2>3, <2>4
<1>2. CASE SourceParses
  <2>1. UNCHANGED <<rig, outcomes, seen>> /\ pipe # <<>>
    BY <1>2 DEF SourceParses
  <2>2. \/ dds' = dds
        \/ dds' = <<[kind |-> Head(pipe).kind, attempt |-> Head(pipe).attempt,
                     id |-> counter + 1]>>
    BY <1>2 DEF SourceParses
  <2>3. CASE m \in ToSet(dds) \cup Decisions
    BY <2>1, <2>3 DEF IdNamesAttempt, Decisions
  <2>4. CASE m = [kind |-> Head(pipe).kind, attempt |-> Head(pipe).attempt, id |-> counter + 1]
    <3>1. CASE rig.phase = "waiting"
      <4>1. pipe = <<[kind |-> "off", attempt |-> rig.attempt]>>
        BY <2>1, <3>1 DEF Piped
      <4> QED BY <2>1, <2>4, <4>1
    <3>2. CASE rig.phase = "dispatched"
      <4>1. counter = rig.id
        BY <2>1, <3>2 DEF Piped
      <4> QED BY <2>1, <2>4, <4>1, <1>0
    <3> QED BY <2>1, <3>1, <3>2
  <2> QED BY <2>1, <2>2, <2>3, <2>4, SingleSet DEF Decisions
<1>3. CASE GateDecides
  <2>1. PICK p \in Published : dds = <<p>>
    BY <1>3 DEF GateDecides, ArmType
  <2>2. Head(dds) = p
    BY <2>1
  <2>3. PICK o \in Outcome : outcomes' = Append(outcomes, o) /\ o.id = p.id /\ o.attempt = p.attempt
    BY <1>3, <2>2, ArmTypeDecides
  <2>4. ToSet(outcomes') \subseteq ToSet(outcomes) \cup {o}
    BY <2>3, AppendedSet DEF ArmType
  <2>5. ToSet(dds) = {p} /\ ToSet(dds') = {} /\ UNCHANGED <<rig, seen>>
    BY <1>3, <2>1, SingleSet DEF GateDecides
  <2>6. p # None
    BY <2>1 DEF Published, None
  <2> QED BY <2>3, <2>4, <2>5, <2>6 DEF IdNamesAttempt, Decisions
<1> QED BY <1>1, <1>2, <1>3

-----------------------------------------------------------------------------
(* The goal, the tokens and the reports.                                    *)

\* The controller moves only on a goal of its own activation.
LEMMA StillStep ==
  ASSUME ArmType, Piped, Still, ThisSession, rig.phase # "failed", System \/ Rig
  PROVE  Still'
<1> USE DEF Goes, Waits, Same, Unmoved, Early
<1>1. CASE ~SourceParses /\ ~GateDecides
  <2>0. ToSet(dds') \subseteq ToSet(dds)
    BY <1>1, Known
  <2>1. CASE ControllerBeat
    <3>1. controller'.executing => controller.executing
      BY <2>1 DEF ControllerBeat, Accepts, Held, ArmType, ControllerState, ArmToken, None
    <3> QED BY <2>0, <2>1, <3>1 DEF ControllerBeat, Still
  <2>2. CASE ControllerGoal
    <3>1. Unmoved => ~Acceptable(goal)
      BY <2>2 DEF Still, ThisSession, Acceptable, ControllerGoal, ArmType, RigState, ArmToken
    <3>2. Unmoved => controller' = Held
      BY <2>2, <3>1 DEF ControllerGoal, Accepts
    <3>3. Unmoved => ~controller'.executing
      BY <3>2 DEF Held, ArmType, ControllerState
    <3> QED BY <2>0, <2>2, <3>3 DEF ControllerGoal, Still
  <2>3. CASE ControllerExpires
    BY <2>0, <2>3 DEF ControllerExpires, Still, Held, ArmType, ControllerState
  <2>4. CASE ResetControllers
    <3>1. ~controller'.executing /\ goal' = goal /\ rig'.session = rig.session /\ rig'.phase = "activated"
      BY <2>4 DEF ResetControllers, Activated, ArmType, RigState
    <3>2. goal # None => goal.nonce < rig.session
      BY <2>4 DEF ResetControllers, ThisSession
    <3> QED BY <3>1, <3>2 DEF Still
  <2>5. CASE StartGate
    BY <2>5, SingleSet DEF StartGate, Still, ArmType, RigState
  <2>6. CASE SendOff
    <3>1. controller' = [controller EXCEPT !.leased = FALSE]
      BY <2>6 DEF SendOff
    <3>2. controller'.executing = controller.executing
      BY <3>1 DEF ArmType, ControllerState
    <3> QED BY <2>0, <2>6, <3>2 DEF SendOff, Still, ArmType, RigState
  <2>7. CASE OwnerStarts \/ Dispatch \/ RearmTimeout \/ MovingControl \/ Fault \/ HoldObserved
             \/ Resume \/ Pass \/ NextCase \/ TimesOut
    BY <2>0, <2>7 DEF OwnerStarts, Dispatch, RearmTimeout, MovingControl, Fault, HoldObserved,
       Resume, Pass, NextCase, TimesOut, Still, ArmType, RigState
  <2>8. CASE UNCHANGED <<rig, pipe, controller, goal>>
    BY <2>0, <2>8 DEF Still
  <2> QED
    BY <1>1, <2>1, <2>2, <2>3, <2>4, <2>5, <2>6, <2>7, <2>8
       DEF System, Rig, WriterMatches, GateTicks, GateRevokes, GateAborts, ControllerReports,
           ReceiveOutcome, ReceiveState, ReceiveReport
<1>2. CASE SourceParses
  <2>1. rig.phase \in Early => \A p \in ToSet(dds') : p.kind = "off"
    <3> SUFFICES ASSUME rig.phase \in Early, NEW p \in ToSet(dds') PROVE p.kind = "off"
      OBVIOUS
    <3>1. pipe = <<[kind |-> "off", attempt |-> rig.attempt]>>
      BY <1>2 DEF SourceParses, Piped
    <3>2. dds' = dds \/ dds' = <<[kind |-> "off", attempt |-> rig.attempt, id |-> counter + 1]>>
      BY <1>2, <3>1 DEF SourceParses
    <3> QED BY <3>2, SingleSet DEF Still
  <2>2. rig.phase = "dispatched" => pipe' = <<>>
    <3>1. rig.phase = "dispatched" => pipe = <<[kind |-> "arm", attempt |-> 0]>>
      BY <1>2 DEF SourceParses, Piped
    <3>2. Tail(<<[kind |-> "arm", attempt |-> 0]>>) = <<>>
      OBVIOUS
    <3> QED BY <1>2, <3>1, <3>2 DEF SourceParses
  <2> QED BY <1>2, <2>1, <2>2 DEF SourceParses, Still
<1>3. CASE GateDecides
  <2>1. ToSet(dds') = {}
    BY <1>3, SingleSet DEF GateDecides
  <2>2. rig.phase \in {"activated"} => FALSE
    BY <1>3 DEF GateDecides, Running, ThisSession
  <2>3. UNCHANGED <<rig, pipe, controller>> /\ dds # <<>>
    BY <1>3 DEF GateDecides
  <2>4. Unmoved => Head(dds).kind = "off"
    <3>1. PICK p \in Published : dds = <<p>>
      BY <2>3 DEF ArmType
    <3> QED BY <2>2, <3>1, SingleSet DEF Still
  <2>5. Unmoved => goal' = goal
    BY <1>3, <2>4 DEF GateDecides
  <2> QED BY <2>1, <2>3, <2>5 DEF Still
<1> QED BY <1>1, <1>2, <1>3

LEMMA NoOffStep ==
  ASSUME ArmType, Piped, Numbered, NoOffLeft, System \/ Rig PROVE NoOffLeft'
<1> USE DEF Goes, Waits, Same, Late, ArmType
<1>1. CASE ~SourceParses /\ ~Dispatch /\ rig'.phase \in Late
  <2>1. rig.phase \in Late
    BY <1>1 DEF System, Rig, WriterMatches, GateDecides, GateTicks, GateRevokes, GateAborts,
       ControllerBeat, ControllerGoal, ControllerExpires, ControllerReports,
       ReceiveOutcome, ReceiveState, ReceiveReport, ResetControllers, StartGate, OwnerStarts, SendOff,
       RearmTimeout, MovingControl, Fault, HoldObserved, Resume, Pass, NextCase, TimesOut, RigState
  <2>2. ToSet(dds') \subseteq ToSet(dds)
    <3>1. CASE GateDecides
      BY <3>1, SingleSet DEF GateDecides
    <3> QED BY <1>1, <3>1, Known
  <2> QED BY <2>1, <2>2 DEF NoOffLeft
<1>2. CASE Dispatch
  <2>1. seen.decision # None /\ seen.decision.id = rig.id /\ rig.phase = "waiting" /\ dds' = dds
    BY <1>2 DEF Dispatch, GazeboRearmReady, RearmReady
  <2>2. counter <= rig.id
    BY <2>1 DEF Piped, RigState
  <2>3. \A p \in ToSet(dds) : p.id <= counter /\ p.id > rig.id
    BY <2>1 DEF Numbered, Decisions
  <2>4. \A p \in ToSet(dds) : p.id \in Nat
    BY SingleSet DEF Published
  <2>5. ToSet(dds) = {}
    BY <2>2, <2>3, <2>4 DEF RigState
  <2> QED BY <2>1, <2>5 DEF NoOffLeft
<1>3. CASE SourceParses
  <2>1. rig.phase \in Late => Head(pipe).kind = "arm"
    BY <1>3 DEF SourceParses, Piped
  <2>2. \/ dds' = dds
        \/ dds' = <<[kind |-> Head(pipe).kind, attempt |-> Head(pipe).attempt,
                     id |-> counter + 1]>>
    BY <1>3 DEF SourceParses
  <2> QED BY <1>3, <2>1, <2>2, SingleSet DEF NoOffLeft, SourceParses
<1> QED BY <1>1, <1>2, <1>3 DEF NoOffLeft

\* What a token does to the controller, whatever it is.
LEMMA Accepted ==
  ASSUME ArmType, NEW t \in ArmToken
  PROVE  /\ Accepts(t).nonce = controller.nonce /\ Accepts(t).seq >= controller.seq
         /\ Accepts(t).executing /\ ~controller.executing =>
              t.kind = "goal" /\ Acceptable(t) /\ Accepts(t).seq = t.seq
         /\ controller.holding =>
              /\ Accepts(t).held = controller.held
              /\ Accepts(t).holding \/ (t.kind = "reset" /\ Acceptable(t))
         /\ ~controller.holding =>
              Accepts(t).held = controller.held \/ (Accepts(t).holding /\ Accepts(t).held = Held.held)
<1> USE DEF ArmType
<1>1. CASE ~Acceptable(t) \/ (controller.holding /\ t.kind \in {"lease", "goal"})
  <2>1. Accepts(t) = Held
    BY <1>1 DEF Accepts
  <2> QED BY <2>1 DEF Held, ControllerState
<1>2. CASE Acceptable(t) /\ t.kind = "stop"
  <2>1. Accepts(t) = [Held EXCEPT !.seq = t.seq]
    BY <1>2 DEF Accepts
  <2> QED BY <2>1, <1>2 DEF Held, ControllerState, Acceptable, ArmToken
<1>3. CASE Acceptable(t) /\ t.kind = "reset"
  <2>1. Accepts(t) = [controller EXCEPT !.seq = t.seq, !.holding = FALSE, !.executing = FALSE,
                                        !.admitted = FALSE, !.leased = FALSE]
    BY <1>3 DEF Accepts, ControllerState
  <2> QED BY <2>1, <1>3 DEF ControllerState, Acceptable, ArmToken
<1>4. CASE Acceptable(t) /\ ~controller.holding /\ t.kind = "lease"
  <2>1. Accepts(t) = [controller EXCEPT !.seq = t.seq, !.leased = TRUE]
    BY <1>4 DEF Accepts, ControllerState
  <2> QED BY <2>1, <1>4 DEF ControllerState, Acceptable, ArmToken
<1>5. CASE Acceptable(t) /\ ~controller.holding /\ t.kind = "goal"
  <2>1. Accepts(t) = [controller EXCEPT !.seq = t.seq, !.executing = TRUE, !.admitted = TRUE]
    BY <1>5 DEF Accepts, ControllerState
  <2> QED BY <2>1, <1>5 DEF ControllerState, Acceptable, ArmToken
<1> QED BY <1>1, <1>2, <1>3, <1>4, <1>5 DEF ArmToken

LEMMA SessionStep ==
  ASSUME ArmType, ThisSession, Reported, rig.phase # "failed", System \/ Rig, rig'.phase # "failed"
  PROVE  ThisSession'
<1> USE DEF Goes, Waits, Same, Early, Late
<1>1. CASE ControllerBeat \/ ControllerGoal \/ ControllerExpires
  <2>1. controller'.nonce = controller.nonce
    BY <1>1, Accepted
       DEF ControllerBeat, ControllerGoal, ControllerExpires, Held, ArmType, ControllerState
  <2> QED BY <1>1, <2>1 DEF ControllerBeat, ControllerGoal, ControllerExpires, ThisSession, None
<1>2. CASE GateDecides \/ GateTicks \/ GateRevokes \/ GateAborts
  <2>1. rig.phase \in Early \cup Late /\ rig.phase # "passed" /\ UNCHANGED <<rig, controller>>
    BY <1>2
       DEF GateDecides, GateTicks, GateRevokes, GateAborts, Running, ThisSession, ArmType,
           RigState, Phases
  <2>2. armGate'.nonce = armGate.nonce /\ armGate'.seq >= armGate.seq
    <3>1. armGate.seq \in Nat
      BY DEF ArmType, ArmGateState
    <3>2. CASE GateDecides
      BY <3>1, <3>2 DEF GateDecides, ArmType, ArmGateState
    <3>3. CASE GateTicks
      BY <3>1, <3>3 DEF GateTicks, ArmType, ArmGateState
    <3>4. CASE GateRevokes
      <4>1. armGate' = [armGate EXCEPT !.armed = FALSE, !.active = FALSE, !.seq = armGate.seq + 1]
        BY <3>4 DEF GateRevokes
      <4> QED BY <3>1, <4>1 DEF ArmType, ArmGateState
    <3>5. CASE GateAborts
      BY <3>1, <3>5 DEF GateAborts, ArmType, ArmGateState
    <3> QED BY <1>2, <3>2, <3>3, <3>4, <3>5
  <2>3. /\ beat' = beat \/ beat'.nonce = armGate.nonce
        /\ goal' = goal \/ goal'.nonce = armGate.nonce
    BY <1>2 DEF GateDecides, GateTicks, GateRevokes, GateAborts, Token
  <2>4. beat' = beat \/ (beat'.kind = "reset" => beat'.seq <= armGate'.seq)
    <3>1. CASE GateDecides
      BY <3>1 DEF GateDecides, Token, ArmType, ArmGateState
    <3>2. CASE ~GateDecides
      BY <1>2, <3>2 DEF GateTicks, GateRevokes, GateAborts, Token
    <3> QED BY <3>1, <3>2
  <2>5. armGate.nonce = rig.session /\ armGate.nonce \in Nat /\ armGate.seq \in Nat /\ armGate'.seq \in Nat
    <3>1. ArmType'
      BY ArmTypeStep
    <3> QED BY <2>1, <3>1 DEF ThisSession, ArmType, ArmGateState
  <2>6. \A t \in {beat', goal'} : t # None => t.nonce <= rig.session
    BY <2>1, <2>3, <2>5 DEF ThisSession
  <2>7. beat'.kind = "reset" /\ beat'.nonce = rig.session => beat'.seq <= armGate'.seq
    <3>1. beat'.kind = "reset" => beat' \in ArmToken
      <4>1. ArmType'
        BY ArmTypeStep
      <4> QED BY <4>1 DEF ArmType, None
    <3> QED BY <2>1, <2>2, <2>4, <2>5, <3>1 DEF ThisSession, ArmToken
  <2> QED BY <2>1, <2>2, <2>5, <2>6, <2>7 DEF ThisSession
<1>3. CASE ResetControllers
  BY <1>3 DEF ResetControllers, ThisSession, Activated, ArmType, RigState
<1>4. CASE StartGate
  <2>1. armGate' = [NoGate EXCEPT !.up = "running", !.nonce = seen.guard.nonce]
    BY <1>4 DEF StartGate
  <2>2. armGate'.nonce = rig.session /\ rig'.session = rig.session /\ rig'.phase = "owner"
    BY <1>4, <2>1 DEF StartGate, ActivatedGuardsReady, Reported, NoGate, ArmType, RigState
  <2>3. \A t \in {beat, goal} : t # None => t.nonce < rig.session
    BY <1>4 DEF StartGate, ThisSession
  <2>4. \A t \in {beat, goal} : t # None => t.nonce \in Nat
    BY DEF ArmType, ArmToken
  <2>5. rig.session \in Nat
    BY DEF ArmType, RigState
  <2>6. beat.kind = "reset" => beat # None
    BY DEF None
  <2> QED BY <1>4, <2>2, <2>3, <2>4, <2>5, <2>6 DEF StartGate, ThisSession
<1>5. CASE SendOff
  <2>1. controller' = [controller EXCEPT !.leased = FALSE]
    BY <1>5 DEF SendOff
  <2>2. controller'.nonce = controller.nonce
    BY <2>1 DEF ArmType, ControllerState
  <2> QED BY <1>5, <2>2 DEF SendOff, ThisSession, ArmType, RigState
<1>6. CASE NextCase
  <2>1. rig'.session = rig.session + 1 /\ rig'.phase = "reset" /\ rig.session \in Nat
    BY <1>6 DEF NextCase, ArmType, RigState
  <2>2. /\ armGate.up = "dead" /\ controller.nonce = rig.session
        /\ \A t \in {beat, goal} : t # None => t.nonce <= rig.session
    BY <1>6 DEF NextCase, ThisSession
  <2>3. \A t \in {beat, goal} : t # None => t.nonce \in Nat
    BY DEF ArmType, ArmToken
  <2> QED BY <1>6, <2>1, <2>2, <2>3 DEF NextCase, ThisSession
<1>7. CASE WriterMatches \/ OwnerStarts \/ Dispatch \/ RearmTimeout \/ MovingControl \/ Fault
           \/ HoldObserved \/ Resume \/ Pass \/ TimesOut
  BY <1>7
     DEF WriterMatches, OwnerStarts, Dispatch, RearmTimeout, MovingControl, Fault, HoldObserved,
     Resume, Pass, TimesOut, ThisSession, ArmType, RigState, ArmGateState
<1>8. CASE UNCHANGED <<rig, armGate, beat, goal, controller>>
  BY <1>8 DEF ThisSession
<1> QED
  BY <1>1, <1>2, <1>3, <1>4, <1>5, <1>6, <1>7, <1>8
     DEF System, Rig, SourceParses, ControllerReports, ReceiveOutcome, ReceiveState, ReceiveReport

LEMMA ReportedStep ==
  ASSUME ArmType, ThisSession, Reported, rig.phase # "failed", System \/ Rig, rig'.phase # "failed"
  PROVE  Reported'
<1> USE DEF Goes, Waits, Same, Current, ArmType
<1>1. CASE ControllerBeat \/ ControllerGoal \/ ControllerExpires
  <2>1. controller'.nonce = controller.nonce
    BY <1>1, Accepted DEF ControllerBeat, ControllerGoal, ControllerExpires, Held, ControllerState
  <2> QED BY <1>1, <2>1 DEF ControllerBeat, ControllerGoal, ControllerExpires, Reported
<1>2. CASE ControllerReports
  BY <1>2 DEF ControllerReports, Reported, ThisSession
<1>3. CASE ReceiveReport
  <2>1. seen'.guard = report /\ report' = None
    BY <1>3 DEF ReceiveReport, Seen
  <2> QED BY <1>3, <2>1 DEF ReceiveReport, Reported, ThisSession
<1>4. CASE ReceiveState \/ ReceiveOutcome
  <2>1. seen'.guard = seen.guard
    BY <1>4 DEF ReceiveState, ReceiveOutcome, Seen
  <2> QED BY <1>4, <2>1 DEF ReceiveState, ReceiveOutcome, Reported
<1>5. CASE ResetControllers
  BY <1>5 DEF ResetControllers, Reported, ThisSession, Activated, Unseen, RigState
<1>6. CASE StartGate
  BY <1>6 DEF StartGate, Reported, ThisSession, ActivatedGuardsReady, RigState
<1>7. CASE SendOff
  <2>1. seen' = [seen EXCEPT !.decision = None, !.guard = None, !.after = FALSE]
    BY <1>7 DEF SendOff
  <2>2. seen'.guard = None /\ report' = None /\ rig'.phase = "waiting"
    BY <1>7, <2>1 DEF SendOff, Seen, RigState
  <2> QED BY <2>2 DEF Reported
<1>8. CASE OwnerStarts \/ Dispatch \/ RearmTimeout \/ MovingControl \/ Fault
           \/ HoldObserved \/ Resume \/ Pass \/ TimesOut \/ NextCase
  BY <1>8
     DEF OwnerStarts, Dispatch, RearmTimeout, MovingControl, Fault, HoldObserved, Resume, Pass,
     TimesOut, NextCase, Reported, RigState
<1>9. CASE UNCHANGED <<rig, report, seen, controller>>
  BY <1>9 DEF Reported
<1> QED
  BY <1>1, <1>2, <1>3, <1>4, <1>5, <1>6, <1>7, <1>8, <1>9
     DEF System, Rig, SourceParses, WriterMatches, GateDecides, GateTicks, GateRevokes, GateAborts

-----------------------------------------------------------------------------
(* The hold.                                                                *)

LEMMA ResetBeforeStep ==
  ASSUME ArmType, Still, NoOffLeft, ThisSession, ResetBefore, rig.phase # "failed",
         System \/ Rig, rig'.phase # "failed"
  PROVE  ResetBefore'
<1> USE DEF Goes, Waits, Same, Late, After
<1>0. controller.seq \in Nat /\ armGate.seq \in Nat /\ rig.session \in Nat
  BY DEF ArmType, ControllerState, ArmGateState, RigState
<1>1. CASE ControllerBeat
  BY <1>1 DEF ControllerBeat, ResetBefore, None
<1>2. CASE ControllerGoal
  <2> SUFFICES ASSUME rig.phase \in Late, beat.kind = "reset", beat.nonce = rig.session
               PROVE  controller'.executing \/ rig.phase \in After => beat.seq <= controller'.seq
    BY <1>2 DEF ControllerGoal, ResetBefore, None
  <2>1. goal \in ArmToken /\ controller' = Accepts(goal)
    BY <1>2 DEF ControllerGoal, ArmType
  <2>2. beat.seq \in Nat
    BY DEF ArmType, ArmToken, None
  <2>3. /\ controller'.seq >= controller.seq /\ controller'.seq \in Nat
        /\ controller'.executing /\ ~controller.executing => Acceptable(goal) /\ controller'.seq = goal.seq
    <3>1. ArmType'
      BY ArmTypeStep
    <3> QED BY <2>1, <3>1, Accepted DEF ArmType, ControllerState
  <2>4. Acceptable(goal) => beat.seq < goal.seq
    <3>1. controller.nonce = rig.session
      BY DEF ThisSession
    <3> QED BY <1>2, <3>1 DEF Acceptable, ControllerGoal, ResetBefore
  <2>5. goal.seq \in Nat
    BY <2>1 DEF ArmToken
  <2>6. controller.executing \/ rig.phase \in After => beat.seq <= controller.seq
    BY DEF ResetBefore
  <2> QED BY <1>0, <2>2, <2>3, <2>4, <2>5, <2>6
<1>3. CASE ControllerExpires
  <2>1. controller'.seq = controller.seq /\ (controller'.executing => controller.executing)
    BY <1>3 DEF ControllerExpires, Held, ArmType, ControllerState
  <2> QED BY <1>3, <2>1 DEF ControllerExpires, ResetBefore
<1>4. CASE GateDecides
  <2>1. PICK p \in Published : dds = <<p>>
    BY <1>4 DEF GateDecides, ArmType
  <2> SUFFICES ASSUME rig.phase \in Late PROVE ResetBefore'
    BY <1>4 DEF GateDecides, ResetBefore
  <2>2. Head(dds) = p /\ p.kind # "off"
    BY <2>1, SingleSet DEF NoOffLeft
  <2>3. UNCHANGED <<rig, controller, beat>> /\ (goal' = goal \/ goal' = Token("goal"))
    BY <1>4, <2>2 DEF GateDecides
  <2>4. beat.kind = "reset" /\ beat.nonce = rig.session => beat.seq <= armGate.seq /\ beat.seq \in Nat
    BY DEF ThisSession, ArmType, ArmToken, None
  <2> QED BY <1>0, <2>3, <2>4 DEF Token, ResetBefore
<1>5. CASE GateTicks \/ GateRevokes \/ GateAborts
  <2>1. UNCHANGED <<rig, controller, goal>> /\ (beat' = beat \/ beat'.kind # "reset")
    BY <1>5 DEF GateTicks, GateRevokes, GateAborts, Token
  <2> QED BY <2>1 DEF ResetBefore
<1>6. CASE Dispatch
  <2>1. ~controller.executing /\ (goal # None => goal.nonce < rig.session)
    BY <1>6 DEF Dispatch, Still, Unmoved, Early
  <2>2. goal # None => goal.nonce \in Nat
    BY DEF ArmType, ArmToken
  <2> QED BY <1>0, <1>6, <2>1, <2>2 DEF Dispatch, ResetBefore, ArmType, RigState
<1>7. CASE MovingControl
  BY <1>7 DEF MovingControl, ResetBefore, ArmType, RigState
<1>8. CASE Fault \/ HoldObserved \/ Resume \/ Pass
  BY <1>8 DEF Fault, HoldObserved, Resume, Pass, ResetBefore, ArmType, RigState
<1>9. CASE ResetControllers \/ StartGate \/ OwnerStarts \/ SendOff \/ RearmTimeout \/ TimesOut \/ NextCase
  <2>1. rig'.phase \notin Late
    <3>1. CASE ResetControllers \/ StartGate \/ OwnerStarts \/ RearmTimeout \/ TimesOut
      BY <3>1
         DEF ResetControllers, StartGate, OwnerStarts, RearmTimeout, TimesOut, ArmType, RigState
    <3>2. CASE SendOff
      <4>1. rig' = [rig EXCEPT !.phase = "waiting", !.attempt = rig.attempt + 1, !.id = counter + 1]
        BY <3>2 DEF SendOff
      <4> QED BY <4>1 DEF ArmType, RigState
    <3>3. CASE NextCase
      BY <3>3 DEF NextCase
    <3> QED BY <1>9, <3>1, <3>2, <3>3
  <2> QED BY <2>1 DEF ResetBefore
<1>10. CASE UNCHANGED <<rig, controller, goal, beat>>
  BY <1>10 DEF ResetBefore
<1> QED
  BY <1>1, <1>2, <1>3, <1>4, <1>5, <1>6, <1>7, <1>8, <1>9, <1>10
     DEF System, Rig, SourceParses, WriterMatches, ControllerReports, ReceiveOutcome, ReceiveState,
         ReceiveReport

\* What a step of the controller's does to its hold, from the dispatch on.
LEMMA HoldStep ==
  ASSUME ArmType, ThisSession, ResetBefore, HeldOn, rig.phase # "failed",
         ControllerBeat \/ ControllerGoal \/ ControllerExpires
  PROVE  /\ UNCHANGED <<rig, report, seen>>
         /\ rig.phase \notin {"faulted", "held", "resumed"} =>
              controller'.held \in {controller.held, "before"}
         /\ rig.phase \in After /\ controller.holding =>
              controller'.holding /\ controller'.held = controller.held
         /\ rig.phase = "faulted" /\ ~controller.holding =>
              controller'.held = controller.held \/ controller'.holding
<1>1. UNCHANGED <<rig, report, seen>>
  BY DEF ControllerBeat, ControllerGoal, ControllerExpires
<1>2. /\ rig.phase \notin {"faulted", "held", "resumed"} => Held.held \in {controller.held, "before"}
      /\ Held.holding /\ (controller.holding => Held.held = controller.held)
  BY DEF Held, ArmType, ControllerState
<1>3. CASE ControllerExpires
  BY <1>1, <1>2, <1>3 DEF ControllerExpires
<1>4. ASSUME NEW t \in ArmToken, controller' = Accepts(t),
             rig.phase \in After => ~(t.kind = "reset" /\ Acceptable(t))
      PROVE  /\ rig.phase \notin {"faulted", "held", "resumed"} =>
                  controller'.held \in {controller.held, "before"}
             /\ rig.phase \in After /\ controller.holding =>
                  controller'.holding /\ controller'.held = controller.held
             /\ rig.phase = "faulted" /\ ~controller.holding =>
                  controller'.held = controller.held \/ controller'.holding
  BY <1>2, <1>4, Accepted DEF ArmType, ControllerState
<1>5. CASE ControllerBeat
  <2>1. beat \in ArmToken /\ controller' = Accepts(beat)
    BY <1>5 DEF ControllerBeat, ArmType
  <2>2. rig.phase \in After => ~(beat.kind = "reset" /\ Acceptable(beat))
    <3> SUFFICES ASSUME rig.phase \in After, beat.kind = "reset", Acceptable(beat) PROVE FALSE
      OBVIOUS
    <3>1. beat.nonce = rig.session /\ beat.seq > controller.seq
      BY DEF Acceptable, ThisSession, After
    <3>2. beat.seq <= controller.seq
      BY <3>1 DEF ResetBefore, Late, After
    <3> QED BY <2>1, <3>1, <3>2 DEF ArmType, ControllerState, ArmToken
  <2> QED BY <1>1, <1>4, <2>1, <2>2
<1>6. CASE ControllerGoal
  <2>1. goal \in ArmToken /\ controller' = Accepts(goal) /\ goal.kind = "goal"
    BY <1>6 DEF ControllerGoal, ArmType
  <2> QED BY <1>1, <1>4, <2>1
<1> QED BY <1>3, <1>5, <1>6

LEMMA HeldOnStep ==
  ASSUME ArmType, ThisSession, Reported, ResetBefore, HeldOn, rig.phase # "failed",
         System \/ Rig, rig'.phase # "failed"
  PROVE  HeldOn'
<1> USE DEF Goes, Waits, Same, Early, After
<1>1. CASE ControllerBeat \/ ControllerGoal \/ ControllerExpires
  BY <1>1, HoldStep DEF HeldOn
<1>2. CASE ControllerReports
  <2>1. report'.held = controller.held /\ report'.nonce = controller.nonce
    BY <1>2 DEF ControllerReports
  <2> QED BY <1>2, <2>1 DEF ControllerReports, HeldOn
<1>3. CASE ReceiveReport
  <2>1. seen'.guard = report /\ report' = None
    BY <1>3 DEF ReceiveReport, ArmType, Seen
  <2> QED BY <1>3, <2>1 DEF ReceiveReport, HeldOn
<1>4. CASE ReceiveState \/ ReceiveOutcome
  <2>1. seen'.guard = seen.guard
    BY <1>4 DEF ReceiveState, ReceiveOutcome, ArmType, Seen
  <2> QED BY <1>4, <2>1 DEF ReceiveState, ReceiveOutcome, HeldOn
<1>5. CASE ResetControllers
  <2>1. /\ rig'.phase = "activated" /\ rig'.session = rig.session /\ report' = report
        /\ seen'.guard = None /\ controller'.held = "activation"
    BY <1>5 DEF ResetControllers, Unseen, Activated, ArmType, RigState
  <2>2. report # None => report.nonce = rig.session - 1
    BY <1>5 DEF ResetControllers, Reported, Current, ThisSession
  <2>3. rig.session \in Nat
    BY DEF ArmType, RigState
  <2> QED BY <2>1, <2>2, <2>3 DEF HeldOn
<1>6. CASE SendOff
  <2>1. /\ seen' = [seen EXCEPT !.decision = None, !.guard = None, !.after = FALSE]
        /\ controller' = [controller EXCEPT !.leased = FALSE]
    BY <1>6 DEF SendOff
  <2>2. seen'.guard = None /\ report' = None /\ rig'.phase = "waiting" /\ rig.phase = "world"
        /\ controller'.held = controller.held
    BY <1>6, <2>1 DEF SendOff, ArmType, Seen, ControllerState, RigState
  <2> QED BY <2>2 DEF HeldOn
<1>7. CASE StartGate \/ OwnerStarts \/ Dispatch \/ RearmTimeout \/ MovingControl \/ TimesOut \/ NextCase
  BY <1>7 DEF StartGate, OwnerStarts, Dispatch, RearmTimeout, MovingControl, TimesOut, NextCase,
     HeldOn, ArmType, RigState
<1>8. CASE Fault
  <2>1. /\ rig'.phase = "faulted" /\ rig.phase = "moving" /\ UNCHANGED <<report, seen, controller>>
    BY <1>8 DEF Fault, ArmType, RigState
  <2>2. \A s \in {report, seen.guard} : s # None => s.nonce = rig.session
    BY <2>1 DEF Reported, Current, ThisSession
  <2> QED BY <2>1, <2>2 DEF HeldOn
<1>9. CASE HoldObserved
  BY <1>9 DEF HoldObserved, HoldFollowsFault, HeldOn, ArmType, RigState
<1>10. CASE Resume \/ Pass
  BY <1>10 DEF Resume, Pass, HeldOn, ArmType, RigState
<1>11. CASE UNCHANGED <<rig, controller, report, seen>>
  BY <1>11 DEF HeldOn
<1> QED
  BY <1>1, <1>2, <1>3, <1>4, <1>5, <1>6, <1>7, <1>8, <1>9, <1>10, <1>11
     DEF System, Rig, SourceParses, WriterMatches, GateDecides, GateTicks, GateRevokes, GateAborts

-----------------------------------------------------------------------------
(* The invariant and its theorems.                                          *)

LEMMA ArmInitHolds == ASSUME ArmInit PROVE ArmInv
<1> USE DEF ArmInit
<1>1. ArmType
  <2>1. rig \in RigState /\ counter \in Nat
    BY ArmFaultAssumption DEF RigState, Phases
  <2>2. armGate \in ArmGateState /\ controller \in ControllerState
    BY DEF ArmGateState, NoGate, ControllerState, Activated, Holds
  <2>3. pipe \in Seq(Proposal) /\ outcomes \in Seq(Outcome) /\ dds = <<>>
    OBVIOUS
  <2>4. seen \in Seen
    BY DEF Seen, Unseen
  <2>5. beat.kind # "goal"
    BY DEF None
  <2> QED BY <2>1, <2>2, <2>3, <2>4, <2>5 DEF ArmType
<1>2. Decisions = {None}
  BY SingleSet DEF Decisions, Unseen
<1>3. Piped /\ Numbered
  BY <1>2, SingleSet DEF Piped, Numbered
<1>4. Still /\ NoOffLeft /\ ResetBefore /\ HeldOn /\ IdNamesAttempt
  BY DEF Still, Unmoved, NoOffLeft, ResetBefore, HeldOn, IdNamesAttempt, Early, Late, After
<1>5. ThisSession /\ Reported
  BY DEF ThisSession, Reported, Current, NoGate, Activated, Early, Late
<1> QED BY <1>1, <1>3, <1>4, <1>5 DEF ArmInv, ArmParts

LEMMA ArmStepHolds == ASSUME ArmInv, [ArmNext]_armVars PROVE ArmInv'
<1>1. CASE UNCHANGED armVars
  BY <1>1 DEF armVars, ArmInv, ArmParts, ArmType, Piped, Numbered, Decisions, Still, Unmoved,
     NoOffLeft, ThisSession, Reported, Current, ResetBefore, HeldOn, IdNamesAttempt, Early, Late, After
<1>2. CASE ArmNext
  <2>1. rig.phase # "failed" /\ (System \/ Rig) /\ ArmType /\ ArmParts
    BY <1>2 DEF ArmNext, ArmInv
  <2>2. ArmType'
    BY <2>1, ArmTypeStep
  <2>3. ASSUME rig'.phase # "failed" PROVE ArmParts'
    BY <2>1, <2>3, PipedStep, NumberedStep, NamesStep, StillStep, NoOffStep, SessionStep,
       ReportedStep, ResetBeforeStep, HeldOnStep DEF ArmParts
  <2> QED BY <2>2, <2>3 DEF ArmInv
<1> QED BY <1>1, <1>2

\* The arm sessions of the Gazebo rig keep their invariant, whatever the
\* sequence of sessions (run_reference.py run).
THEOREM ArmInvariant == ArmSpec => []ArmInv
BY ArmInitHolds, ArmStepHolds, PTL DEF ArmSpec

\* Every OFF is settled before the arm moves, and settled as what it was: in no
\* session can a retried, late or lost OFF stop the arm after its goal, and no
\* decision is taken for another attempt's (prepare_arm_fault).
THEOREM RequestsAlwaysSettled == ArmSpec => []RequestsSettled
<1>1. ASSUME ArmInv PROVE RequestsSettled
  <2>1. Drained
    <3> SUFFICES ASSUME rig.phase \in {"dispatched", "moving"}, NEW p \in InFlight
                 PROVE  p.kind # "off"
      BY DEF Drained
    <3>1. Piped /\ NoOffLeft
      BY <1>1 DEF ArmInv, ArmParts
    <3>2. CASE p \in ToSet(dds)
      BY <3>1, <3>2 DEF NoOffLeft, Late
    <3>3. CASE p \in ToSet(pipe)
      <4>1. pipe = <<>> \/ pipe = <<[kind |-> "arm", attempt |-> 0]>>
        BY <3>1 DEF Piped
      <4> QED BY <3>3, <4>1, SingleSet
    <3> QED BY <3>2, <3>3 DEF InFlight
  <2>2. IdNamesAttempt
    BY <1>1 DEF ArmInv, ArmParts, IdNamesAttempt
  <2> QED BY <2>1, <2>2 DEF RequestsSettled
<1> QED BY <1>1, ArmInvariant, PTL

\* A session passes only on the controller's own hold after the fault, which it
\* still keeps (exercise_arm_fault).
THEOREM PassIsAlwaysHeld == ArmSpec => []PassIsHeld
<1>1. ASSUME ArmInv PROVE PassIsHeld
  BY <1>1 DEF ArmInv, ArmParts, HeldOn, PassIsHeld
<1> QED BY <1>1, ArmInvariant, PTL
=============================================================================
