-------------------------- MODULE PermitBenchProofs -------------------------
(***************************************************************************)
(* The LED of the H2 board, for every permit, lease and verification time    *)
(* that stays below the wrap of the clock, and any number of challenges: it   *)
(* is lit only by a decision that is younger than the lease.                  *)
(*                                                                         *)
(* The board knows no age of a decision, only how long ago it gave the        *)
(* challenge, and that modulo Wrap.  A decision is about one challenge and    *)
(* taken after it was given (Dated); a frame for the present challenge is      *)
(* therefore no older than it.  While the board is armed those differences     *)
(* have not wrapped: it is dark again before they do, by its tick or by the    *)
(* bound on a verification (Guarded).  An unarmed board may hold a frame for   *)
(* as long as it likes; that one does not light the LED.                      *)
(***************************************************************************)
EXTENDS PermitBench, TLAPS

Clock == 0 .. (Wrap - 1)
Op    == {"BIND", "ARM", "RUN"}

Challenges == [gen : Nat, seq : Nat, chal : Nat, issued : Clock]
Frames     == [op : Op, ctx : Challenges, sess : Nat, age : Nat]
Asked      == [op : Op, ctx : Challenges]

BoardState ==
  [gen : Nat, seq : Nat, chal : Nat, issued : Clock, sess : Nat,
   canBind : BOOLEAN, bound : BOOLEAN, canArm : BOOLEAN, armed : BOOLEAN,
   on : BOOLEAN, ok : BOOLEAN, leaseFrom : Clock,
   verifying : Frames \cup {Nothing}, spent : Nat, age : Nat]

AuthState ==
  [binding : Nat, seq : Nat, chal : Nat, armed : BOOLEAN, locked : BOOLEAN,
   deciding : Asked \cup {Nothing}, age : Nat,
   reply : Frames \cup {Nothing, [op |-> "terminal"]}]

RelayState ==
  [pc : {"hello", "ask", "wait", "ack", "status", "stop", "done"},
   op : Op, ctx : Challenges, age : Nat]

TypeOK ==
  /\ clk \in Clock
  /\ board \in BoardState
  /\ auth \in AuthState
  /\ frames \in SUBSET Frames
  /\ relay \in RelayState

\* How long ago, for the board, at the time t of its clock.
Ago(t, then) == (t - then) % Wrap

\* The board b by itself, at time t.  Only an armed board keeps its ages from
\* wrapping: it ticks while it listens, and verifies for a bounded time.
Guarded(b, t) ==
  /\ b.verifying = Nothing => b.spent = 0
  /\ b.spent <= MaxVerify
  /\ b.armed => ~b.canArm
  /\ b.armed /\ b.verifying = Nothing =>
       Ago(t, b.issued) <= Ago(t, b.leaseFrom) /\ Ago(t, b.leaseFrom) < Lease
  /\ b.on => b.armed /\ b.verifying = Nothing /\ b.age <= Ago(t, b.leaseFrom)
  /\ b.armed /\ b.verifying # Nothing =>
       /\ b.verifying.op = "RUN"
       /\ b.verifying.age <= Ago(t, b.issued)
       /\ Ago(t, b.issued) < Permit + b.spent

\* A challenge that the board has given: an earlier one, or its present one.
Given(c, b) ==
  \/ c.gen < b.gen
  \/ c.gen = b.gen /\ (c.chal < b.chal \/ c = Context(b))

\* A decision of that age about the challenge c was taken after c was given.
Dated(c, age, b, t) ==
  /\ Given(c, b)
  /\ c = Context(b) /\ b.armed => age <= Ago(t, b.issued)

Decided ==
  /\ \A f \in frames : Dated(f.ctx, f.age, board, clk)
  /\ auth.deciding # Nothing => Dated(auth.deciding.ctx, auth.age, board, clk)
  /\ IsFrame(auth.reply) => Dated(auth.reply.ctx, auth.reply.age, board, clk)
  /\ Given(relay.ctx, board)

IInv == TypeOK /\ Guarded(board, clk) /\ Decided

-----------------------------------------------------------------------------
(* The board's clock.                                                       *)

\* What remains modulo Wrap is a value of the clock.
LEMMA Remainder ==
  ASSUME Parameters, NEW a \in Int
  PROVE  /\ a % Wrap \in Clock
         /\ 0 <= a /\ a < Wrap => a % Wrap = a
         /\ -Wrap <= a /\ a < 0 => a % Wrap = a + Wrap
         /\ Wrap % Wrap = 0
<1>1. Wrap \in Nat \ {0}
  BY DEF Parameters
<1>2. QED
  BY <1>1 DEF Clock

\* An age that the board computes is a value of the clock (uint32_t differences).
LEMMA AgoType ==
  ASSUME Parameters, NEW t \in Clock, NEW s \in Clock
  PROVE  /\ Ago(t, s) \in Clock
         /\ Ago(t, t) = 0
         /\ Wrap \in Nat /\ Clock \subseteq Int
<1>1. Wrap \in Nat \ {0} /\ Clock \subseteq Int
  BY DEF Parameters, Clock
<1>2. QED
  BY <1>1, Remainder DEF Ago, Clock

\* The next tick of the clock, which may wrap, is one later for every age that
\* does not.
LEMMA AgoLater ==
  ASSUME Parameters, NEW t \in Clock, NEW s \in Clock, Ago(t, s) < Wrap - 1
  PROVE  /\ (t + 1) % Wrap \in Clock
         /\ Ago((t + 1) % Wrap, s) = Ago(t, s) + 1
<1>1. Wrap \in Nat \ {0} /\ t \in Int /\ s \in Int /\ 0 <= t /\ t < Wrap /\ 0 <= s /\ s < Wrap
  BY DEF Parameters, Clock
<1>2. (t + 1) % Wrap \in Clock /\ (t + 1) % Wrap = IF t + 1 = Wrap THEN 0 ELSE t + 1
  BY <1>1, Remainder
<1>3. Ago(t, s) = IF s <= t THEN t - s ELSE t - s + Wrap
  BY <1>1, Remainder DEF Ago
<1>4. CASE t + 1 = Wrap
  <2>1. Ago(0, s) = IF s = 0 THEN 0 ELSE Wrap - s
    BY <1>1, Remainder DEF Ago
  <2>2. QED
    BY <1>1, <1>2, <1>3, <1>4, <2>1
<1>5. CASE t + 1 # Wrap
  <2>1. Ago(t + 1, s) = IF s <= t + 1 THEN t + 1 - s ELSE t + 1 - s + Wrap
    BY <1>1, <1>5, Remainder DEF Ago
  <2>2. QED
    BY <1>1, <1>2, <1>3, <1>5, <2>1
<1>6. QED
  BY <1>4, <1>5

-----------------------------------------------------------------------------
(* The board's commands.                                                    *)

\* The board m comes after b: with a new challenge, or with the same one and
\* not armed since.
Succeeds(m, b) ==
  \/ m.gen > b.gen
  \/ m.gen = b.gen /\ m.chal > b.chal
  \/ Context(m) = Context(b) /\ (m.armed => b.armed)

\* What is dated for a board is dated for each that comes after it.
LEMMA DatedLater ==
  ASSUME NEW b \in BoardState, NEW m \in BoardState, Succeeds(m, b),
         NEW c \in Challenges, NEW age \in Nat, NEW t
  PROVE  /\ Given(c, b) => Given(c, m)
         /\ Dated(c, age, b, t) => Dated(c, age, m, t)
<1>1. /\ b.gen \in Nat /\ m.gen \in Nat /\ b.chal \in Nat /\ m.chal \in Nat
      /\ c.gen \in Nat /\ c.chal \in Nat
  BY DEF BoardState, Challenges
<1>2. \A x \in {b, m} : /\ Context(x).gen = x.gen /\ Context(x).chal = x.chal
                        /\ Context(x).issued = x.issued
  BY DEF Context
<1>3. Given(c, b) => Given(c, m)
  BY <1>1, <1>2 DEF Succeeds, Given
<1>4. ASSUME Dated(c, age, b, t), c = Context(m), m.armed PROVE age <= Ago(t, m.issued)
  <2>1. Context(m) = Context(b) /\ b.armed
    BY <1>1, <1>2, <1>4 DEF Succeeds, Given, Dated
  <2>2. m.issued = b.issued
    BY <1>2, <2>1
  <2>3. QED
    BY <1>4, <2>1, <2>2 DEF Dated
<1>5. QED
  BY <1>3, <1>4 DEF Dated

\* What every command leaves of the board b at time t.
Proper(m, b, t) == m \in BoardState /\ Guarded(m, t) /\ Succeeds(m, b)

\* fail() leaves a dark board with the challenge it had.
LEMMA FailFields ==
  ASSUME Parameters, NEW b \in BoardState
  PROVE  /\ Fail(b) \in BoardState
         /\ Context(Fail(b)) = Context(b)
         /\ Fail(b).gen = b.gen /\ Fail(b).chal = b.chal
         /\ ~Fail(b).armed /\ ~Fail(b).on /\ ~Fail(b).canArm
         /\ Fail(b).verifying = Nothing /\ Fail(b).spent = 0
  BY DEF Fail, BoardState, Context

\* A dark board has nothing to guard.
LEMMA DarkGuarded ==
  ASSUME Parameters, NEW m \in BoardState, NEW t,
         ~m.armed, ~m.on, m.verifying = Nothing, m.spent = 0
  PROVE  Guarded(m, t)
  BY DEF Guarded, Parameters

\* Refusing a command or garbage is proper (permit_guard.h fail).
LEMMA FailProper ==
  ASSUME Parameters, NEW b \in BoardState, NEW t
  PROVE  Proper(Fail(b), b, t)
<1>1. Guarded(Fail(b), t)
  BY FailFields, DarkGuarded
<1>2. QED
  BY <1>1, FailFields DEF Proper, Succeeds

\* So is a STOP.
LEMMA StopProper ==
  ASSUME Parameters, NEW b \in BoardState, NEW t
  PROVE  Proper(Stop(b), b, t)
<1> DEFINE m == Stop(b)
<1>1. /\ m \in BoardState /\ m.gen = b.gen /\ m.chal = b.chal /\ Context(m) = Context(b)
      /\ ~m.armed /\ ~m.on /\ m.verifying = Nothing /\ m.spent = 0
  BY FailFields DEF Stop, BoardState, Context
<1> HIDE DEF m
<1>2. QED
  BY <1>1, DarkGuarded DEF Proper, Succeeds, m

\* So is a HELLO, which begins a generation.
LEMMA HelloProper ==
  ASSUME Parameters, NEW b \in BoardState, clk \in Clock
  PROVE  Proper(Hello(b), b, clk)
<1> DEFINE m == Hello(b)
<1>1. /\ m \in BoardState /\ m.gen = b.gen + 1
      /\ ~m.armed /\ ~m.on /\ m.verifying = Nothing /\ m.spent = 0
  <2>1. b.gen + 1 \in Nat
    BY DEF BoardState
  <2>2. QED
    BY <2>1, FailFields DEF Hello, BoardState
<1>2. b.gen \in Nat
  BY DEF BoardState
<1> HIDE DEF m
<1>3. QED
  BY <1>1, <1>2, DarkGuarded DEF Proper, Succeeds, m

\* So is a STATUS, which gives a new challenge and leaves the LED alone.
LEMMA StatusProper ==
  ASSUME Parameters, NEW b \in BoardState, clk \in Clock, Guarded(b, clk), b.verifying = Nothing
  PROVE  Proper(Status(b), b, clk)
<1> DEFINE m == Status(b)
<1>1. b.chal \in Nat /\ b.chal + 1 \in Nat
  BY DEF BoardState
<1>2. /\ m \in BoardState /\ m.gen = b.gen /\ m.chal = b.chal + 1 /\ m.issued = clk
      /\ m.armed = b.armed /\ m.on = b.on /\ m.canArm = b.canArm /\ m.leaseFrom = b.leaseFrom
      /\ m.verifying = b.verifying /\ m.spent = b.spent /\ m.age = b.age
  BY <1>1 DEF Status, BoardState
<1> HIDE DEF m
<1>3. Ago(clk, m.issued) = 0 /\ (m.armed => 0 <= Ago(clk, m.leaseFrom))
  <2>1. b.leaseFrom \in Clock
    BY DEF BoardState
  <2>2. Ago(clk, b.leaseFrom) \in Clock /\ Wrap \in Nat
    BY <2>1, AgoType
  <2>3. QED
    BY <1>2, <2>2, AgoType DEF Clock
<1>4. Guarded(m, clk)
  BY <1>2, <1>3 DEF Guarded
<1>5. QED
  BY <1>1, <1>2, <1>4 DEF Proper, Succeeds, m

\* A frame that begins is dated.
LEMMA BeginProper ==
  ASSUME Parameters, NEW b \in BoardState, clk \in Clock, Guarded(b, clk), b.verifying = Nothing,
         NEW f \in Frames, Dated(f.ctx, f.age, b, clk)
  PROVE  Proper(Begin(b, f), b, clk)
<1> DEFINE m == [b EXCEPT !.on = FALSE, !.verifying = f]
<1>1. CASE Begin(b, f) = Fail(b)
  BY <1>1, FailProper
<1>2. CASE f.ctx = Context(b) /\ Timely(b, f) /\ Phase(b, f) /\ Begin(b, f) = m
  <2>1. /\ m \in BoardState /\ m.gen = b.gen /\ m.chal = b.chal /\ m.issued = b.issued
        /\ m.armed = b.armed /\ ~m.on /\ m.canArm = b.canArm /\ m.leaseFrom = b.leaseFrom
        /\ m.verifying = f /\ m.spent = b.spent /\ Context(m) = Context(b)
    BY DEF BoardState, Context
  <2> HIDE DEF m
  <2>2. f # Nothing /\ f.op \in Op
    BY DEF Frames, Op, Nothing
  <2>3. b.armed => f.op = "RUN"
    BY <1>2, <2>2 DEF Phase, Guarded, Op
  <2>4. b.armed => f.age <= Ago(clk, b.issued) /\ Ago(clk, b.issued) < Permit
    <3>1. f.op = "RUN" => Since(b.issued) < Permit
      BY <1>2 DEF Timely
    <3>2. QED
      BY <1>2, <2>3, <3>1 DEF Dated, Since, Ago
  <2>5. b.spent = 0
    BY DEF Guarded
  <2>6. Guarded(m, clk)
    BY <2>1, <2>2, <2>3, <2>4, <2>5 DEF Guarded, Parameters
  <2>7. QED
    BY <1>2, <2>1, <2>6 DEF Proper, Succeeds
<1>3. QED
  BY <1>1, <1>2 DEF Begin

\* A command that the board refuses after all leaves it dark.
LEMMA FailsAfter ==
  ASSUME Parameters, NEW b \in BoardState, NEW m \in BoardState, NEW t, Context(m) = Context(b),
         m.gen = b.gen, m.chal = b.chal
  PROVE  Proper(Fail(m), b, t)
<1>1. Guarded(Fail(m), t)
  BY FailFields, DarkGuarded
<1>2. QED
  BY <1>1, FailFields DEF Proper, Succeeds

\* A verified frame arms the board from the time of its challenge, and lights
\* the LED only when the board was armed and the lease is still good.
LEMMA VerifiedProper ==
  ASSUME Parameters, NEW b0 \in BoardState, clk \in Clock, Guarded(b0, clk),
         b0.verifying # Nothing
  PROVE  Proper(Verified(b0), b0, clk)
<1> DEFINE f == b0.verifying
           l == [b0 EXCEPT !.verifying = Nothing, !.spent = 0]
           b == Ticked(l, clk)
           next == [b EXCEPT !.seq = @ + 1, !.chal = @ + 1, !.issued = clk, !.ok = TRUE]
           bind == [next EXCEPT !.canBind = FALSE, !.bound = TRUE, !.canArm = TRUE, !.sess = f.sess]
           run  == [next EXCEPT !.canArm = FALSE, !.armed = TRUE, !.on = (f.op = "RUN"),
                                !.leaseFrom = b.issued, !.age = f.age]
<1>1. f \in Frames /\ f.op \in Op /\ f.age \in Nat /\ f.sess \in Nat
  BY DEF BoardState, Frames, Nothing
<1>2. ~b0.on /\ (b0.armed => f.op = "RUN" /\ f.age <= Ago(clk, b0.issued))
  BY DEF Guarded
<1>3. /\ l \in BoardState /\ l.gen = b0.gen /\ l.chal = b0.chal /\ Context(l) = Context(b0)
      /\ l.issued = b0.issued /\ l.armed = b0.armed /\ ~l.on
      /\ l.verifying = Nothing /\ l.spent = 0
  BY <1>2 DEF BoardState, Context
<1>4. /\ b \in BoardState /\ b.gen = b0.gen /\ b.chal = b0.chal /\ Context(b) = Context(b0)
      /\ (b.armed => b0.armed) /\ ~b.on /\ b.verifying = Nothing /\ b.spent = 0
      /\ b.issued = b0.issued
  <2> HIDE DEF l
  <2>1. CASE b = Fail(l)
    <3> HIDE DEF b
    <3>1. Fail(l).issued = l.issued
      BY <1>3 DEF Fail, BoardState
    <3>2. QED
      BY <1>3, <2>1, <3>1, FailFields
  <2>2. CASE b = l
    <3> HIDE DEF b
    <3>1. QED
      BY <1>3, <2>2
  <2>3. QED
    BY <2>1, <2>2 DEF Ticked
<1> HIDE DEF b, f, l
<1>5. CASE Verified(b0) = Fail(b)
  BY <1>4, <1>5, FailsAfter
<1>6. b.seq \in Nat /\ b.seq + 1 \in Nat /\ b.chal \in Nat /\ b.chal + 1 \in Nat /\ b.issued \in Clock
  BY <1>4 DEF BoardState
<1>7. next \in BoardState /\ next.gen = b.gen /\ next.chal = b.chal + 1 /\ next.issued = clk
      /\ next.armed = b.armed /\ next.on = b.on /\ next.verifying = b.verifying
      /\ next.spent = b.spent
  BY <1>6, <1>4 DEF BoardState
<1> HIDE DEF next
<1>8. Ago(clk, clk) = 0
  BY AgoType
<1>9. CASE f.op = "BIND" /\ Verified(b0) = bind
  <2>1. bind \in BoardState /\ bind.gen = b.gen /\ bind.chal = b.chal + 1
        /\ bind.armed = b.armed /\ bind.on = b.on /\ bind.verifying = b.verifying
        /\ bind.spent = b.spent
    BY <1>1, <1>7 DEF BoardState
  <2>2. ~b.armed
    BY <1>2, <1>4, <1>9
  <2> HIDE DEF bind
  <2>3. Guarded(bind, clk)
    BY <2>1, <2>2, <1>4, DarkGuarded
  <2>4. QED
    BY <1>4, <1>6, <1>9, <2>1, <2>3 DEF Proper, Succeeds
<1>10. CASE f.op # "BIND" /\ Timely(b, f) /\ Phase(b, f) /\ Verified(b0) = run
  <2>1. run \in BoardState /\ run.gen = b.gen /\ run.chal = b.chal + 1
        /\ run.armed /\ run.on = (f.op = "RUN") /\ run.verifying = b.verifying
        /\ run.spent = b.spent /\ ~run.canArm /\ run.leaseFrom = b.issued
        /\ run.age = f.age /\ run.issued = clk
    BY <1>1, <1>6, <1>7 DEF BoardState
  <2> HIDE DEF run
  <2>2. Ago(clk, b.issued) < Lease /\ 0 <= Ago(clk, b.issued)
    <3>1. Ago(clk, b.issued) < Permit
      BY <1>10 DEF Timely, Since, Ago
    <3>2. Ago(clk, b.issued) \in Clock /\ Permit \in Nat /\ Lease \in Nat /\ Permit < Lease
      BY <1>6, AgoType DEF Parameters
    <3>3. QED
      BY <3>1, <3>2 DEF Clock, Parameters
  <2>3. run.on => f.age <= Ago(clk, b.issued)
    BY <1>2, <1>4, <1>10, <2>1 DEF Phase
  <2>4. Guarded(run, clk)
    <3>1. run.spent <= MaxVerify
      BY <2>1, <1>4 DEF Parameters
    <3>2. QED
      BY <1>4, <1>8, <2>1, <2>2, <2>3, <3>1 DEF Guarded
  <2>5. QED
    BY <1>4, <1>6, <1>10, <2>1, <2>4 DEF Proper, Succeeds
<1>11. QED
  BY <1>5, <1>9, <1>10 DEF Verified, b, f, l, next, bind, run

-----------------------------------------------------------------------------
(* Time.                                                                    *)

\* An age on the host grows by at most one.
LEMMA OlderType ==
  ASSUME Parameters, NEW age \in Nat
  PROVE  Older(age) \in Nat /\ Older(age) <= age + 1
  BY DEF Older, Old, Parameters

\* Time changes the ages of the board alone.
LEMMA AgedFields ==
  ASSUME Parameters, NEW b \in BoardState
  PROVE  LET m == Aged(b)
         IN  /\ m \in BoardState /\ Context(m) = Context(b)
             /\ m.gen = b.gen /\ m.chal = b.chal /\ m.issued = b.issued
             /\ m.armed = b.armed /\ m.on = b.on /\ m.canArm = b.canArm
             /\ m.leaseFrom = b.leaseFrom /\ m.age <= b.age + 1
             /\ b.verifying = Nothing => m.verifying = Nothing /\ m.spent = b.spent
             /\ b.verifying # Nothing =>
                  /\ m.verifying # Nothing /\ m.spent = b.spent + 1
                  /\ m.verifying.op = b.verifying.op
                  /\ m.verifying.age <= b.verifying.age + 1
<1>1. b.age \in Nat /\ Older(b.age) \in Nat /\ Older(b.age) <= b.age + 1
      /\ b.spent \in Nat /\ b.spent + 1 \in Nat
  BY OlderType DEF BoardState
<1>2. CASE b.verifying = Nothing
  BY <1>1, <1>2 DEF Aged, BoardState, Context
<1>3. CASE b.verifying # Nothing
  <2> DEFINE f == b.verifying
             g == [f EXCEPT !.age = Older(@)]
             m == [b EXCEPT !.age = Older(@), !.spent = @ + 1, !.verifying = g]
  <2>1. f \in Frames /\ f.age \in Nat
    BY <1>3 DEF BoardState, Frames
  <2>2. g \in Frames /\ g.op = f.op /\ g.age <= f.age + 1 /\ g # Nothing
    <3>1. Older(f.age) \in Nat /\ Older(f.age) <= f.age + 1
      BY <2>1, OlderType
    <3>2. g \in Frames /\ g.op = f.op /\ g.age <= f.age + 1
      BY <2>1, <3>1 DEF Frames
    <3>3. g # Nothing
      BY <3>2 DEF Frames, Op, Nothing
    <3>4. QED
      BY <3>2, <3>3
  <2>3. Aged(b) = m
    BY <1>3 DEF Aged, BoardState
  <2> HIDE DEF g
  <2>4. QED
    BY <1>1, <1>3, <2>2, <2>3 DEF BoardState, Context
<1>4. QED
  BY <1>2, <1>3

\* A millisecond more: the ages of an armed board grow by one and do not wrap,
\* because the lease ends first, or the verification does.
LEMMA TimeProper ==
  ASSUME Parameters, NEW b \in BoardState, clk \in Clock, Guarded(b, clk), b.spent < MaxVerify,
         NEW at, at = (clk + 1) % Wrap
  PROVE  LET m == IF b.verifying = Nothing THEN Ticked(Aged(b), at) ELSE Aged(b)
         IN  /\ m \in BoardState /\ Guarded(m, at) /\ Context(m) = Context(b)
             /\ m.gen = b.gen /\ m.chal = b.chal /\ m.issued = b.issued
             /\ m.armed => b.armed /\ Ago(at, b.issued) = Ago(clk, b.issued) + 1
<1> DEFINE a == Aged(b)
<1>1. /\ a \in BoardState /\ Context(a) = Context(b)
      /\ a.gen = b.gen /\ a.chal = b.chal /\ a.issued = b.issued
      /\ a.armed = b.armed /\ a.on = b.on /\ a.canArm = b.canArm
      /\ a.leaseFrom = b.leaseFrom /\ a.age <= b.age + 1
      /\ b.verifying = Nothing => a.verifying = Nothing /\ a.spent = b.spent
      /\ b.verifying # Nothing =>
           /\ a.verifying # Nothing /\ a.spent = b.spent + 1
           /\ a.verifying.op = b.verifying.op
           /\ a.verifying.age <= b.verifying.age + 1
  BY AgedFields
<1> HIDE DEF a
<1>2. /\ b.issued \in Clock /\ b.leaseFrom \in Clock /\ b.age \in Nat /\ b.spent \in Nat
      /\ Ago(clk, b.issued) \in Clock /\ Ago(clk, b.leaseFrom) \in Clock
      /\ a.age \in Nat
  BY <1>1, AgoType DEF BoardState
<1>3. /\ {Permit, Lease, Wrap, MaxVerify} \subseteq Nat
      /\ Lease < Wrap /\ Permit + MaxVerify < Wrap
  BY DEF Parameters
<1>4. CASE b.verifying = Nothing
  <2>1. b.spent = 0
    BY <1>4 DEF Guarded
  <2>2. b.armed => /\ Ago(clk, b.issued) <= Ago(clk, b.leaseFrom) /\ Ago(clk, b.leaseFrom) < Lease
                   /\ Ago(at, b.leaseFrom) = Ago(clk, b.leaseFrom) + 1
                   /\ Ago(at, b.issued) = Ago(clk, b.issued) + 1
    <3> SUFFICES ASSUME b.armed PROVE /\ Ago(clk, b.issued) <= Ago(clk, b.leaseFrom) /\ Ago(clk, b.leaseFrom) < Lease
                   /\ Ago(at, b.leaseFrom) = Ago(clk, b.leaseFrom) + 1
                   /\ Ago(at, b.issued) = Ago(clk, b.issued) + 1
      OBVIOUS
    <3>1. Ago(clk, b.issued) <= Ago(clk, b.leaseFrom) /\ Ago(clk, b.leaseFrom) < Lease
      BY <1>4 DEF Guarded
    <3>2. Ago(clk, b.leaseFrom) < Wrap - 1 /\ Ago(clk, b.issued) < Wrap - 1
      BY <1>2, <1>3, <3>1 DEF Clock
    <3>3. QED
      BY <1>2, <3>1, <3>2, AgoLater
  <2>3. CASE a.armed /\ (at - a.leaseFrom) % Wrap >= Lease
    <3>1. Fail(a).issued = a.issued
      BY <1>1 DEF Fail, BoardState
    <3>2. Guarded(Fail(a), at)
      BY <1>1, FailFields, DarkGuarded
    <3>3. QED
      BY <1>1, <1>4, <2>3, <3>1, <3>2, FailFields DEF Ticked, a
  <2>4. CASE ~(a.armed /\ (at - a.leaseFrom) % Wrap >= Lease)
    <3>1. a.armed => Ago(at, a.leaseFrom) < Lease
      <4>1. SUFFICES ASSUME a.armed PROVE Ago(at, a.leaseFrom) < Lease
        OBVIOUS
      <4>2. Ago(at, a.leaseFrom) = Ago(clk, b.leaseFrom) + 1 /\ Ago(at, a.leaseFrom) \in Nat
        BY <1>1, <1>2, <2>2, <4>1 DEF Clock
      <4>3. ~(Ago(at, a.leaseFrom) >= Lease)
        BY <2>4, <4>1 DEF Ago
      <4>4. QED
        BY <1>3, <4>2, <4>3
    <3>2. a.on => a.armed /\ a.age <= Ago(at, a.leaseFrom)
      BY <1>1, <1>2, <2>2 DEF Guarded, Clock
    <3>3. a.armed => Ago(at, a.issued) <= Ago(at, a.leaseFrom)
      BY <1>1, <1>2, <2>2 DEF Clock
    <3>4. Guarded(a, at)
      BY <1>1, <1>3, <1>4, <2>1, <3>1, <3>2, <3>3 DEF Guarded
    <3>5. QED
      BY <1>1, <1>4, <2>2, <2>4, <3>4 DEF Ticked, a
  <2>5. QED
    BY <2>3, <2>4
<1>5. CASE b.verifying # Nothing
  <2>1. b.armed => /\ b.verifying.op = "RUN" /\ b.verifying.age <= Ago(clk, b.issued)
                   /\ Ago(clk, b.issued) < Permit + b.spent
                   /\ Ago(at, b.issued) = Ago(clk, b.issued) + 1
    <3> SUFFICES ASSUME b.armed
                 PROVE  /\ b.verifying.op = "RUN" /\ b.verifying.age <= Ago(clk, b.issued)
                        /\ Ago(clk, b.issued) < Permit + b.spent
                        /\ Ago(at, b.issued) = Ago(clk, b.issued) + 1
      OBVIOUS
    <3>1. /\ b.verifying.op = "RUN" /\ b.verifying.age <= Ago(clk, b.issued)
          /\ Ago(clk, b.issued) < Permit + b.spent
      BY <1>5 DEF Guarded
    <3>2. Ago(clk, b.issued) < Wrap - 1
      BY <1>2, <1>3, <3>1 DEF Clock
    <3>3. QED
      BY <1>2, <3>1, <3>2, AgoLater
  <2>2. ~b.on
    BY <1>5 DEF Guarded
  <2>3. a.verifying.age \in Nat /\ b.verifying.age \in Nat
    BY <1>1, <1>5 DEF BoardState, Frames
  <2>4. a.armed => /\ a.verifying.age <= Ago(at, a.issued)
                   /\ Ago(at, a.issued) < Permit + a.spent
    BY <1>1, <1>2, <1>3, <1>5, <2>1, <2>3 DEF Clock
  <2>5. b.armed => ~b.canArm
    BY DEF Guarded
  <2>6. a.spent <= MaxVerify
    BY <1>1, <1>2, <1>3, <1>5
  <2>7. Guarded(a, at)
    BY <1>1, <1>5, <2>1, <2>2, <2>4, <2>5, <2>6 DEF Guarded
  <2>8. QED
    BY <1>1, <1>5, <2>1, <2>7 DEF a
<1>6. QED
  BY <1>4, <1>5

\* A decision and its challenge grow old together.
LEMMA DatedAged ==
  ASSUME Parameters, NEW b \in BoardState, NEW m \in BoardState, NEW at, clk \in Clock,
         Context(m) = Context(b), m.gen = b.gen, m.chal = b.chal, m.issued = b.issued,
         m.armed => b.armed /\ Ago(at, b.issued) = Ago(clk, b.issued) + 1,
         NEW c, NEW age \in Nat, NEW older \in Nat, older <= age + 1,
         Dated(c, age, b, clk)
  PROVE  Dated(c, older, m, at)
<1>1. Given(c, m)
  BY DEF Dated, Given
<1>2. Ago(clk, b.issued) \in Nat
  <2>1. b.issued \in Clock
    BY DEF BoardState
  <2>2. QED
    BY <2>1, AgoType DEF Clock
<1>3. QED
  BY <1>1, <1>2 DEF Dated

-----------------------------------------------------------------------------
(* The steps.                                                               *)

\* What the board tells is its present challenge.
LEMMA ContextType ==
  ASSUME NEW b \in BoardState
  PROVE  Context(b) \in Challenges /\ Given(Context(b), b)
  BY DEF Context, Challenges, BoardState, Given

\* What the authorizer answers is a frame, nothing, or terminal.
LEMMA ReplyIsFrame ==
  ASSUME NEW r \in Frames \cup {Nothing, [op |-> "terminal"]}
  PROVE  /\ IsFrame(r) => r \in Frames
         /\ ~IsFrame(Nothing) /\ ~IsFrame([op |-> "terminal"])
         /\ r \in Frames => IsFrame(r)
  BY DEF IsFrame, Frames, Op, Nothing

\* A step of the board, on which the authorizer decides nothing.
LEMMA BoardHolds ==
  ASSUME Parameters, IInv, NEW m, Proper(m, board, clk), board' = m, clk' = clk,
         frames' \subseteq frames,
         auth' = auth \/ auth' = [auth EXCEPT !.reply = Nothing],
         relay' \in RelayState, Given(relay'.ctx, board) \/ relay'.ctx = Context(m)
  PROVE  IInv'
<1>1. /\ clk \in Clock /\ board \in BoardState /\ auth \in AuthState
      /\ frames \in SUBSET Frames /\ relay \in RelayState
  BY DEF IInv, TypeOK
<1>2. m \in BoardState /\ Guarded(m, clk) /\ Succeeds(m, board)
  BY DEF Proper
<1>3. /\ auth' \in AuthState /\ auth'.deciding = auth.deciding /\ auth'.age = auth.age
      /\ IsFrame(auth'.reply) => auth'.reply = auth.reply
  BY <1>1 DEF AuthState, IsFrame, Nothing
<1>4. \A f \in frames' : Dated(f.ctx, f.age, m, clk)
  <2>1. ASSUME NEW f \in frames PROVE Dated(f.ctx, f.age, m, clk)
    <3>1. f.ctx \in Challenges /\ f.age \in Nat /\ Dated(f.ctx, f.age, board, clk)
      BY <1>1 DEF Frames, IInv, Decided
    <3>2. QED
      BY <1>1, <1>2, <3>1, DatedLater
  <2>2. QED
    BY <2>1
<1>5. auth.deciding # Nothing => Dated(auth.deciding.ctx, auth.age, m, clk)
  <2> SUFFICES ASSUME auth.deciding # Nothing PROVE Dated(auth.deciding.ctx, auth.age, m, clk)
    OBVIOUS
  <2>1. auth.deciding.ctx \in Challenges /\ auth.age \in Nat
    BY <1>1 DEF AuthState, Asked
  <2>2. Dated(auth.deciding.ctx, auth.age, board, clk)
    BY DEF IInv, Decided
  <2>3. QED
    BY <1>1, <1>2, <2>1, <2>2, DatedLater
<1>6. IsFrame(auth.reply) => Dated(auth.reply.ctx, auth.reply.age, m, clk)
  <2> SUFFICES ASSUME IsFrame(auth.reply) PROVE Dated(auth.reply.ctx, auth.reply.age, m, clk)
    OBVIOUS
  <2>1. auth.reply \in Frames
    BY <1>1, ReplyIsFrame DEF AuthState
  <2>2. auth.reply.ctx \in Challenges /\ auth.reply.age \in Nat
    BY <2>1 DEF Frames
  <2>3. Dated(auth.reply.ctx, auth.reply.age, board, clk)
    BY DEF IInv, Decided
  <2>4. QED
    BY <1>1, <1>2, <2>2, <2>3, DatedLater
<1>7. Given(relay'.ctx, m)
  <2>1. relay'.ctx \in Challenges
    BY DEF RelayState
  <2>2. QED
    BY <1>1, <1>2, <2>1, DatedLater, ContextType
<1>8. TypeOK'
  BY <1>1, <1>2, <1>3 DEF TypeOK
<1>9. Decided'
  BY <1>3, <1>4, <1>5, <1>6, <1>7 DEF Decided
<1>10. QED
  BY <1>2, <1>8, <1>9 DEF IInv

\* A request: what is decided about a challenge is decided after it was given.
LEMMA ApproveHolds ==
  ASSUME Parameters, IInv, NEW ctx \in Challenges, NEW op \in Op, Given(ctx, board),
         Approve(ctx, op), board' = board, clk' = clk,
         relay' \in RelayState, relay'.ctx = relay.ctx
  PROVE  IInv'
<1>1. /\ clk \in Clock /\ board \in BoardState /\ auth \in AuthState
      /\ frames \in SUBSET Frames /\ relay \in RelayState
  BY DEF IInv, TypeOK
<1>2. Dated(ctx, 0, board, clk)
  <2>1. board.issued \in Clock
    BY <1>1 DEF BoardState
  <2>2. Ago(clk, board.issued) \in Clock
    BY <1>1, <2>1, AgoType
  <2>3. QED
    BY <2>2 DEF Dated, Clock
<1>3. auth.reply = Nothing /\ auth.deciding = Nothing
  BY DEF Approve
<1>4. CASE auth' = Terminal(auth) /\ frames' = frames
  <2>1. auth' \in AuthState /\ auth'.deciding = Nothing /\ auth'.reply = [op |-> "terminal"]
    BY <1>1, <1>4 DEF Terminal, AuthState
  <2>2. ~IsFrame(auth'.reply)
    BY <2>1 DEF IsFrame
  <2>3. QED
    BY <1>1, <1>4, <2>1, <2>2 DEF IInv, TypeOK, Decided
<1>5. ASSUME NEW f, f = [op |-> "BIND", ctx |-> ctx, sess |-> ctx.gen, age |-> 0],
             auth' = [auth EXCEPT !.binding = ctx.gen, !.seq = 1, !.chal = ctx.chal, !.reply = f],
             frames' \subseteq frames \cup {f}
      PROVE  IInv'
  <2>1. f \in Frames /\ f.ctx = ctx /\ f.age = 0 /\ ctx.gen \in Nat /\ ctx.chal \in Nat
    BY <1>5 DEF Frames, Challenges, Op
  <2>2. auth' \in AuthState /\ auth'.deciding = Nothing /\ auth'.reply = f
    BY <1>1, <1>3, <1>5, <2>1 DEF AuthState
  <2>3. TypeOK'
    BY <1>1, <1>5, <2>1, <2>2 DEF TypeOK
  <2>4. Decided'
    BY <1>2, <1>5, <2>1, <2>2 DEF IInv, Decided
  <2>5. QED
    BY <2>3, <2>4 DEF IInv
<1>6. CASE auth' = [auth EXCEPT !.deciding = [op |-> op, ctx |-> ctx], !.age = 0] /\ frames' = frames
  <2>1. /\ auth' \in AuthState /\ auth'.deciding.ctx = ctx /\ auth'.age = 0 /\ auth'.reply = Nothing
    BY <1>1, <1>3, <1>6 DEF AuthState, Asked
  <2>2. TypeOK'
    BY <1>1, <1>6, <2>1 DEF TypeOK
  <2>3. Decided'
    BY <1>2, <1>6, <2>1 DEF IInv, Decided, IsFrame, Nothing
  <2>4. QED
    BY <2>2, <2>3 DEF IInv
<1>7. CASE ApproveBind(ctx, op)
  BY <1>4, <1>5, <1>7 DEF ApproveBind
<1>8. CASE ApproveAsk(ctx, op)
  BY <1>4, <1>6, <1>8 DEF ApproveAsk
<1>9. QED
  BY <1>7, <1>8 DEF Approve

\* A signature keeps the age of the decision.
LEMMA SignHolds == ASSUME Parameters, IInv, Sign PROVE IInv'
<1> DEFINE d == auth.deciding
           f == Frame(d.op, d.ctx, auth.age)
<1>1. /\ clk \in Clock /\ board \in BoardState /\ auth \in AuthState
      /\ frames \in SUBSET Frames /\ relay \in RelayState
  BY DEF IInv, TypeOK
<1>2. d \in Asked /\ Dated(d.ctx, auth.age, board, clk)
      /\ clk' = clk /\ board' = board /\ relay' = relay
  BY <1>1 DEF Sign, AuthState, IInv, Decided
<1>3. /\ f \in Frames /\ f.ctx = d.ctx /\ f.age = auth.age
      /\ d.ctx.seq + 1 \in Nat /\ d.ctx.chal \in Nat
  BY <1>1, <1>2 DEF Frame, Frames, Asked, AuthState, Challenges
<1>4. CASE auth' = Terminal(auth) /\ frames' = frames
  <2>1. auth' \in AuthState /\ auth'.deciding = Nothing /\ auth'.reply = [op |-> "terminal"]
    BY <1>1, <1>4 DEF Terminal, AuthState
  <2>2. ~IsFrame(auth'.reply)
    BY <2>1 DEF IsFrame
  <2>3. QED
    BY <1>1, <1>2, <1>4, <2>1, <2>2 DEF IInv, TypeOK, Decided
<1>5. CASE /\ auth' = [auth EXCEPT !.seq = d.ctx.seq + 1, !.chal = d.ctx.chal, !.armed = TRUE,
                                   !.deciding = Nothing, !.reply = f]
           /\ frames' = frames \cup {g \in {f} : Hostile}
  <2> HIDE DEF f
  <2>1. auth' \in AuthState /\ auth'.deciding = Nothing /\ auth'.reply = f
    BY <1>1, <1>3, <1>5 DEF AuthState
  <2>2. frames' \subseteq frames \cup {f}
    BY <1>5
  <2>3. TypeOK'
    BY <1>1, <1>2, <1>3, <2>1, <2>2 DEF TypeOK
  <2>4. Decided'
    BY <1>2, <1>3, <2>1, <2>2 DEF IInv, Decided
  <2>5. QED
    BY <1>2, <2>3, <2>4 DEF IInv
<1>6. QED
  BY <1>4, <1>5 DEF Sign

\* Time makes everything older alike.
LEMMA TimeHolds == ASSUME Parameters, IInv, Time PROVE IInv'
<1>1. /\ clk \in Clock /\ board \in BoardState /\ auth \in AuthState
      /\ frames \in SUBSET Frames /\ relay \in RelayState /\ Guarded(board, clk)
  BY DEF IInv, TypeOK
<1>2. clk' = (clk + 1) % Wrap /\ board.spent < MaxVerify /\ clk' \in Clock
  <2>1. clk + 1 \in Int
    BY <1>1 DEF Clock, Parameters
  <2>2. QED
    BY <2>1, Remainder DEF Time
<1>3. /\ board' \in BoardState /\ Guarded(board', clk') /\ Context(board') = Context(board)
      /\ board'.gen = board.gen /\ board'.chal = board.chal /\ board'.issued = board.issued
      /\ board'.armed => board.armed /\ Ago(clk', board.issued) = Ago(clk, board.issued) + 1
  BY <1>1, <1>2, TimeProper DEF Time, Listening
<1>4. ASSUME NEW c, NEW age \in Nat, NEW older \in Nat, older <= age + 1, Dated(c, age, board, clk)
      PROVE  Dated(c, older, board', clk')
  BY <1>1, <1>3, <1>4, DatedAged
<1>5. ASSUME NEW f \in Frames
      PROVE  /\ OlderFrame(f) \in Frames
             /\ Dated(f.ctx, f.age, board, clk) =>
                  LET g == OlderFrame(f) IN Dated(g.ctx, g.age, board', clk')
  <2> DEFINE g == OlderFrame(f)
  <2>1. f.age \in Nat /\ Older(f.age) \in Nat /\ Older(f.age) <= f.age + 1
    BY OlderType DEF Frames
  <2>2. g \in Frames /\ g.ctx = f.ctx /\ g.age = Older(f.age)
    BY <2>1 DEF Frames, OlderFrame
  <2>3. QED
    BY <1>4, <2>1, <2>2
<1>6. frames' \in SUBSET Frames /\ \A f \in frames' : Dated(f.ctx, f.age, board', clk')
  <2>1. frames' = {OlderFrame(f) : f \in frames}
    BY DEF Time
  <2>2. \A f \in frames : f \in Frames /\ Dated(f.ctx, f.age, board, clk)
    BY <1>1 DEF IInv, Decided
  <2>3. QED
    BY <1>5, <2>1, <2>2
<1>7. /\ auth' \in AuthState
      /\ auth'.deciding # Nothing => Dated(auth'.deciding.ctx, auth'.age, board', clk')
      /\ IsFrame(auth'.reply) => Dated(auth'.reply.ctx, auth'.reply.age, board', clk')
  <2> DEFINE age == IF auth.age < Permit THEN auth.age + 1 ELSE auth.age
             r == auth.reply
             reply == IF IsFrame(r) THEN OlderFrame(r) ELSE r
  <2>1. age \in Nat /\ age <= auth.age + 1 /\ auth.age \in Nat /\ Permit \in Nat
    BY <1>1 DEF AuthState, Parameters
  <2>2. auth' = [auth EXCEPT !.age = age, !.reply = reply]
    BY <1>1 DEF Time, AuthState
  <2>3. r \in Frames \cup {Nothing, [op |-> "terminal"]}
    BY <1>1 DEF AuthState
  <2>4. IsFrame(r) => r \in Frames /\ Dated(r.ctx, r.age, board, clk)
    BY <2>3, ReplyIsFrame DEF IInv, Decided
  <2>5. /\ reply \in Frames \cup {Nothing, [op |-> "terminal"]}
        /\ IsFrame(reply) => Dated(reply.ctx, reply.age, board', clk')
    <3>1. CASE IsFrame(r)
      BY <1>5, <2>4, <3>1
    <3>2. CASE ~IsFrame(r)
      BY <2>3, <3>2
    <3>3. QED
      BY <3>1, <3>2
  <2> HIDE DEF age, reply
  <2>6. auth' \in AuthState /\ auth'.age = age /\ auth'.reply = reply /\ auth'.deciding = auth.deciding
    BY <1>1, <2>1, <2>2, <2>5 DEF AuthState
  <2>7. auth.deciding # Nothing => Dated(auth.deciding.ctx, auth.age, board, clk)
    BY DEF IInv, Decided
  <2>8. QED
    BY <1>4, <2>1, <2>5, <2>6, <2>7
<1>8. relay' \in RelayState /\ relay'.ctx = relay.ctx
  BY <1>1 DEF Time, RelayState, Parameters
<1>9. Given(relay'.ctx, board')
  BY <1>3, <1>8 DEF IInv, Decided, Given
<1>10. QED
  BY <1>2, <1>3, <1>6, <1>7, <1>8, <1>9 DEF IInv, TypeOK, Decided

\* The board starts dark, and nothing is under way.
LEMMA InitHolds == ASSUME Parameters, Init PROVE IInv
<1>1. Old \in Nat /\ 0 \in Clock
  BY DEF Old, Clock, Parameters
<1>2. board \in BoardState /\ ~board.armed /\ ~board.on /\ board.verifying = Nothing /\ board.spent = 0
  BY <1>1 DEF Init, DarkBoard, BoardState
<1>3. Guarded(board, clk)
  BY <1>2, DarkGuarded
<1>4. auth \in AuthState /\ auth.deciding = Nothing /\ auth.reply = Nothing /\ frames = {}
  BY DEF Init, NewSession, AuthState
<1>5. relay \in RelayState /\ relay.ctx = Context(board)
  BY <1>2, ContextType DEF Init, RelayState, Op
<1>6. QED
  BY <1>1, <1>2, <1>3, <1>4, <1>5, ContextType, ReplyIsFrame DEF IInv, TypeOK, Decided, Init

\* Every step of the relay, honest or hostile, of the authorizer and of the
\* board keeps the ages of what is lit, armed, decided and under way.
LEMMA StepHolds == ASSUME Parameters, IInv, [Next]_vars PROVE IInv'
<1>1. /\ clk \in Clock /\ board \in BoardState /\ auth \in AuthState
      /\ frames \in SUBSET Frames /\ relay \in RelayState
      /\ Guarded(board, clk) /\ Given(relay.ctx, board)
  BY DEF IInv, TypeOK, Decided
<1>2. ASSUME NEW m, Proper(m, board, clk), Board(m), clk' = clk,
             auth' = auth \/ auth' = [auth EXCEPT !.reply = Nothing],
             relay' \in RelayState, Given(relay'.ctx, board) \/ relay'.ctx = Context(m)
      PROVE  IInv'
  BY <1>2, BoardHolds DEF Board
<1>3. ASSUME NEW pc \in {"hello", "ask", "wait", "ack", "status", "stop", "done"}, Goes(pc)
      PROVE  relay' \in RelayState /\ relay'.ctx = relay.ctx
  BY <1>1, <1>3 DEF Goes, RelayState
<1>4. ASSUME UNCHANGED <<clk, board, auth, frames>>, relay' \in RelayState, Given(relay'.ctx, board)
      PROVE  IInv'
  BY <1>4 DEF IInv, TypeOK, Decided
<1>5. ASSUME NEW m, Proper(m, board, clk), Board(m), UNCHANGED <<clk, auth, relay>>
      PROVE  IInv'
  BY <1>1, <1>2, <1>5
<1>6. Proper(board, board, clk)
  BY <1>1 DEF Proper, Succeeds
<1>7. CASE BoardVerifies
  BY <1>1, <1>5, <1>7, VerifiedProper DEF BoardVerifies
<1>8. CASE BoardGarbage
  BY <1>1, <1>5, <1>8, FailProper DEF BoardGarbage
<1>9. CASE RelayHello
  <2> DEFINE r == [relay EXCEPT !.pc = "ask", !.ctx = Context(Hello(board))]
  <2>1. Proper(Hello(board), board, clk)
    BY <1>1, HelloProper
  <2>2. Context(Hello(board)) \in Challenges
    BY <2>1, ContextType DEF Proper
  <2>3. r \in RelayState /\ r.ctx = Context(Hello(board))
    BY <1>1, <2>2 DEF RelayState
  <2>4. QED
    BY <1>2, <1>9, <2>1, <2>3 DEF RelayHello
<1>10. CASE RelayStatus
  <2>1. Proper(Status(board), board, clk)
    BY <1>1, <1>10, StatusProper DEF RelayStatus, Listening
  <2>2. Context(Status(board)) \in Challenges
    BY <2>1, ContextType DEF Proper
  <2>3. CASE relay' = [relay EXCEPT !.pc = "ask", !.ctx = Context(Status(board))]
    <3>1. relay' \in RelayState /\ relay'.ctx = Context(Status(board))
      BY <1>1, <2>2, <2>3 DEF RelayState
    <3>2. QED
      BY <1>2, <1>10, <2>1, <3>1 DEF RelayStatus
  <2>4. CASE relay' = [relay EXCEPT !.pc = "stop"]
    <3>1. relay' \in RelayState /\ relay'.ctx = relay.ctx
      BY <1>1, <2>4 DEF RelayState
    <3>2. QED
      BY <1>1, <1>2, <1>10, <2>1, <3>1 DEF RelayStatus
  <2>5. QED
    BY <1>10, <2>3, <2>4 DEF RelayStatus
<1>11. CASE RelayAsk
  <2>1. relay' \in RelayState /\ relay'.ctx = relay.ctx
    BY <1>1, <1>11 DEF RelayAsk, RelayState
  <2>2. relay.ctx \in Challenges /\ relay.op \in Op
    BY <1>1 DEF RelayState
  <2>3. QED
    BY <1>1, <1>11, <2>1, <2>2, ApproveHolds DEF RelayAsk
<1>12. CASE RelayGot
  <2>1. CASE Goes("stop") /\ UNCHANGED <<board, frames>>
    <3>1. relay' \in RelayState /\ relay'.ctx = relay.ctx
      BY <1>3, <2>1
    <3>2. QED
      BY <1>1, <1>6, <1>12, <2>1, <3>1, BoardHolds DEF RelayGot
  <2>2. CASE auth.reply.op # "terminal" /\ Goes("ack") /\ Board(Begin(board, auth.reply))
    <3>1. relay' \in RelayState /\ relay'.ctx = relay.ctx
      BY <1>3, <2>2
    <3>2. auth.reply \in Frames
      BY <1>1, <1>12, <2>2 DEF RelayGot, AuthState
    <3>3. Dated(auth.reply.ctx, auth.reply.age, board, clk)
      BY <3>2, ReplyIsFrame DEF IInv, Decided
    <3>4. Proper(Begin(board, auth.reply), board, clk)
      BY <1>1, <1>12, <3>2, <3>3, BeginProper DEF RelayGot, Listening
    <3>5. QED
      BY <1>1, <1>2, <1>12, <2>2, <3>1, <3>4 DEF RelayGot
  <2>3. QED
    BY <1>12, <2>1, <2>2 DEF RelayGot
<1>13. CASE RelayAck
  <2>1. CASE relay' = [relay EXCEPT !.pc = "stop"]
    <3>1. relay' \in RelayState /\ relay'.ctx = relay.ctx
      BY <1>1, <2>1 DEF RelayState
    <3>2. QED
      BY <1>1, <1>4, <1>13, <3>1 DEF RelayAck
  <2>2. CASE relay' = [relay EXCEPT !.ctx = Context(board),
                          !.pc = IF relay.op = "BIND" THEN "ask" ELSE "status",
                          !.op = IF relay.op = "BIND" THEN "ARM" ELSE "RUN"]
    <3>1. relay' \in RelayState /\ relay'.ctx = Context(board)
      BY <1>1, <2>2, ContextType DEF RelayState, Op
    <3>2. QED
      BY <1>1, <1>4, <1>13, <3>1, ContextType DEF RelayAck
  <2>3. QED
    BY <1>13, <2>1, <2>2 DEF RelayAck
<1>14. CASE RelayErrs \/ RelayDies
  BY <1>1, <1>3, <1>4, <1>14 DEF RelayErrs, RelayDies
<1>15. CASE RelayStop
  <2>1. relay' \in RelayState /\ relay'.ctx = relay.ctx
    BY <1>3, <1>15 DEF RelayStop
  <2>2. CASE Board(Stop(board))
    BY <1>1, <1>2, <1>15, <2>1, <2>2, StopProper DEF RelayStop
  <2>3. CASE UNCHANGED <<board, frames>>
    BY <1>1, <1>4, <1>15, <2>1, <2>3 DEF RelayStop
  <2>4. QED
    BY <1>15, <2>2, <2>3 DEF RelayStop
<1>16. ASSUME NEW op \in Op, HostileAsks(op) PROVE IInv'
  <2>1. Context(board) \in Challenges /\ Given(Context(board), board)
    BY <1>1, ContextType
  <2>2. Approve(Context(board), op) /\ board' = board /\ clk' = clk /\ relay' = relay
    BY <1>16 DEF HostileAsks
  <2>3. QED
    BY <1>1, <2>1, <2>2, ApproveHolds
<1>17. CASE HostileReads
  BY <1>1, <1>6, <1>17, BoardHolds DEF HostileReads
<1>18. CASE HostileCommands
  <2>1. CASE Board(Hello(board))
    BY <1>1, <1>5, <1>18, <2>1, HelloProper DEF HostileCommands
  <2>2. CASE Board(Status(board))
    BY <1>1, <1>5, <1>18, <2>2, StatusProper DEF HostileCommands, Listening
  <2>3. CASE Board(Stop(board))
    BY <1>1, <1>5, <1>18, <2>3, StopProper DEF HostileCommands
  <2>4. QED
    BY <1>18, <2>1, <2>2, <2>3 DEF HostileCommands
<1>19. ASSUME NEW f \in frames, HostileSends(f) PROVE IInv'
  <2>1. f \in Frames /\ Dated(f.ctx, f.age, board, clk)
    BY <1>1 DEF IInv, Decided
  <2>2. Proper(Begin(board, f), board, clk)
    BY <1>1, <1>19, <2>1, BeginProper DEF HostileSends, Listening
  <2>3. QED
    BY <1>5, <1>19, <2>2 DEF HostileSends
<1>20. CASE UNCHANGED vars
  BY <1>1, <1>4, <1>20 DEF vars
<1>21. QED
  BY <1>7, <1>8, <1>9, <1>10, <1>11, <1>12, <1>13, <1>14, <1>15, <1>16, <1>17, <1>18, <1>19,
     <1>20, SignHolds, TimeHolds DEF Next, Op

\* Under any relay, honest or hostile, the LED is lit only by a decision of the
\* gate that is younger than the lease, however long verification takes and
\* wherever the clock wraps (permit_guard.h command and tick).
THEOREM LitIsAlwaysRecent == ASSUME Parameters PROVE Spec => []LitIsRecent
<1>1. Init => IInv
  BY InitHolds
<1>2. IInv /\ [Next]_vars => IInv'
  BY StepHolds
<1>3. IInv => LitIsRecent
  <2> SUFFICES ASSUME IInv, board.on PROVE board.age < Lease
    BY DEF LitIsRecent
  <2>1. board \in BoardState /\ clk \in Clock /\ board.leaseFrom \in Clock /\ board.age \in Nat
    BY DEF IInv, TypeOK, BoardState
  <2>2. board.age <= Ago(clk, board.leaseFrom) /\ Ago(clk, board.leaseFrom) < Lease
    BY DEF IInv, Guarded
  <2>3. Ago(clk, board.leaseFrom) \in Nat /\ Lease \in Nat
    BY <2>1, AgoType DEF Clock, Parameters
  <2>4. QED
    BY <2>1, <2>2, <2>3
<1>4. QED
  BY <1>1, <1>2, <1>3, PTL DEF Spec
=============================================================================
