---------------------------- MODULE PermitBench ----------------------------
(***************************************************************************)
(* The H2 bench: the authorizer that signs (tools/permit_authorizer.py), the   *)
(* relay that must not be trusted (permit_link.py, permit_ipc.py) and the       *)
(* board's PermitGuard (hardware/uno_r4_permit/permit_guard.h), which lights    *)
(* one LED.                                                                *)
(*                                                                         *)
(* clk is the board's millis(), which wraps: every age the board computes is a  *)
(* difference modulo Wrap.  The ages the processes on the host keep are counted  *)
(* up to Old.  With Hostile the relay asks for the current challenge, keeps      *)
(* frames back, and delivers them again, in any order, whenever it likes;       *)
(* otherwise it runs its loop, and may die in it.  A frame for a challenge that  *)
(* is gone is refused like garbage, and a request for one gives such a frame or  *)
(* locks the authorizer: neither is kept.                                     *)
(***************************************************************************)
EXTENDS Integers

CONSTANTS
  Hostile,
  Permit,      \* 50 ms: permit_ms, the gate's validity and the relay's budget
  Lease,       \* 200 ms: lease_ms and the signed duration
  Bind,        \* 500 ms: bind_ms and the relay's budget for it
  Wrap,        \* 2^32 ms
  MaxVerify,   \* bound on the time a verification takes, far below Wrap
  MaxGen,      \* bound on HELLOs
  MaxChallenge \* bound on the challenges of one generation

\* What the code's values of the parameters satisfy.
Parameters ==
  /\ Hostile \in BOOLEAN
  /\ {Permit, Lease, Bind, Wrap, MaxVerify, MaxGen, MaxChallenge} \subseteq Nat \ {0}
  /\ Lease < Wrap /\ Bind < Wrap /\ Permit < Lease /\ Permit + MaxVerify < Wrap

VARIABLES clk, board, auth, frames, relay

vars == <<clk, board, auth, frames, relay>>

Old == Lease + 1
Older(age) == IF age < Old THEN age + 1 ELSE age
Nothing == [op |-> "none"]

\* uint32_t(now - then)
Since(then) == (clk - then) % Wrap

DarkBoard == [gen |-> 0, seq |-> 0, chal |-> 0, issued |-> 0, sess |-> 0,
              canBind |-> FALSE, bound |-> FALSE, canArm |-> FALSE, armed |-> FALSE,
              on |-> FALSE, ok |-> FALSE, leaseFrom |-> 0,
              verifying |-> Nothing, spent |-> 0,
              age |-> Old]      \* history: of the decision behind the lease

\* What every reply tells; the nonce stands for all of it.
Context(b) == [gen |-> b.gen, seq |-> b.seq, chal |-> b.chal, issued |-> b.issued]

\* What the authorizer answers is a frame, unless it is nothing or terminal.
IsFrame(r) == r.op \in {"BIND", "ARM", "RUN"}

OlderFrame(f) == [f EXCEPT !.age = Older(@)]

\* Authorizer.__init__: one operator session.
NewSession == [binding |-> 0, seq |-> 0, chal |-> 0, armed |-> FALSE, locked |-> FALSE,
               deciding |-> Nothing, age |-> 0, reply |-> Nothing]

Init ==
  /\ clk = 0
  /\ board = DarkBoard
  /\ auth = NewSession
  /\ frames = {}
  /\ relay = [pc |-> "hello", op |-> "BIND", ctx |-> Context(DarkBoard), age |-> 0]

-----------------------------------------------------------------------------
(* permit_guard.h.                                                          *)

Fail(b) == [b EXCEPT !.on = FALSE, !.armed = FALSE, !.canArm = FALSE, !.bound = FALSE,
                     !.canBind = FALSE, !.sess = 0, !.ok = FALSE, !.verifying = Nothing, !.spent = 0]

\* tick, at that time of the board's clock
Ticked(b, at) == IF b.armed /\ (at - b.leaseFrom) % Wrap >= Lease THEN Fail(b) ELSE b

\* command: HELLO, STATUS and STOP are unsigned and never light the LED.
Hello(b) == [Fail(b) EXCEPT !.gen = @ + 1, !.seq = 0, !.chal = 1, !.issued = clk,
                            !.canBind = TRUE, !.ok = TRUE]
Status(b) == [b EXCEPT !.chal = @ + 1, !.issued = clk, !.ok = TRUE]
Stop(b) == [Fail(b) EXCEPT !.ok = TRUE]

Timely(b, f) == Since(b.issued) < (IF f.op = "BIND" THEN Bind ELSE Permit)

Phase(b, f) ==
  CASE f.op = "BIND" -> b.canBind /\ ~b.bound /\ ~b.armed
    [] f.op = "ARM"  -> b.bound /\ b.canArm
    [] f.op = "RUN"  -> b.bound /\ b.armed

\* command, up to the verification, during which the LED is off.
Begin(b, f) ==
  IF /\ b.gen # 0 /\ f.ctx = Context(b)
     /\ Timely(b, f) /\ Phase(b, f)
    THEN [b EXCEPT !.on = FALSE, !.verifying = f]
    ELSE Fail(b)

\* A mutant: what was true before the verification is taken to be true after it.
VerifiedBlind(b0) ==
  LET f == b0.verifying
      b == [b0 EXCEPT !.verifying = Nothing, !.spent = 0]
      next == [b EXCEPT !.seq = @ + 1, !.chal = @ + 1, !.issued = clk, !.ok = TRUE]
  IN  CASE f.op = "BIND" ->
             [next EXCEPT !.canBind = FALSE, !.bound = TRUE, !.canArm = TRUE, !.sess = f.sess]
        [] f.op # "BIND" /\ b.sess # f.sess -> Fail(b)
        [] OTHER -> [next EXCEPT !.canArm = FALSE, !.armed = TRUE, !.on = (f.op = "RUN"),
                                 !.leaseFrom = b.issued, !.age = f.age]

\* command, after it: the clock is read again and the lease looked at again.
Verified(b0) ==
  LET f == b0.verifying
      b == Ticked([b0 EXCEPT !.verifying = Nothing, !.spent = 0], clk)
      next == [b EXCEPT !.seq = @ + 1, !.chal = @ + 1, !.issued = clk, !.ok = TRUE]
  IN  CASE ~Timely(b, f) -> Fail(b)
        [] f.op # "BIND" /\ b.sess # f.sess -> Fail(b)
        [] Timely(b, f) /\ f.op = "BIND" ->
             IF b.canBind
               THEN [next EXCEPT !.canBind = FALSE, !.bound = TRUE, !.canArm = TRUE, !.sess = f.sess]
               ELSE Fail(b)
        [] OTHER ->
             IF Phase(b, f)
               THEN [next EXCEPT !.canArm = FALSE, !.armed = TRUE, !.on = (f.op = "RUN"),
                                 !.leaseFrom = b.issued, !.age = f.age]
               ELSE Fail(b)

\* The board changes; frames for challenges that are gone count no more.
Board(b) ==
  /\ board' = b
  /\ frames' = {f \in frames : Hostile /\ f.ctx = Context(b)}
Listening == board.verifying = Nothing

BoardVerifies ==
  /\ board.verifying # Nothing
  /\ Board(Verified(board))
  /\ UNCHANGED <<clk, auth, relay>>

\* A frame that is no frame: oversized, partial for too long, not hexadecimal.
BoardGarbage ==
  /\ Listening
  /\ Board(Fail(board))
  /\ UNCHANGED <<clk, auth, relay>>

-----------------------------------------------------------------------------
(* permit_authorizer.py, approve.                                           *)

Terminal(a) == [a EXCEPT !.locked = TRUE, !.deciding = Nothing, !.reply = [op |-> "terminal"]]

InOrder(a, ctx, op) ==
  /\ ctx.gen = a.binding /\ op = (IF a.armed THEN "RUN" ELSE "ARM")
  /\ ctx.seq = a.seq /\ ctx.chal > a.chal

Frame(op, ctx, age) == [op |-> op, ctx |-> ctx, sess |-> auth.binding, age |-> age]

\* The first request binds this session to the controller's generation.
ApproveBind(ctx, op) ==
  /\ auth.binding = 0
  /\ IF op = "BIND" /\ ctx.seq = 0
       THEN LET f == [op |-> "BIND", ctx |-> ctx, sess |-> ctx.gen, age |-> 0]
            IN  /\ auth' = [auth EXCEPT !.binding = ctx.gen, !.seq = 1, !.chal = ctx.chal, !.reply = f]
                /\ frames' = frames \cup {g \in {f} : Hostile}
       ELSE auth' = Terminal(auth) /\ UNCHANGED frames

\* Later ones ask the gate, unless the operator's time is over.  The decision is
\* as old as its cycle, whenever it is signed.
ApproveAsk(ctx, op) ==
  /\ auth.binding # 0
  /\ \/ auth' = Terminal(auth)
     \/ InOrder(auth, ctx, op) /\ auth' = [auth EXCEPT !.deciding = [op |-> op, ctx |-> ctx], !.age = 0]
  /\ UNCHANGED frames

Approve(ctx, op) ==
  /\ ~auth.locked /\ auth.deciding = Nothing /\ auth.reply = Nothing
  /\ ApproveBind(ctx, op) \/ ApproveAsk(ctx, op)

\* gate.remaining() after the signature.
StillFresh == auth.age < Permit

Sign ==
  /\ auth.deciding # Nothing
  /\ LET d == auth.deciding
         f == Frame(d.op, d.ctx, auth.age)
     IN  IF StillFresh
           THEN /\ auth' = [auth EXCEPT !.seq = d.ctx.seq + 1, !.chal = d.ctx.chal, !.armed = TRUE,
                                        !.deciding = Nothing, !.reply = f]
                /\ frames' = frames \cup {g \in {f} : Hostile}
           ELSE auth' = Terminal(auth) /\ UNCHANGED frames
  /\ UNCHANGED <<clk, board, relay>>

-----------------------------------------------------------------------------
(* permit_link.py, relay: the loop of an honest relay.                       *)

At(pc) == ~Hostile /\ relay.pc = pc
Goes(pc) == relay' = [relay EXCEPT !.pc = pc]
Budget == IF relay.op = "BIND" THEN Bind ELSE Permit

RelayHello ==
  /\ At("hello") /\ Listening
  /\ Board(Hello(board))
  /\ relay' = [relay EXCEPT !.pc = "ask", !.ctx = Context(Hello(board))]
  /\ UNCHANGED <<clk, auth>>

\* Before every RUN the state is asked for; the context must be the known one.
RelayStatus ==
  /\ At("status") /\ Listening
  /\ board.chal < MaxChallenge
  /\ Board(Status(board))
  /\ relay' = IF board.armed /\ board.gen = relay.ctx.gen
                THEN [relay EXCEPT !.pc = "ask", !.ctx = Context(Status(board))]
                ELSE [relay EXCEPT !.pc = "stop"]
  /\ UNCHANGED <<clk, auth>>

RelayAsk ==
  /\ At("ask")
  /\ Approve(relay.ctx, relay.op)
  /\ relay' = [relay EXCEPT !.pc = "wait", !.age = 0]
  /\ UNCHANGED <<clk, board>>

\* The answer: terminal, too late, or a permit for the board.
RelayGot ==
  /\ At("wait") /\ auth.reply # Nothing /\ Listening
  /\ auth' = [auth EXCEPT !.reply = Nothing]
  /\ IF auth.reply.op = "terminal" \/ relay.age >= Budget
       THEN Goes("stop") /\ UNCHANGED <<board, frames>>
       ELSE Goes("ack") /\ Board(Begin(board, auth.reply))
  /\ UNCHANGED clk

\* execute: the acknowledgment names the expected state and counters.
RelayAck ==
  /\ At("ack") /\ Listening
  /\ LET good == /\ board.ok /\ board.seq = relay.ctx.seq + 1 /\ board.gen = relay.ctx.gen
                 /\ board.chal = relay.ctx.chal + 1 /\ relay.age < Budget
     IN  relay' = IF ~good THEN [relay EXCEPT !.pc = "stop"]
                  ELSE [relay EXCEPT !.ctx = Context(board),
                          !.pc = IF relay.op = "BIND" THEN "ask" ELSE "status",
                          !.op = IF relay.op = "BIND" THEN "ARM" ELSE "RUN"]
  /\ UNCHANGED <<clk, board, auth, frames>>

\* Any timeout of the socket or of USB, any malformed answer.
RelayErrs ==
  /\ relay.pc \in {"ask", "wait", "ack", "status"} /\ ~Hostile
  /\ Goes("stop")
  /\ UNCHANGED <<clk, board, auth, frames>>

\* finally: a last STOP, which may get nowhere; a killed relay sends none.
RelayStop ==
  /\ At("stop")
  /\ Goes("done")
  /\ \/ Listening /\ Board(Stop(board))
     \/ UNCHANGED <<board, frames>>
  /\ UNCHANGED <<clk, auth>>

RelayDies ==
  /\ ~Hostile /\ relay.pc # "done"
  /\ Goes("done")
  /\ UNCHANGED <<clk, board, auth, frames>>

-----------------------------------------------------------------------------
(* The same process when it is hostile.                                     *)

HostileAsks(op) ==
  /\ Hostile /\ board.gen # 0 /\ board.chal < MaxChallenge
  /\ Approve(Context(board), op)
  /\ UNCHANGED <<clk, board, relay>>

HostileReads ==
  /\ Hostile /\ auth.reply # Nothing /\ ~auth.locked
  /\ auth' = [auth EXCEPT !.reply = Nothing]
  /\ UNCHANGED <<clk, board, frames, relay>>

HostileSends(f) ==
  /\ Hostile /\ Listening
  /\ Board(Begin(board, f))
  /\ UNCHANGED <<clk, auth, relay>>

HostileCommands ==
  /\ Hostile /\ Listening
  /\ \/ board.gen < MaxGen /\ Board(Hello(board))
     \/ board.gen # 0 /\ board.chal < MaxChallenge /\ Board(Status(board))
     \/ Board(Stop(board))
  /\ UNCHANGED <<clk, auth, relay>>

-----------------------------------------------------------------------------
\* The board's loop ticks all the time, except while it verifies.
Aged(b) ==
  IF b.verifying = Nothing THEN [b EXCEPT !.age = Older(@)]
  ELSE [b EXCEPT !.age = Older(@), !.spent = @ + 1, !.verifying.age = Older(@)]

Time ==
  /\ board.spent < MaxVerify
  /\ clk' = (clk + 1) % Wrap
  /\ board' = IF Listening THEN Ticked(Aged(board), clk') ELSE Aged(board)
  /\ auth' = [auth EXCEPT !.age = IF @ < Permit THEN @ + 1 ELSE @,
                          !.reply = IF IsFrame(@) THEN OlderFrame(@) ELSE @]
  /\ frames' = {OlderFrame(f) : f \in frames}
  /\ relay' = [relay EXCEPT !.age = IF @ < Bind THEN @ + 1 ELSE @]

Next ==
  \/ Time \/ BoardVerifies \/ BoardGarbage \/ Sign
  \/ RelayHello \/ RelayStatus \/ RelayAsk \/ RelayGot \/ RelayAck
  \/ RelayErrs \/ RelayStop \/ RelayDies
  \/ \E op \in {"BIND", "ARM", "RUN"} : HostileAsks(op)
  \/ HostileReads \/ HostileCommands
  \/ \E f \in frames : HostileSends(f)

Spec == Init /\ [][Next]_vars

\* Time passes, and a verification that has begun ends in it: Time and
\* BoardVerifies are what a run may take to be fair.

-----------------------------------------------------------------------------
\* The LED is lit only by a decision of the gate that is younger than the lease,
\* however long verification took, whatever frames were kept back or sent again,
\* and across the wrap of the clock (permit_guard.h command and tick).
LitIsRecent == board.on => board.age < Lease

\* Once the authorizer has given its terminal answer the LED goes out and stays
\* out, although the relay may miss it or die and frames may be under way
\* (permit_authorizer.py approve, self.locked).
TerminalGoesDark == auth.locked ~> [](~board.on)
=============================================================================
