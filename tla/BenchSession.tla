---------------------------- MODULE BenchSession ----------------------------
(***************************************************************************)
(* The H1 bench: the operator's host (tools/bench_host.py) asks a real gate     *)
(* (bench_gate.py) for every renewal of one LED, over a serial link             *)
(* (bench_link.py) to the board's BenchGuard (hardware/uno_r4_bench/guard.h).    *)
(*                                                                         *)
(* The link keeps order and loses nothing, but a line takes any time, and what   *)
(* the host has sent before it gave up is still carried out.  clk is the        *)
(* board's millis(), which wraps.  host.begun is the time since the cycle began,  *)
(* host.waited the time since the current request was sent.                    *)
(***************************************************************************)
EXTENDS Integers, Sequences

CONSTANTS
  Permit,      \* 50 ms: the bound on a cycle and on every exchange
  Challenge,   \* 100 ms: challenge_ms
  Lease,       \* 200 ms: lease_ms
  WorldMaxAge, \* 200 ms: world_max_age_ms and the bound on a velocity's life
  Wrap,        \* 2^32 ms
  Faults,      \* "none" for as long as a run allows, and the faults of the scenarios
  Start,       \* what the board's clock may show at first
  MaxSeq,      \* bound on the lines of one session
  MaxSession   \* bound on the operator's runs

\* What the code's values of the parameters satisfy.
Parameters ==
  /\ {Permit, Challenge, Lease, WorldMaxAge, Wrap, MaxSeq, MaxSession} \subseteq Nat \ {0}
  /\ Permit < Challenge /\ Challenge < Lease /\ Lease < Wrap
  /\ Start \subseteq 0 .. (Wrap - 1)

VARIABLES clk, board, wire, host, gate

vars == <<clk, board, wire, host, gate>>

Old == Challenge + Lease + WorldMaxAge
Older(age) == IF age < Old THEN age + 1 ELSE age
OlderLine(c) == [c EXCEPT !.age = Older(@)]
Since(then) == (clk - then) % Wrap

DarkBoard == [sess |-> 0, seq |-> 0, chal |-> 0, issued |-> 0, renewed |-> 0,
              canArm |-> FALSE, armed |-> FALSE, on |-> FALSE, ok |-> FALSE,
              age |-> Old]      \* history: of the approval behind the lease

\* SerialLink.__init__ and the locals of run.
NewHost(s) == [sess |-> s, pc |-> "boot", seq |-> 0, chal |-> 0, op |-> "HELLO",
               waited |-> 0, limit |-> Permit, begun |-> Permit,
               fault |-> "none", faultAge |-> 0]

\* BenchGate: the age of the accepted world, the decision in hand.
NewGate == [world |-> WorldMaxAge, positive |-> FALSE, served |-> FALSE,
            reported |-> WorldMaxAge, approved |-> FALSE]

Init ==
  /\ clk \in Start
  /\ board = DarkBoard
  /\ wire = [cmds |-> <<>>, replies |-> <<>>]
  /\ host = NewHost(1)
  /\ gate = NewGate

-----------------------------------------------------------------------------
(* guard.h.                                                                *)

Fail(b) == [b EXCEPT !.on = FALSE, !.armed = FALSE, !.canArm = FALSE, !.ok = FALSE, !.age = Old]

\* A mutant: the lease is looked at only when a line arrives.
TickedNever(b, at) == b

\* tick
Ticked(b, at) == IF b.armed /\ (at - b.renewed) % Wrap >= Lease THEN Fail(b) ELSE b

\* command: HELLO
Opened(b, c) ==
  IF b.sess = c.sess THEN Fail(b)
  ELSE [Fail(b) EXCEPT !.sess = c.sess, !.canArm = TRUE, !.ok = TRUE,
                       !.seq = 0, !.chal = 1, !.issued = clk]

\* STOP may always remove output; STATUS renews nothing.
Timely(b, op) == op \in {"STOP", "STATUS"} \/ Since(b.issued) < Challenge

\* command: every other line
Commanded(b, c) ==
  LET next == [b EXCEPT !.seq = c.seq, !.chal = @ + 1, !.issued = clk, !.ok = TRUE]
  IN  CASE \/ b.sess # c.sess \/ c.seq # b.seq + 1 \/ c.chal # b.chal
           \/ ~Timely(b, c.op)
           \/ c.op = "ARM" /\ ~b.canArm
           \/ c.op = "RUN" /\ ~b.armed -> Fail(b)
        [] OTHER ->
             CASE c.op = "ARM" -> [next EXCEPT !.canArm = FALSE, !.armed = TRUE, !.renewed = clk]
               [] c.op = "RUN" -> [next EXCEPT !.on = TRUE, !.renewed = clk, !.age = c.age]
               [] c.op = "STOP" -> [Fail(next) EXCEPT !.ok = TRUE]
               [] c.op = "STATUS" -> next

\* reply: the counters, and one word for the state.
Reply(b) == [ok |-> b.ok, sess |-> b.sess, seq |-> b.seq, chal |-> b.chal,
             state |-> IF b.on THEN "ON" ELSE IF b.armed THEN "ARMED" ELSE "LOCKED"]

\* feed, a whole line.
BoardCommand ==
  /\ wire.cmds # <<>>
  /\ LET c == Head(wire.cmds)
         b == IF c.op = "HELLO" THEN Opened(board, c) ELSE Commanded(board, c)
     IN  /\ board' = b
         /\ wire' = [cmds |-> Tail(wire.cmds), replies |-> Append(wire.replies, Reply(b))]
  /\ UNCHANGED <<clk, host, gate>>

\* feed and tick: a line that is no line, or only half of one for too long.
BoardGarbage ==
  /\ board' = Fail(board)
  /\ UNCHANGED <<clk, wire, host, gate>>

-----------------------------------------------------------------------------
(* bench_link.py.                                                          *)

\* exchange, the first half: the line is written and the deadline set.
Line(h, op) == [op |-> op, sess |-> h.sess, seq |-> IF op = "HELLO" THEN 0 ELSE h.seq + 1,
                chal |-> IF op = "HELLO" THEN 0 ELSE h.chal,
                age |-> IF op = "RUN" THEN h.begun ELSE Old]   \* history: of its approval

\* The answer names this session, this line, the next challenge and a state, and
\* nothing follows it.
Expected == IF host.op = "HELLO" THEN 1 ELSE host.chal + 1
Required == [HELLO |-> {"LOCKED"}, ARM |-> {"ARMED"}, RUN |-> {"ON"}, STOP |-> {"LOCKED"},
             STATUS |-> {"ON", "ARMED", "LOCKED"}]
Good(r) ==
  /\ Len(wire.replies) = 1
  /\ r.ok /\ r.sess = host.sess
  /\ r.seq = Line(host, host.op).seq /\ r.chal = Expected
  /\ r.state \in Required[host.op]

\* run's finally: link.stop() once more, whatever happened before.
Finally(h, unread) ==
  /\ host' = [h EXCEPT !.pc = "final", !.op = "STOP", !.waited = 0]
  /\ wire' = [cmds |-> Append(wire.cmds, Line(h, "STOP")), replies |-> unread]

Turns(h, pc, op) ==
  /\ host' = [h EXCEPT !.pc = pc, !.op = op, !.waited = 0]
  /\ wire' = [wire EXCEPT !.replies = <<>>]

\* What run does with a good answer.
Answered(h, state) ==
  \/ h.op = "HELLO" /\ Turns(h, "send", "ARM")
  \/ h.op = "ARM" /\ Turns(h, "send", "STATUS")
  \/ h.op = "STATUS" /\ state # "LOCKED" /\ Turns(h, "cycle", "RUN")
  \/ h.op = "STATUS" /\ state = "LOCKED" /\ Finally(h, <<>>)
  \/ h.op = "RUN" /\ Turns(h, "ack", "RUN")
  \/ h.op = "STOP" /\ Finally(h, <<>>)

\* exchange, the second half.
Receive ==
  /\ host.pc = "link" /\ host.waited < host.limit /\ wire.replies # <<>>
  /\ LET r == Head(wire.replies)
     IN  IF Good(r)
           THEN Answered([host EXCEPT !.seq = r.seq, !.chal = r.chal], r.state)
           ELSE Finally(host, Tail(wire.replies))
  /\ UNCHANGED <<clk, board, gate>>

LinkTimeout ==
  /\ host.pc = "link" /\ host.waited >= host.limit
  /\ Finally(host, wire.replies)
  /\ UNCHANGED <<clk, board, gate>>

\* stop: the last answer, if any, changes nothing; then the port is closed.
Final ==
  /\ host.pc = "final"
  /\ host' = [host EXCEPT !.pc = "done"]
  /\ UNCHANGED <<clk, board, wire, gate>>

-----------------------------------------------------------------------------
(* bench_gate.py.                                                          *)

\* initialize: two worlds, a signed zero that arms, a tick; or it is all closed.
Boot ==
  /\ host.pc = "boot"
  /\ \/ /\ host' = [host EXCEPT !.pc = "send"]
        /\ gate' = [gate EXCEPT !.world = 0]
     \/ host' = [host EXCEPT !.pc = "done"] /\ UNCHANGED gate
  /\ UNCHANGED <<clk, board, wire>>

\* require_fresh_actuation and lease_renewable.  The motion was signed within
\* the cycle and lives longer than a cycle may take.
Fresh == host.begun < Permit /\ gate.reported + host.begun < WorldMaxAge

\* cycle, up to the world: the fault of the scenario, once its time has come,
\* stays.  mark_fault tells it at the request that differs.
CycleWorld(f) ==
  /\ host.pc = "cycle"
  /\ IF host.fault = "none" THEN f \in Faults ELSE f = host.fault
  /\ LET lost == f = "world-loss"
     IN  /\ host' = [host EXCEPT !.pc = IF lost THEN "motion" ELSE "world", !.begun = 0, !.waited = 0,
                       !.fault = f,
                       !.faultAge = IF host.fault = "none" THEN 0 ELSE @]
         /\ gate' = [gate EXCEPT !.world = IF lost THEN @ ELSE 0, !.approved = FALSE, !.served = FALSE]
  /\ UNCHANGED <<clk, board, wire>>

\* The answer to the world: a stop other than the harmless ones denies.
CycleMotion ==
  /\ host.pc = "world" /\ host.waited < Permit
  /\ \/ host' = [host EXCEPT !.pc = "motion", !.waited = 0]
     \/ host' = [host EXCEPT !.pc = "send", !.op = "STOP"]
  /\ UNCHANGED <<clk, board, wire, gate>>

\* The enforcer moves only on a fresh motion, in a known and empty room.
Allows == gate.world <= WorldMaxAge /\ host.fault \in {"none", "world-loss"}

\* The child process handles the motion, whenever it gets to it.
Serve ==
  /\ host.pc = "motion" /\ ~gate.served
  /\ \E positive \in {FALSE, Allows} :
       gate' = [gate EXCEPT !.served = TRUE, !.positive = positive, !.reported = gate.world]
  /\ UNCHANGED <<clk, board, wire, host>>

\* cycle, after the motion: approved, denied, or an exception of freshness.
CycleEnds ==
  /\ host.pc = "motion" /\ gate.served /\ host.waited < Permit
  /\ IF gate.positive /\ ~Fresh
       THEN Finally(host, wire.replies) /\ UNCHANGED gate
       ELSE \E approved \in {FALSE, gate.positive} :    \* a mode, a recorder, a settling arm
              /\ host' = [host EXCEPT !.pc = "send", !.op = IF approved THEN "RUN" ELSE "STOP"]
              /\ gate' = [gate EXCEPT !.approved = approved]
              /\ UNCHANGED wire
  /\ UNCHANGED <<clk, board>>

\* Bridge.request gives up after its 50 ms.
GateTimeout ==
  /\ host.pc \in {"world", "motion"} /\ host.waited >= Permit
  /\ Finally(host, wire.replies)
  /\ UNCHANGED <<clk, board, gate>>

-----------------------------------------------------------------------------
(* bench_host.py, run.                                                     *)

\* Every line but a RUN is sent with the link's timeout, a RUN with what remains
\* of its cycle; remaining() raises when that is nothing.
Send ==
  /\ host.pc = "send"
  /\ IF host.op = "RUN" /\ ~(gate.approved /\ Fresh)
       THEN Finally(host, wire.replies)
       ELSE /\ host' = [host EXCEPT !.pc = "link", !.waited = 0,
                          !.limit = IF host.op = "RUN" THEN Permit - host.begun ELSE Permit]
            /\ wire' = [wire EXCEPT !.cmds = Append(@, Line(host, host.op))]
  /\ UNCHANGED <<clk, board, gate>>

\* A late acknowledgment is an error; then the next round, the end of an allowed
\* scenario, or the end of the window.
Ack ==
  /\ host.pc = "ack"
  /\ IF ~Fresh
       THEN Finally(host, wire.replies)
       ELSE \/ host.seq + 3 <= MaxSeq /\ Turns(host, "send", "STATUS")
            \/ host.fault = "none" /\ Turns(host, "send", "STOP")
            \/ Finally(host, wire.replies)
  /\ UNCHANGED <<clk, board, gate>>

\* SIGINT and SIGTERM raise in the main thread; a gate that dies does too.
Interrupted ==
  /\ host.pc \notin {"boot", "final", "done"}
  /\ Finally(host, wire.replies)
  /\ UNCHANGED <<clk, board, gate>>

\* SIGKILL, or an unplugged host: no STOP at all.
Killed ==
  /\ host.pc # "done"
  /\ host' = [host EXCEPT !.pc = "done"]
  /\ UNCHANGED <<clk, board, wire, gate>>

\* Another run of the operator; opening the port flushes what it can.
NewRun ==
  /\ host.pc = "done" /\ host.sess < MaxSession
  /\ host' = NewHost(host.sess + 1)
  /\ gate' = NewGate
  /\ \E left \in {<<>>, wire.cmds} : wire' = [cmds |-> left, replies |-> <<>>]
  /\ UNCHANGED <<clk, board>>

Time ==
  /\ clk' = (clk + 1) % Wrap
  /\ board' = Ticked([board EXCEPT !.age = Older(@)], clk')
  /\ host' = [host EXCEPT !.waited = IF @ < Permit THEN @ + 1 ELSE @,
                          !.begun = IF @ < Permit THEN @ + 1 ELSE @,
                          !.faultAge = IF host.fault = "none" THEN 0 ELSE Older(@)]
  /\ gate' = [gate EXCEPT !.world = IF @ <= WorldMaxAge THEN @ + 1 ELSE @]
  /\ wire' = [wire EXCEPT !.cmds = [i \in DOMAIN @ |-> OlderLine(@[i])]]

Next ==
  \/ Time \/ BoardCommand \/ BoardGarbage
  \/ Receive \/ LinkTimeout \/ Final
  \/ Boot \/ \E f \in Faults : CycleWorld(f)
  \/ CycleMotion \/ Serve \/ CycleEnds \/ GateTimeout
  \/ Send \/ Ack \/ Interrupted \/ Killed \/ NewRun

Spec == Init /\ [][Next]_vars

\* The board's clock runs, so a run may take Time to be fair; nothing is assumed
\* of the host, the gate or the link.

-----------------------------------------------------------------------------
\* The LED is lit only by an approval of the gate that began less than a challenge
\* and a lease ago, however long a RUN was under way and whatever the host had
\* given up on meanwhile (guard.h command, bench_host.py run).
LitIsApproved == board.on => board.age < Challenge + Lease

\* Once the person, the replay or the forgery is there, the LED of that run is
\* dark a lease later at the latest; after the loss of the world, when the last
\* world, the last challenge and the last lease are over (bench_gate.py cycle).
DarkAfter == Lease + (IF host.fault = "world-loss" THEN WorldMaxAge + Challenge ELSE 0)
FaultGoesDark ==
  host.fault \notin {"none"} /\ host.faultAge >= DarkAfter =>
    ~(board.on /\ board.sess = host.sess)

\* A run that has ended, in whatever way, leaves a dark LED that only another run
\* can light, although its last lines may still be on the link and although the
\* final STOP may be refused (bench_host.py run, finally; guard.h tick).
EndedStaysDark ==
  \A s \in 1 .. MaxSession :
    (host.sess = s /\ host.pc = "done") ~> [](board.sess = s => ~board.on)
=============================================================================
