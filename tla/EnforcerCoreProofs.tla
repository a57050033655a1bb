------------------------- MODULE EnforcerCoreProofs -------------------------
(***************************************************************************)
(* What the methods of the motion history and the private methods of the    *)
(* enforcer keep, for every policy.  A handler composes them, so the proofs *)
(* about the running enforcer and about the enforcement loop do too:        *)
(* GoodHistory is what every method of the history keeps, Good what every   *)
(* method of the enforcer keeps of its record, Live what it keeps of the    *)
(* wire (a motion is authorised, or its cancel is owed), Kept what it keeps *)
(* of the durable history and of the mode.                                  *)
(***************************************************************************)
EXTENDS EnforcerCore, FiniteSetTheorems, TLAPS

-----------------------------------------------------------------------------
(* The motion history.                                                      *)

\* A history whose pending motion, if any, is among its records.
GoodHistory(h) ==
  /\ h \in HistoryState
  /\ h.pending # None => h.steps[h.pending] # None

\* The larger and the smaller of two naturals are naturals.
LEMMA LargerType == \A a, b \in Nat : Larger(a, b) \in Nat /\ Smaller(a, b) \in Nat
  BY DEF Larger, Smaller

\* A key with a record holds a motion record.
LEMMA PendingRecord ==
  ASSUME NEW h, GoodHistory(h), h.pending # None
  PROVE  h.pending \in StepKey /\ h.steps[h.pending] \in MotionRecord
  BY HistoryAssumption DEF GoodHistory, HistoryState

\* Changing the record of the pending motion keeps the history good
\* (every method that resolves or interrupts it does just that).
LEMMA RewritePending ==
  ASSUME NEW h, GoodHistory(h), h.pending # None, NEW r \in MotionRecord,
         NEW b \in Nat, NEW p \in {h.pending, None}, NEW st \in Nat, NEW sa \in Nat
  PROVE  GoodHistory([h EXCEPT !.steps[h.pending] = r, !.pending = p, !.blocked = b,
                               !.settleStamp = st, !.settleSamples = sa])
  BY PendingRecord, NoneAssumption DEF GoodHistory, HistoryState

\* A new history is good (History::new).
LEMMA NewGood == GoodHistory(NewHistory)
  BY DEF GoodHistory, HistoryState, NewHistory

\* Interrupting keeps a history good (History::interrupt).
LEMMA InterruptGood == ASSUME NEW h, GoodHistory(h) PROVE GoodHistory(Interrupt(h))
<1>1. CASE h.pending = None
  BY <1>1 DEF Interrupt
<1>2. CASE h.pending # None
  <2> DEFINE r == [h.steps[h.pending] EXCEPT !.outcome = "Interrupted"]
             b == Larger(h.blocked, h.steps[h.pending].rev)
  <2>1. h.pending \in StepKey /\ h.steps[h.pending] \in MotionRecord
    BY <1>2, PendingRecord
  <2>2. r \in MotionRecord
    BY <2>1 DEF MotionRecord, MotionOutcome
  <2>3. b \in Nat
    BY <2>1, LargerType DEF MotionRecord, GoodHistory, HistoryState
  <2>4. Interrupt(h) = [h EXCEPT !.steps[h.pending] = r, !.pending = h.pending,
                                 !.blocked = b, !.settleStamp = h.settleStamp,
                                 !.settleSamples = 0]
    BY <1>2, <2>1 DEF Interrupt, GoodHistory, HistoryState
  <2>5. h.settleStamp \in Nat
    BY DEF GoodHistory, HistoryState
  <2> HIDE DEF r, b
  <2>6. GoodHistory([h EXCEPT !.steps[h.pending] = r, !.pending = h.pending,
                              !.blocked = b, !.settleStamp = h.settleStamp,
                              !.settleSamples = 0])
    BY <1>2, <2>2, <2>3, <2>5, RewritePending
  <2>7. QED
    BY <2>4, <2>6
<1>3. QED
  BY <1>1, <1>2
\* So does a restart (History::restart).
LEMMA RestartGood == ASSUME NEW h, GoodHistory(h) PROVE GoodHistory(Restart(h))
<1> DEFINE i == Interrupt(h)
<1>1. GoodHistory(i)
  BY InterruptGood
<1> HIDE DEF i
<1>2. GoodHistory([i EXCEPT !.settleStamp = 0, !.settleSamples = 0])
  BY <1>1 DEF GoodHistory, HistoryState
<1>3. QED
  BY <1>2 DEF Restart, i

\* Retiring a motion keeps a history good (History::retire).
LEMMA RetireGood ==
  ASSUME NEW h, GoodHistory(h), NEW x \in BOOLEAN PROVE GoodHistory(Retire(h, x))
<1>1. CASE ~x \/ h.pending = None
  BY <1>1, InterruptGood DEF Retire
<1>2. CASE x /\ h.pending # None
  <2> DEFINE r == [h.steps[h.pending] EXCEPT !.outcome = "AwaitingStop"]
  <2>1. h.pending \in StepKey /\ h.steps[h.pending] \in MotionRecord
    BY <1>2, PendingRecord
  <2>2. r \in MotionRecord
    BY <2>1 DEF MotionRecord, MotionOutcome
  <2>3. Retire(h, x) = [h EXCEPT !.steps[h.pending] = r, !.pending = h.pending,
                                 !.blocked = h.blocked, !.settleStamp = 0,
                                 !.settleSamples = 0]
    BY <1>2, <2>1 DEF Retire, GoodHistory, HistoryState
  <2>4. h.blocked \in Nat
    BY DEF GoodHistory, HistoryState
  <2> HIDE DEF r
  <2>5. GoodHistory([h EXCEPT !.steps[h.pending] = r, !.pending = h.pending,
                              !.blocked = h.blocked, !.settleStamp = 0,
                              !.settleSamples = 0])
    BY <1>2, <2>2, <2>4, RewritePending
  <2>6. QED
    BY <2>3, <2>5
<1>3. QED
  BY <1>1, <1>2

\* Observing a world moves the floor only (History::observe).
LEMMA ObserveGood ==
  ASSUME NEW h, GoodHistory(h), NEW w, w.rev \in Nat, w.step \in StepKey
  PROVE  GoodHistory(Observe(h, w))
  BY DEF Observe, GoodHistory, HistoryState

\* A reservation is the pending motion, with a record (History::reserve).
LEMMA ReserveGood ==
  ASSUME NEW h, GoodHistory(h), NEW rev \in Nat, NEW k \in StepKey,
         NEW start \in Nat, NEW len \in Nat
  PROVE  GoodHistory(Reserve(h, rev, k, start, len))
<1> DEFINE kept == IF rev > h.epoch THEN [j \in StepKey |-> None] ELSE h.steps
           r    == [rev |-> rev, started |-> start, end |-> start + len,
                    outcome |-> "Reserved", stopped |-> FALSE]
           m    == Larger(h.epoch, rev)
<1>1. kept \in [StepKey -> MotionRecord \cup {None}]
  BY DEF GoodHistory, HistoryState
<1>2. r \in MotionRecord
  BY DEF MotionRecord, MotionOutcome
<1>3. m \in Nat
  BY LargerType DEF GoodHistory, HistoryState
<1>4. Reserve(h, rev, k, start, len) =
        [h EXCEPT !.steps = [kept EXCEPT ![k] = r], !.epoch = m, !.pending = k,
                  !.settleSamples = 0, !.settleStamp = 0]
  BY DEF Reserve
<1> HIDE DEF kept, r, m
<1>5. /\ [kept EXCEPT ![k] = r] \in [StepKey -> MotionRecord \cup {None}]
      /\ [kept EXCEPT ![k] = r][k] # None
  BY <1>1, <1>2, NoneAssumption
<1>6. ASSUME NEW s \in [StepKey -> MotionRecord \cup {None}], s[k] # None
      PROVE  GoodHistory([h EXCEPT !.steps = s, !.epoch = m, !.pending = k,
                                   !.settleSamples = 0, !.settleStamp = 0])
  BY <1>3, <1>6 DEF GoodHistory, HistoryState
<1>7. QED
  BY <1>4, <1>5, <1>6

\* Evidence of a stop keeps a history good (History::observe_stop).
LEMMA ObserveStopGood ==
  ASSUME NEW h, GoodHistory(h), NEW w, w.stamp \in Nat, NEW t, NEW c \in BOOLEAN
  PROVE  GoodHistory(ObserveStop(h, w, t, c))
<1>1. CASE h.pending = None
  BY <1>1 DEF ObserveStop
<1>2. CASE h.pending # None
  <2> DEFINE r == h.steps[h.pending]
             n == h.settleSamples + 1
             reached == /\ r.outcome = "AwaitingStop"
                        /\ w.stamp >= r.end /\ w.rev = r.rev /\ w.step = h.pending
                        /\ w.joints = "goal"
             s == [r EXCEPT !.outcome = IF reached THEN "MotionSettled" ELSE "Interrupted",
                            !.stopped = TRUE]
             b == IF reached THEN h.blocked ELSE Larger(h.blocked, r.rev)
  <2>1. h.pending \in StepKey /\ r \in MotionRecord
    BY <1>2, PendingRecord
  <2>2. s \in MotionRecord
    BY <2>1 DEF MotionRecord, MotionOutcome
  <2>3. b \in Nat /\ n \in Nat
    <3>1. h.blocked \in Nat /\ h.settleSamples \in Nat /\ r.rev \in Nat
      BY <2>1 DEF GoodHistory, HistoryState, MotionRecord
    <3> HIDE DEF r, reached
    <3>2. Larger(h.blocked, r.rev) \in Nat
      BY <3>1, LargerType
    <3>3. QED
      BY <3>1, <3>2
  <2>4. GoodHistory([h EXCEPT !.settleSamples = 0])
    BY DEF GoodHistory, HistoryState
  <2>5. GoodHistory([h EXCEPT !.settleStamp = w.stamp, !.settleSamples = 0])
    BY DEF GoodHistory, HistoryState
  <2>6. GoodHistory([h EXCEPT !.settleStamp = w.stamp, !.settleSamples = n])
    BY <2>3 DEF GoodHistory, HistoryState
  <2>7. \/ ObserveStop(h, w, t, c) \in
             { h, [h EXCEPT !.settleSamples = 0],
               [h EXCEPT !.settleStamp = w.stamp, !.settleSamples = 0],
               [h EXCEPT !.settleStamp = w.stamp, !.settleSamples = n] }
        \/ ObserveStop(h, w, t, c) =
             [[h EXCEPT !.settleStamp = w.stamp, !.settleSamples = n]
                EXCEPT !.steps[h.pending] = s,
                       !.blocked = IF reached THEN @ ELSE Larger(@, r.rev),
                       !.pending = None]
    BY <1>2 DEF ObserveStop
  <2>8. [[h EXCEPT !.settleStamp = w.stamp, !.settleSamples = n]
           EXCEPT !.steps[h.pending] = s,
                  !.blocked = IF reached THEN @ ELSE Larger(@, r.rev),
                  !.pending = None]
        = [h EXCEPT !.steps[h.pending] = s, !.pending = None, !.blocked = b,
                    !.settleStamp = w.stamp, !.settleSamples = n]
    BY DEF GoodHistory, HistoryState
  <2> HIDE DEF r, n, reached, s, b
  <2>9. GoodHistory([h EXCEPT !.steps[h.pending] = s, !.pending = None, !.blocked = b,
                              !.settleStamp = w.stamp, !.settleSamples = n])
    BY <1>2, <2>2, <2>3, RewritePending
  <2>10. QED
    BY <2>4, <2>5, <2>6, <2>7, <2>8, <2>9
<1>3. QED
  BY <1>1, <1>2

-----------------------------------------------------------------------------
(* What a checkpoint promises.  Validate asks for less than the methods     *)
(* keep: a task epoch has at most one consumed step, because a revision     *)
(* names one step, and a newer revision retires the older epoch's.          *)

\* The record of a consumed step.
SoundRecord(h, k) ==
  /\ h.epoch > 0
  /\ h.steps[k].rev = h.epoch
  /\ h.steps[k].started <= h.steps[k].end
  /\ h.steps[k].end - h.steps[k].started <= MaxDuration
  /\ Unresolved(h.steps[k]) => h.pending = k
  /\ h.steps[k].outcome = "MotionSettled" => h.steps[k].stopped
  /\ h.pending = k => ~h.steps[k].stopped
  /\ h.floor = h.epoch => h.floorStep = k

Sound(h) ==
  /\ GoodHistory(h)
  /\ h.epoch <= h.floor
  /\ h.blocked <= h.floor
  /\ h.epoch > 0 => Consumed(h) # {}
  /\ \A k \in Consumed(h) : SoundRecord(h, k)
  /\ \A j, k \in Consumed(h) : j = k

\* No counter that refuses a revision goes back.
Above(g, h) == g.floor >= h.floor /\ g.epoch >= h.epoch /\ g.blocked >= h.blocked

\* What interrupting, retiring and forgetting samples do to a history.
Follows(g, h) ==
  /\ Sound(g) /\ Above(g, h)
  /\ g.pending = h.pending /\ g.floor = h.floor /\ g.floorStep = h.floorStep /\ g.epoch = h.epoch

\* A sound history passes the test of a checkpoint (History::validate).
LEMMA SoundValidates == ASSUME NEW h, Sound(h) PROVE Validate(h)
<1>1. h.floor \in Nat /\ h.epoch \in Nat
  BY DEF Sound, GoodHistory, HistoryState
<1>2. Cardinality(Consumed(h)) <= MaxSteps
  <2>1. CASE Consumed(h) = {}
    BY <2>1, FS_EmptySet, HistoryAssumption
  <2>2. CASE Consumed(h) # {}
    <3>1. PICK k : k \in Consumed(h)
      BY <2>2
    <3>2. \A j \in Consumed(h) : j = k
      BY <3>1 DEF Sound
    <3>3. Consumed(h) = {k}
      BY <3>1, <3>2
    <3>4. Cardinality({k}) = 1
      BY FS_Singleton
    <3>5. Cardinality(Consumed(h)) = 1
      BY <3>3, <3>4
    <3>6. QED
      BY <3>5, HistoryAssumption
  <2>3. QED
    BY <2>1, <2>2
<1>3. h.pending # None => h.pending \in Consumed(h)
  BY DEF Sound, GoodHistory, HistoryState, Consumed
<1>4. h.floor = 0 => Consumed(h) = {}
  BY <1>1 DEF Sound, SoundRecord
<1>5. QED
  BY <1>2, <1>3, <1>4 DEF Validate, Sound, SoundRecord

LEMMA NewSound == Sound(NewHistory)
BY NewGood DEF Sound, NewHistory, Consumed

\* The three counters are numbers, so that Above is an order.
LEMMA Counted == ASSUME NEW h, Sound(h)
                 PROVE  h.floor \in Nat /\ h.epoch \in Nat /\ h.blocked \in Nat
BY DEF Sound, GoodHistory, HistoryState

LEMMA FollowsItself == ASSUME NEW h, Sound(h) PROVE Follows(h, h) /\ Above(h, h)
BY Counted DEF Follows, Above

LEMMA AboveTransitive ==
  ASSUME NEW f, NEW g, NEW h, Sound(f), Sound(g), Sound(h), Above(g, f), Above(h, g)
  PROVE  Above(h, f)
<1>1. /\ f.floor \in Nat /\ f.epoch \in Nat /\ f.blocked \in Nat
      /\ g.floor \in Nat /\ g.epoch \in Nat /\ g.blocked \in Nat
      /\ h.floor \in Nat /\ h.epoch \in Nat /\ h.blocked \in Nat
  BY Counted
<1>2. QED
  BY <1>1 DEF Above

LEMMA FollowsTransitive ==
  ASSUME NEW f, NEW g, NEW h, Sound(f), Follows(g, f), Follows(h, g)
  PROVE  Follows(h, f)
BY AboveTransitive DEF Follows

\* The pending motion is the one consumed step of the epoch.
LEMMA SoundPending ==
  ASSUME NEW h, Sound(h), h.pending # None
  PROVE  /\ h.pending \in StepKey /\ h.steps[h.pending] \in MotionRecord
         /\ SoundRecord(h, h.pending)
         /\ \A j \in Consumed(h) : j = h.pending
<1>1. h.pending \in StepKey /\ h.steps[h.pending] \in MotionRecord
  BY PendingRecord DEF Sound
<1>2. h.pending \in Consumed(h)
  BY <1>1, NoneAssumption DEF Consumed
<1>3. QED
  BY <1>1, <1>2 DEF Sound

\* Rewriting the record of the pending motion is all that interrupting, retiring
\* and resolving it do; it stays pending, or it is measured to have stopped.
Rewritten(h, r, p, b, st, sa) ==
  [h EXCEPT !.steps[h.pending] = r, !.pending = p, !.blocked = b,
            !.settleStamp = st, !.settleSamples = sa]

LEMMA RewriteSound ==
  ASSUME NEW h, Sound(h), h.pending # None, NEW r \in MotionRecord,
         r.rev = h.epoch, r.started = h.steps[h.pending].started, r.end = h.steps[h.pending].end,
         r.outcome = "MotionSettled" => r.stopped,
         r.stopped => r.outcome \in {"MotionSettled", "Interrupted"},
         NEW p, p = IF r.stopped THEN None ELSE h.pending,
         NEW b \in Nat, b >= h.blocked, b <= h.floor, NEW st \in Nat, NEW sa \in Nat
  PROVE  LET g == Rewritten(h, r, p, b, st, sa)
         IN  /\ Sound(g) /\ Above(g, h) /\ g.pending = p
             /\ g.floor = h.floor /\ g.floorStep = h.floorStep /\ g.epoch = h.epoch
<1> DEFINE k == h.pending
           g == Rewritten(h, r, p, b, st, sa)
<1>1. /\ k \in StepKey /\ h.steps[k] \in MotionRecord /\ SoundRecord(h, k)
      /\ \A j \in Consumed(h) : j = k
  BY SoundPending
<1>2. GoodHistory(h) /\ h \in HistoryState
  BY DEF Sound, GoodHistory
<1>3. GoodHistory(g)
  <2>1. p \in {h.pending, None}
    OBVIOUS
  <2>2. QED
    BY <1>2, <2>1, RewritePending DEF Rewritten
<1>4. /\ g.floor = h.floor /\ g.floorStep = h.floorStep /\ g.epoch = h.epoch
      /\ g.blocked = b /\ g.pending = p
      /\ g.steps = [h.steps EXCEPT ![k] = r]
  BY <1>2 DEF HistoryState, Rewritten
<1> HIDE DEF g
<1>5. /\ g.steps[k] = r /\ \A j \in StepKey : j # k => g.steps[j] = h.steps[j]
  BY <1>1, <1>2, <1>4 DEF HistoryState
<1>6. Consumed(g) = {k}
  BY <1>1, <1>5, NoneAssumption DEF Consumed
<1>7. SoundRecord(g, k)
  <2>1. Unresolved(g.steps[k]) => p = k
    BY <1>5 DEF Unresolved
  <2>2. p = k => ~r.stopped
    BY <1>1, HistoryAssumption
  <2>3. QED
    BY <1>1, <1>4, <1>5, <2>1, <2>2 DEF SoundRecord
<1>8. Sound(g)
  <2>1. g.epoch <= g.floor /\ g.blocked <= g.floor
    BY <1>4 DEF Sound
  <2>2. QED
    BY <1>3, <1>6, <1>7, <2>1 DEF Sound
<1>9. Above(g, h)
  BY <1>4, Counted DEF Above
<1>10. QED
  BY <1>4, <1>8, <1>9 DEF g

\* Setting the samples aside changes nothing a checkpoint is asked for.
LEMMA SettleFollows ==
  ASSUME NEW h, Sound(h), NEW st \in Nat, NEW sa \in Nat
  PROVE  Follows([h EXCEPT !.settleStamp = st, !.settleSamples = sa], h)
<1> DEFINE g == [h EXCEPT !.settleStamp = st, !.settleSamples = sa]
<1>1. h \in HistoryState
  BY DEF Sound, GoodHistory
<1>2. /\ g \in HistoryState /\ g.floor = h.floor /\ g.floorStep = h.floorStep
      /\ g.epoch = h.epoch /\ g.steps = h.steps /\ g.pending = h.pending /\ g.blocked = h.blocked
  BY <1>1 DEF HistoryState
<1> HIDE DEF g
<1>3. GoodHistory(g)
  BY <1>2 DEF Sound, GoodHistory
<1>4. Consumed(g) = Consumed(h) /\ \A k \in Consumed(h) : SoundRecord(g, k)
  BY <1>2 DEF Sound, Consumed, SoundRecord
<1>5. Sound(g)
  BY <1>2, <1>3, <1>4 DEF Sound
<1>6. Above(g, h)
  BY <1>2, Counted DEF Above
<1>7. QED
  BY <1>2, <1>5, <1>6 DEF Follows, g

\* History::interrupt
LEMMA InterruptFollows ==
  ASSUME NEW h, Sound(h) PROVE Follows(Interrupt(h), h)
<1>1. CASE h.pending = None
  BY <1>1, FollowsItself DEF Interrupt
<1>2. CASE h.pending # None
  <2> DEFINE r == [h.steps[h.pending] EXCEPT !.outcome = "Interrupted"]
             b == Larger(h.blocked, h.epoch)
             g == Rewritten(h, r, h.pending, b, h.settleStamp, 0)
  <2>1. /\ h.pending \in StepKey /\ h.steps[h.pending] \in MotionRecord
        /\ SoundRecord(h, h.pending)
    BY <1>2, SoundPending
  <2>2. h \in HistoryState /\ h.settleStamp \in Nat
    BY DEF Sound, GoodHistory, HistoryState
  <2>3. /\ r \in MotionRecord /\ r.rev = h.epoch /\ r.started = h.steps[h.pending].started
        /\ r.end = h.steps[h.pending].end /\ r.outcome = "Interrupted" /\ ~r.stopped
        /\ h.pending = IF r.stopped THEN None ELSE h.pending
    BY <2>1 DEF MotionRecord, MotionOutcome, SoundRecord
  <2>4. b \in Nat /\ b >= h.blocked /\ b <= h.floor
    BY Counted DEF Sound, Larger
  <2>5. Interrupt(h) = g
    <3> HIDE DEF r
    <3>1. Interrupt(h) = [h EXCEPT !.steps[h.pending] = r, !.blocked = b, !.settleSamples = 0]
      BY <1>2, <2>1, <2>2 DEF Interrupt, HistoryState, SoundRecord, r
    <3> HIDE DEF b
    <3>2. QED
      BY <2>2, <3>1 DEF HistoryState, Rewritten
  <2> HIDE DEF r, b
  <2>6. /\ Sound(g) /\ Above(g, h) /\ g.pending = h.pending
        /\ g.floor = h.floor /\ g.floorStep = h.floorStep /\ g.epoch = h.epoch
    BY <1>2, <2>2, <2>3, <2>4, RewriteSound
  <2> HIDE DEF g
  <2>7. QED
    BY <2>5, <2>6 DEF Follows
<1>3. QED
  BY <1>1, <1>2

\* History::restart
LEMMA RestartFollows ==
  ASSUME NEW h, Sound(h) PROVE Follows(Restart(h), h)
<1>1. Follows(Interrupt(h), h) /\ Sound(Interrupt(h))
  BY InterruptFollows DEF Follows
<1>2. Follows(Restart(h), Interrupt(h))
  BY <1>1, SettleFollows DEF Restart
<1>3. QED
  BY <1>1, <1>2, FollowsTransitive

\* History::retire
LEMMA RetireFollows ==
  ASSUME NEW h, Sound(h), NEW x \in BOOLEAN PROVE Follows(Retire(h, x), h)
<1>1. CASE ~x \/ h.pending = None
  BY <1>1, InterruptFollows DEF Retire
<1>2. CASE x /\ h.pending # None
  <2> DEFINE r == [h.steps[h.pending] EXCEPT !.outcome = "AwaitingStop"]
             g == Rewritten(h, r, h.pending, h.blocked, 0, 0)
  <2>1. /\ h.pending \in StepKey /\ h.steps[h.pending] \in MotionRecord
        /\ SoundRecord(h, h.pending)
    BY <1>2, SoundPending
  <2>2. h \in HistoryState
    BY DEF Sound, GoodHistory
  <2>3. /\ r \in MotionRecord /\ r.rev = h.epoch /\ r.started = h.steps[h.pending].started
        /\ r.end = h.steps[h.pending].end /\ r.outcome = "AwaitingStop" /\ ~r.stopped
        /\ h.pending = IF r.stopped THEN None ELSE h.pending
    BY <2>1 DEF MotionRecord, MotionOutcome, SoundRecord
  <2>4. h.blocked \in Nat /\ h.blocked >= h.blocked /\ h.blocked <= h.floor
    BY Counted DEF Sound
  <2>5. Retire(h, x) = g
    <3> HIDE DEF r
    <3>1. Retire(h, x) = [h EXCEPT !.steps[h.pending] = r, !.settleStamp = 0, !.settleSamples = 0]
      BY <1>2, <2>1, <2>2 DEF Retire, HistoryState, r
    <3>2. QED
      BY <2>2, <3>1 DEF HistoryState, Rewritten
  <2> HIDE DEF r
  <2>6. /\ Sound(g) /\ Above(g, h) /\ g.pending = h.pending
        /\ g.floor = h.floor /\ g.floorStep = h.floorStep /\ g.epoch = h.epoch
    BY <1>2, <2>3, <2>4, RewriteSound
  <2> HIDE DEF g
  <2>7. QED
    BY <2>5, <2>6 DEF Follows
<1>3. QED
  BY <1>1, <1>2

\* History::observe of a world that check_world has let through: the floor rises,
\* and with it the step it names, or neither changes.
LEMMA ObserveSound ==
  ASSUME NEW h, Sound(h), NEW w, w.rev \in Nat, w.step \in StepKey, WorldAllowed(h, w)
  PROVE  LET g == Observe(h, w)
         IN  /\ Sound(g) /\ Above(g, h) /\ g.pending = h.pending /\ g.epoch = h.epoch
             /\ w.rev # 0 => g.floor = w.rev /\ g.floorStep = w.step
<1>1. CASE w.rev = 0
  BY <1>1, FollowsItself DEF Observe
<1>2. CASE w.rev # 0
  <2> DEFINE g == [h EXCEPT !.floor = w.rev, !.floorStep = w.step]
  <2>1. h \in HistoryState
    BY DEF Sound, GoodHistory
  <2>2. /\ g \in HistoryState /\ g.floor = w.rev /\ g.floorStep = w.step
        /\ g.epoch = h.epoch /\ g.steps = h.steps /\ g.pending = h.pending /\ g.blocked = h.blocked
    BY <2>1 DEF HistoryState
  <2>3. Observe(h, w) = g
    BY <1>2 DEF Observe
  <2> HIDE DEF g
  <2>4. w.rev >= h.floor /\ (w.rev = h.floor => w.step = h.floorStep)
    BY <1>2 DEF WorldAllowed
  <2>5. /\ h.floor \in Nat /\ h.epoch \in Nat /\ h.blocked \in Nat
        /\ h.epoch <= h.floor /\ h.blocked <= h.floor
    BY Counted DEF Sound
  <2>6. GoodHistory(g)
    BY <2>2 DEF Sound, GoodHistory
  <2>7. Consumed(g) = Consumed(h)
    BY <2>2 DEF Consumed
  <2>8. ASSUME NEW k \in Consumed(h) PROVE SoundRecord(g, k)
    <3>1. SoundRecord(h, k)
      BY DEF Sound
    <3>2. g.floor = g.epoch => g.floorStep = k
      BY <2>2, <2>4, <2>5, <3>1 DEF SoundRecord
    <3>3. QED
      BY <2>2, <3>1, <3>2 DEF SoundRecord
  <2>9. Sound(g)
    BY <2>2, <2>4, <2>5, <2>6, <2>7, <2>8 DEF Sound
  <2>10. QED
    BY <2>2, <2>3, <2>4, <2>5, <2>9 DEF Above
<1>3. QED
  BY <1>1, <1>2

\* History::reserve, as check_admission and household::check_proposal let it be
\* called: for the revision and the step of the floor.  The epoch's own step is
\* consumed, so the revision is newer than the epoch.
LEMMA ReserveSound ==
  ASSUME NEW h, Sound(h), NEW rev \in Nat \ {0}, NEW k \in StepKey, NEW start \in Nat,
         NEW len \in 0..MaxDuration, AdmissionAllowed(h, rev, k), rev = h.floor, k = h.floorStep
  PROVE  LET g == Reserve(h, rev, k, start, len)
         IN  /\ Sound(g) /\ Above(g, h) /\ rev > h.epoch
             /\ g.pending = k /\ g.epoch = rev /\ g.floor = h.floor /\ g.floorStep = h.floorStep
<1> DEFINE r    == [rev |-> rev, started |-> start, end |-> start + len,
                    outcome |-> "Reserved", stopped |-> FALSE]
           none == [j \in StepKey |-> None]
           s    == [none EXCEPT ![k] = r]
           g    == [h EXCEPT !.steps = s, !.epoch = rev, !.pending = k,
                             !.settleSamples = 0, !.settleStamp = 0]
<1>1. /\ h.floor \in Nat /\ h.epoch \in Nat /\ h.blocked \in Nat
      /\ h.epoch <= h.floor /\ h.blocked <= h.floor /\ h \in HistoryState
  BY Counted DEF Sound, GoodHistory
<1>2. rev > h.epoch
  <2>1. SUFFICES ASSUME rev = h.epoch PROVE FALSE
    BY <1>1
  <2>2. h.epoch > 0 /\ k \notin Consumed(h)
    BY <1>1, <2>1 DEF AdmissionAllowed
  <2>3. PICK j : j \in Consumed(h)
    BY <2>2 DEF Sound
  <2>4. SoundRecord(h, j)
    BY <2>3 DEF Sound
  <2>5. j = k
    BY <2>1, <2>4 DEF SoundRecord
  <2>6. QED
    BY <2>2, <2>3, <2>5
<1>3. Reserve(h, rev, k, start, len) = g
  <2>1. Larger(h.epoch, rev) = rev /\ (IF rev > h.epoch THEN none ELSE h.steps) = none
    BY <1>1, <1>2 DEF Larger
  <2> HIDE DEF none
  <2>2. QED
    BY <2>1 DEF Reserve, none
<1>4. GoodHistory(g)
  <2>1. GoodHistory(h) /\ len \in Nat /\ rev \in Nat
    BY HistoryAssumption DEF Sound
  <2>2. GoodHistory(Reserve(h, rev, k, start, len))
    BY <2>1, ReserveGood
  <2> HIDE DEF g
  <2>3. QED
    BY <1>3, <2>2
<1>5. r \in MotionRecord /\ r # None
  <2>1. start + len \in Nat /\ rev \in Nat
    BY HistoryAssumption
  <2>2. r \in MotionRecord
    BY <2>1 DEF MotionRecord, MotionOutcome
  <2> HIDE DEF r
  <2>3. QED
    BY <2>2, NoneAssumption
<1>6. /\ r.rev = rev /\ r.started <= r.end /\ r.end - r.started <= MaxDuration
      /\ r.outcome = "Reserved" /\ ~r.stopped
  BY HistoryAssumption
<1> HIDE DEF r
<1>7. s[k] = r /\ \A j \in StepKey : s[j] # None => j = k
  BY <1>5
<1> HIDE DEF s
<1>8. /\ g.steps = s /\ g.epoch = rev /\ g.pending = k /\ g.floor = h.floor
      /\ g.floorStep = h.floorStep /\ g.blocked = h.blocked
  BY <1>1 DEF HistoryState
<1> HIDE DEF g
<1>9. Consumed(g) = {k}
  BY <1>5, <1>7, <1>8 DEF Consumed
<1>10. SoundRecord(g, k)
  BY <1>6, <1>7, <1>8 DEF SoundRecord, Unresolved
<1>11. Sound(g)
  BY <1>1, <1>4, <1>8, <1>9, <1>10 DEF Sound
<1>12. QED
  BY <1>1, <1>2, <1>3, <1>8, <1>11 DEF Above

\* History::observe_stop: samples only, until the second still one resolves the
\* motion that is pending; and none at all while a cancellation is under way.
LEMMA ObserveStopSound ==
  ASSUME NEW h, Sound(h), NEW w, w.stamp \in Nat, NEW t, NEW c \in BOOLEAN
  PROVE  LET g == ObserveStop(h, w, t, c)
         IN  /\ Sound(g) /\ Above(g, h)
             /\ g.floor = h.floor /\ g.floorStep = h.floorStep /\ g.epoch = h.epoch
             /\ c => g = h
<1>1. CASE h.pending = None
  BY <1>1, FollowsItself DEF ObserveStop
<1>2. CASE h.pending # None
  <2> DEFINE q == h.steps[h.pending]
             n == h.settleSamples + 1
             reached == /\ q.outcome = "AwaitingStop"
                        /\ w.stamp >= q.end /\ w.rev = q.rev /\ w.step = h.pending
                        /\ w.joints = "goal"
             r == [q EXCEPT !.outcome = IF reached THEN "MotionSettled" ELSE "Interrupted",
                            !.stopped = TRUE]
             b == IF reached THEN h.blocked ELSE Larger(h.blocked, q.rev)
             g == ObserveStop(h, w, t, c)
  <2>1. h.pending \in StepKey /\ q \in MotionRecord /\ SoundRecord(h, h.pending)
    BY <1>2, SoundPending
  <2>2. h \in HistoryState /\ h.settleStamp \in Nat /\ h.settleSamples \in Nat /\ n \in Nat
    BY DEF Sound, GoodHistory, HistoryState
  <2>3. /\ r \in MotionRecord /\ r.rev = h.epoch /\ r.started = q.started /\ r.end = q.end
        /\ r.outcome \in {"MotionSettled", "Interrupted"} /\ r.stopped
        /\ None = IF r.stopped THEN None ELSE h.pending
    BY <2>1 DEF MotionRecord, MotionOutcome, SoundRecord
  <2>4. b \in Nat /\ b >= h.blocked /\ b <= h.floor
    <3>1. q.rev = h.epoch
      BY <2>1 DEF SoundRecord
    <3> HIDE DEF q, reached
    <3>2. QED
      BY <3>1, Counted DEF Sound, Larger
  <2>5. \/ g \in { h, [h EXCEPT !.settleSamples = 0],
                   [h EXCEPT !.settleStamp = w.stamp, !.settleSamples = 0],
                   [h EXCEPT !.settleStamp = w.stamp, !.settleSamples = n] }
        \/ g = [[h EXCEPT !.settleStamp = w.stamp, !.settleSamples = n]
                  EXCEPT !.steps[h.pending] = r,
                         !.blocked = IF reached THEN @ ELSE Larger(@, q.rev),
                         !.pending = None]
    BY <1>2 DEF ObserveStop
  <2>6. [[h EXCEPT !.settleStamp = w.stamp, !.settleSamples = n]
           EXCEPT !.steps[h.pending] = r,
                  !.blocked = IF reached THEN @ ELSE Larger(@, q.rev),
                  !.pending = None]
        = Rewritten(h, r, None, b, w.stamp, n)
    BY <2>2 DEF HistoryState, Rewritten
  <2>7. [h EXCEPT !.settleSamples = 0] = [h EXCEPT !.settleStamp = h.settleStamp, !.settleSamples = 0]
    BY <2>2 DEF HistoryState
  <2>8. c => g = h
    BY <1>2 DEF ObserveStop
  <2> HIDE DEF g, r, b, n, reached
  <2>9. CASE g = Rewritten(h, r, None, b, w.stamp, n)
    <3>1. r.outcome = "MotionSettled" => r.stopped
      BY <2>3
    <3>2. QED
      BY <1>2, <2>2, <2>3, <2>4, <2>8, <2>9, <3>1, RewriteSound DEF g
  <2>10. CASE Follows(g, h)
    BY <2>8, <2>10 DEF Follows, g
  <2>11. g = h => Follows(g, h)
    BY FollowsItself
  <2>12. /\ Follows([h EXCEPT !.settleSamples = 0], h)
         /\ Follows([h EXCEPT !.settleStamp = w.stamp, !.settleSamples = 0], h)
         /\ Follows([h EXCEPT !.settleStamp = w.stamp, !.settleSamples = n], h)
    <3>1. Follows([h EXCEPT !.settleStamp = h.settleStamp, !.settleSamples = 0], h)
      BY <2>2, SettleFollows
    <3>2. QED
      BY <2>2, <2>7, <3>1, SettleFollows
  <2>13. QED
    BY <2>5, <2>6, <2>9, <2>10, <2>11, <2>12 DEF g
<1>3. QED
  BY <1>1, <1>2

-----------------------------------------------------------------------------
(* The enforcer: what every method keeps.                                   *)

Good(e) ==
  /\ e \in Enforcer
  /\ GoodHistory(e.hist)
  /\ ~(e.active # None /\ e.arm # None)
  /\ e.cancelling => e.active = None /\ e.arm = None /\ e.armed = {}
  /\ e.active # None => e.active.src \in e.armed
  /\ e.cancelPending => e.cancelling

Live(e) == e.arm # None \/ e.cancelPending

-----------------------------------------------------------------------------
(* The methods.                                                            *)

\* Clearing drops every authority and owes a cancel for a trajectory
\* (lib.rs clear_active_with_completion).
LEMMA ClearGood ==
  ASSUME NEW e, Good(e), NEW x \in BOOLEAN, NEW t \in Nat
  PROVE  LET c == ClearActive(e, x, t)
         IN  /\ Good(c) /\ c.active = None /\ c.arm = None /\ Live(c) = Live(e)
             /\ c.world = e.world /\ c.mode = e.mode
             /\ c.stateOk = e.stateOk /\ c.recorderOk = e.recorderOk
             /\ e.arm # None => c.cancelPending
             /\ e.arm = None => /\ c.armed = e.armed /\ c.cancelling = e.cancelling
                                /\ c.cancelPending = e.cancelPending
<1> DEFINE h == Retire(e.hist, x)
           d == [e EXCEPT !.hist = h, !.active = None, !.arm = None]
<1>1. GoodHistory(h) /\ h \in HistoryState
  BY RetireGood DEF Good, GoodHistory
<1>2. e \in Enforcer
  BY DEF Good
<1> HIDE DEF h
<1>3. /\ d \in Enforcer /\ d.hist = h /\ d.active = None /\ d.arm = None
      /\ d.world = e.world /\ d.mode = e.mode /\ d.armed = e.armed
      /\ d.stateOk = e.stateOk /\ d.recorderOk = e.recorderOk
      /\ d.cancelling = e.cancelling /\ d.cancelPending = e.cancelPending
  BY <1>1, <1>2 DEF Enforcer
<1>4. CASE e.arm = None
  <2>1. ClearActive(e, x, t) = d
    BY <1>4 DEF ClearActive, h
  <2>2. Good(d)
    BY <1>1, <1>3 DEF Good
  <2>3. QED
    BY <1>3, <1>4, <2>1, <2>2 DEF Live
<1>5. CASE e.arm # None
  <2> DEFINE c == [d EXCEPT !.cancelPending = TRUE, !.cancelling = TRUE,
                            !.cancelSince = t, !.settle = 0, !.armed = {}]
  <2>1. ClearActive(e, x, t) = c
    BY <1>5 DEF ClearActive, h
  <2> HIDE DEF d
  <2>2. /\ c \in Enforcer /\ c.hist = h /\ c.active = None /\ c.arm = None
        /\ c.world = e.world /\ c.mode = e.mode /\ c.armed = {}
        /\ c.stateOk = e.stateOk /\ c.recorderOk = e.recorderOk
        /\ c.cancelling /\ c.cancelPending
    BY <1>3 DEF Enforcer
  <2>3. Good(c)
    BY <1>1, <2>2 DEF Good
  <2>4. QED
    BY <1>5, <2>1, <2>2, <2>3 DEF Live
<1>6. QED
  BY <1>4, <1>5

\* A refusal clears, and disarms every source.
LEMMA DropGood ==
  ASSUME NEW e, Good(e), NEW t \in Nat
  PROVE  LET c == Drop(e, t)
         IN  /\ Good(c) /\ c.active = None /\ c.arm = None /\ Live(c) = Live(e)
             /\ c.world = e.world /\ c.mode = e.mode
             /\ e.arm # None => c.cancelPending
<1> DEFINE c == ClearActive(e, FALSE, t)
<1>1. /\ Good(c) /\ c.active = None /\ c.arm = None /\ Live(c) = Live(e)
      /\ c.world = e.world /\ c.mode = e.mode
      /\ e.arm # None => c.cancelPending
  BY ClearGood
<1> HIDE DEF c
<1>2. LET d == [c EXCEPT !.armed = {}]
      IN  /\ d \in Enforcer /\ d.hist = c.hist /\ d.active = c.active /\ d.arm = c.arm
          /\ d.world = c.world /\ d.mode = c.mode /\ d.armed = {}
          /\ d.cancelling = c.cancelling /\ d.cancelPending = c.cancelPending
  BY <1>1 DEF Good, Enforcer
<1>3. QED
  BY <1>1, <1>2 DEF Drop, Disarm, c, Good, Live
\* The gate approves a speed between zero and the limit of the policy.
LEMMA JudgeType ==
  ASSUME NEW e \in Enforcer, NEW s, NEW a \in 1..MaxSpeed, NEW t \in Nat
  PROVE  JudgeVelocity(e, s, a, t) \in 0..MaxSpeed /\ JudgeVelocity(e, s, a, t) <= a
<1>1. MaxSpeed \in Nat /\ MaxSpeed \div 2 \in 0..MaxSpeed
  BY EnforcerAssumption
<1>2. ASSUME Fresh(e, t) PROVE e.world.cap \in 0..MaxSpeed
  BY <1>2 DEF Fresh, Enforcer, World
<1>3. \A x, y \in 0..MaxSpeed : Smaller(x, y) \in 0..MaxSpeed /\ Smaller(x, y) <= x
  BY <1>1 DEF Smaller
<1>4. a \in 0..MaxSpeed /\ MaxSpeed \in 0..MaxSpeed /\ 0 \in 0..MaxSpeed /\ 0 <= a
  BY <1>1
<1>5. CASE ~Fresh(e, t) \/ StopOnly(e.mode) \/ Household \/ s \notin AllowedSource
  BY <1>4, <1>5 DEF JudgeVelocity
<1>6. CASE ~(~Fresh(e, t) \/ StopOnly(e.mode) \/ Household \/ s \notin AllowedSource)
  <2> DEFINE lim == IF e.mode = Caution THEN MaxSpeed \div 2 ELSE MaxSpeed
             m   == Smaller(a, e.world.cap)
  <2>1. lim \in 0..MaxSpeed
    BY <1>1, <1>4
  <2>2. m \in 0..MaxSpeed /\ m <= a
    BY <1>2, <1>3, <1>4, <1>6
  <2>3. JudgeVelocity(e, s, a, t) = Smaller(m, lim)
    BY <1>6 DEF JudgeVelocity
  <2> HIDE DEF lim, m
  <2>4. Smaller(m, lim) \in 0..MaxSpeed /\ Smaller(m, lim) <= m
    BY <1>3, <2>1, <2>2
  <2>5. QED
    BY <1>1, <2>2, <2>3, <2>4
<1>7. QED
  BY <1>5, <1>6

\* Monitoring keeps the trajectory or drops it (lib.rs rejudge).
LEMMA RejudgeArmGood ==
  ASSUME NEW e, Good(e), NEW t \in Nat
  PROVE  LET r == RejudgeArm(e, t)
         IN  /\ Good(r.enf) /\ Live(r.enf) = Live(e) /\ r.enf.world = e.world
             /\ r.forced \in {"Revoked", None}
             /\ r = [enf |-> r.enf, forced |-> r.forced]
  BY DropGood DEF RejudgeArm

\* So does judging the base command again.
LEMMA RejudgeBaseGood ==
  ASSUME NEW e, Good(e), NEW t \in Nat, NEW f \in {"Revoked", None}
  PROVE  LET r == RejudgeBase([enf |-> e, forced |-> f], t)
         IN  /\ Good(r.enf) /\ Live(r.enf) = Live(e) /\ r.enf.world = e.world
             /\ r.forced \in {"Revoked", None}
<1> DEFINE r == [enf |-> e, forced |-> f]
           j == JudgeVelocity(e, e.active.src, e.active.ask, t)
           v == Smaller(e.active.approved, j)
<1>1. RejudgeBase(r, t) \in
        {r, [r EXCEPT !.enf.active.approved = v], [enf |-> Drop(e, t), forced |-> "Revoked"]}
  BY DEF RejudgeBase
<1>2. ASSUME e.active # None, j > 0
      PROVE  LET g == [e EXCEPT !.active.approved = v]
             IN  Good(g) /\ Live(g) = Live(e) /\ g.world = e.world
  <2>1. e \in Enforcer /\ e.active \in Active
    BY <1>2 DEF Good, Enforcer
  <2>2. e.active.ask \in 1..MaxSpeed /\ e.active.approved \in 1..MaxSpeed
    BY <2>1 DEF Active
  <2>3. j \in 0..MaxSpeed
    BY <2>1, <2>2, JudgeType
  <2> HIDE DEF j
  <2>4. v \in 1..MaxSpeed
    BY <1>2, <2>2, <2>3 DEF Smaller
  <2> HIDE DEF v
  <2>5. LET a == [e.active EXCEPT !.approved = v]
        IN  a \in Active /\ a.src = e.active.src
    BY <2>1, <2>4 DEF Active
  <2>6. ASSUME NEW a \in Active, a.src = e.active.src
        PROVE  LET g == [e EXCEPT !.active = a]
               IN  Good(g) /\ Live(g) = Live(e) /\ g.world = e.world
    <3> DEFINE g == [e EXCEPT !.active = a]
    <3>1. /\ g \in Enforcer /\ g.active = a /\ g.hist = e.hist /\ g.arm = e.arm
          /\ g.armed = e.armed /\ g.cancelling = e.cancelling /\ g.world = e.world
          /\ g.cancelPending = e.cancelPending
      BY <2>1 DEF Enforcer
    <3>2. QED
      BY <1>2, <2>6, <3>1 DEF Good, Live
  <2>7. QED
    BY <2>5, <2>6
<1>3. CASE e.active # None /\ j > 0
  <2>1. [r EXCEPT !.enf.active.approved = v].enf = [e EXCEPT !.active.approved = v]
    OBVIOUS
  <2>2. [r EXCEPT !.enf.active.approved = v].forced = f
    OBVIOUS
  <2>3. Good([e EXCEPT !.active.approved = v])
        /\ Live([e EXCEPT !.active.approved = v]) = Live(e)
        /\ [e EXCEPT !.active.approved = v].world = e.world
    BY <1>2, <1>3
  <2> DEFINE q == [r EXCEPT !.enf.active.approved = v]
  <2>4. CASE RejudgeBase(r, t) = q
    <3> HIDE DEF q
    <3>1. Good(q.enf) /\ Live(q.enf) = Live(e) /\ q.enf.world = e.world /\ q.forced = f
      BY <2>1, <2>2, <2>3 DEF q
    <3>2. QED
      BY <2>4, <3>1
  <2>5. CASE RejudgeBase(r, t) \in {r, [enf |-> Drop(e, t), forced |-> "Revoked"]}
    BY <2>5, DropGood
  <2>6. QED
    BY <1>1, <2>4, <2>5
<1>4. CASE ~(e.active # None /\ j > 0)
  <2>1. RejudgeBase(r, t) \in {r, [enf |-> Drop(e, t), forced |-> "Revoked"]}
    BY <1>4 DEF RejudgeBase
  <2> HIDE DEF v, j
  <2>2. QED
    BY <2>1, DropGood
<1>5. QED
  BY <1>3, <1>4

\* Judging again keeps what every method keeps.
LEMMA RejudgeGood ==
  ASSUME NEW e, Good(e), NEW t \in Nat
  PROVE  LET r == Rejudge(e, t)
         IN  /\ Good(r.enf) /\ Live(r.enf) = Live(e) /\ r.enf.world = e.world
             /\ r.forced \in StopReason \cup {None}
<1> DEFINE a == RejudgeArm(e, t)
<1>1. /\ Good(a.enf) /\ Live(a.enf) = Live(e) /\ a.enf.world = e.world
      /\ a.forced \in {"Revoked", None} /\ a = [enf |-> a.enf, forced |-> a.forced]
  BY RejudgeArmGood
<1> HIDE DEF a
<1>2. LET r == RejudgeBase([enf |-> a.enf, forced |-> a.forced], t)
      IN  /\ Good(r.enf) /\ Live(r.enf) = Live(a.enf) /\ r.enf.world = a.enf.world
          /\ r.forced \in {"Revoked", None}
  BY <1>1, RejudgeBaseGood
<1>3. "Revoked" \in StopReason
  BY DEF StopReason
<1>4. Rejudge(e, t) = RejudgeBase([enf |-> a.enf, forced |-> a.forced], t)
  BY <1>1 DEF Rejudge, a
<1>5. QED
  BY <1>1, <1>2, <1>3, <1>4

\* Counting still samples can only end a cancellation whose cancel was sent: an
\* enforcer that still owes it has not counted any
\* (lib.rs update_arm_settle).
LEMMA SettleGood ==
  ASSUME NEW e, Good(e), e.cancelPending => e.settle = 0, e.world \in World
  PROVE  LET c == UpdateArmSettle(e)
         IN  Good(c) /\ Live(c) = Live(e) /\ c.world = e.world
<1>1. e \in Enforcer /\ e.world.stamp \in Nat /\ e.settle \in Nat
  BY DEF Good, Enforcer, World
<1>2. UpdateArmSettle(e) \in
        { e,
          [e EXCEPT !.lastSettle = e.world.stamp, !.settle = e.settle + 1,
                    !.cancelling = e.settle + 1 < 2],
          [e EXCEPT !.lastSettle = e.world.stamp, !.settle = 0] }
      /\ (UpdateArmSettle(e) # e => e.cancelling)
  BY DEF UpdateArmSettle
<1>3. ASSUME NEW n \in Nat, NEW m \in Nat, NEW b \in BOOLEAN, e.cancelling,
             e.cancelPending => b
      PROVE  LET c == [e EXCEPT !.lastSettle = n, !.settle = m, !.cancelling = b]
             IN  Good(c) /\ Live(c) = Live(e) /\ c.world = e.world
  <2> DEFINE c == [e EXCEPT !.lastSettle = n, !.settle = m, !.cancelling = b]
  <2>1. /\ c \in Enforcer /\ c.active = e.active /\ c.hist = e.hist /\ c.arm = e.arm
        /\ c.armed = e.armed /\ c.world = e.world /\ c.cancelPending = e.cancelPending
        /\ c.cancelling = b
    BY <1>1, <1>3 DEF Enforcer
  <2>2. QED
    BY <1>3, <2>1 DEF Good, Live
<1>4. [e EXCEPT !.lastSettle = e.world.stamp, !.settle = 0] =
        [e EXCEPT !.lastSettle = e.world.stamp, !.settle = 0, !.cancelling = e.cancelling]
  BY <1>1 DEF Enforcer
<1>5. e.settle + 1 \in Nat /\ (e.settle + 1 < 2) \in BOOLEAN /\ e.cancelling \in BOOLEAN
  BY <1>1 DEF Enforcer
<1> DEFINE c1 == [e EXCEPT !.lastSettle = e.world.stamp, !.settle = e.settle + 1,
                           !.cancelling = e.settle + 1 < 2]
           c2 == [e EXCEPT !.lastSettle = e.world.stamp, !.settle = 0,
                           !.cancelling = e.cancelling]
<1>6. e.cancelling => Good(c1) /\ Live(c1) = Live(e) /\ c1.world = e.world
  <2>1. e.cancelPending => e.settle + 1 < 2
    OBVIOUS
  <2>2. QED
    BY <1>1, <1>3, <1>5, <2>1
<1>7. e.cancelling => Good(c2) /\ Live(c2) = Live(e) /\ c2.world = e.world
  BY <1>1, <1>3, <1>5
<1> HIDE DEF c1, c2
<1>8. UpdateArmSettle(e) \in {e, c1, c2} /\ (UpdateArmSettle(e) # e => e.cancelling)
  BY <1>2, <1>4 DEF c1, c2
<1>9. QED
  BY <1>6, <1>7, <1>8
\* The reason of a stop is one of the enumeration, or None.
LEMMA StopForType ==
  ASSUME NEW e, Good(e), NEW t, NEW f \in StopReason \cup {None}
  PROVE  /\ StopFor(e, t, f) \in StopReason \cup {None}
         /\ f = None /\ e.arm # None =>
              StopFor(e, t, f) \in Withdrawing \cup {"Expired", None}
<1>1. IdleReason(e) \in StopReason
  BY DEF IdleReason, StopReason
<1>2. e.arm # None => ~e.cancelling
  BY DEF Good
<1>3. {"StateFault", "RecorderFault", "Mode", "ArmSettling", "NoWorld", "StaleWorld",
       "Expired"} \subseteq StopReason
  BY DEF StopReason
<1>4. QED
  BY <1>1, <1>2, <1>3 DEF StopFor, Withdrawing

\* Withdrawing an authority clears or drops it (lib.rs output).
LEMMA WithdrawGood ==
  ASSUME NEW e, Good(e), NEW t \in Nat, NEW reason
  PROVE  LET c == Withdraw(e, reason, t)
         IN  /\ Good(c) /\ Live(c) = Live(e) /\ c.world = e.world
             /\ reason \in Withdrawing \cup {"Expired"} /\ e.arm # None => c.cancelPending
             /\ reason = None => c = e
<1>1. (e.arm # None /\ e.arm.expires >= e.arm.end) \in BOOLEAN
  OBVIOUS
<1>2. CASE reason \in Withdrawing
  <2>1. reason # None
    BY <1>2, StopAssumption DEF Withdrawing, StopReason
  <2>2. QED
    BY <1>2, <2>1, DropGood DEF Withdraw
<1>3. CASE reason = "Expired"
  <2>1. reason # None /\ reason \notin Withdrawing
    BY <1>3, StopAssumption DEF Withdrawing, StopReason
  <2> DEFINE x == e.arm # None /\ e.arm.expires >= e.arm.end
  <2>2. Withdraw(e, reason, t) = ClearActive(e, x, t)
    BY <1>3, <2>1 DEF Withdraw
  <2> HIDE DEF x
  <2>3. x \in BOOLEAN
    BY <1>1 DEF x
  <2>4. QED
    BY <2>1, <2>2, <2>3, ClearGood
<1>4. CASE reason \notin Withdrawing \cup {"Expired"}
  BY <1>4 DEF Withdraw
<1>5. QED
  BY <1>2, <1>3, <1>4

\* What a call returns, and what it leaves behind: a cancel whenever one is owed,
\* and otherwise a wire that agrees with the authority (lib.rs output).
LEMMA OutputGood ==
  ASSUME NEW e, Good(e), NEW t \in Nat, NEW f \in StopReason \cup {None},
         NEW x \in BOOLEAN, NEW k \in BOOLEAN
  PROVE  LET o == Output(e, t, f, x, k)
         IN  /\ Good(o.enf) /\ ~o.enf.cancelPending /\ o.enf.world = e.world
             /\ o.step \in Step /\ o.step.ack = k
             /\ o.step.arm = "cancel" => o.enf.arm = None
             /\ o.step.arm = "none" => (Live(e) <=> o.enf.arm # None)
             /\ o.step.arm = "execute" => x /\ o.enf.arm = e.arm
             /\ f = None /\ e.arm # None /\ x => o.step.arm # "none"
<1> DEFINE reason == StopFor(e, t, f)
           left   == Withdraw(e, reason, t)
           o      == Output(e, t, f, x, k)
           g      == [left EXCEPT !.cancelPending = FALSE, !.lastStop = reason]
           cmd    == IF reason = None /\ left.active # None THEN left.active.approved ELSE 0
           arm    == IF left.cancelPending THEN "cancel"
                     ELSE IF reason = None /\ x THEN "execute" ELSE "none"
<1>1. /\ reason \in StopReason \cup {None}
      /\ f = None /\ e.arm # None => reason \in Withdrawing \cup {"Expired", None}
  BY StopForType
<1> HIDE DEF reason
<1>2. /\ Good(left) /\ Live(left) = Live(e) /\ left.world = e.world
      /\ reason \in Withdrawing \cup {"Expired"} /\ e.arm # None => left.cancelPending
      /\ reason = None => left = e
  BY WithdrawGood
<1> HIDE DEF left
<1>3. o.enf = g /\ o.step = [at |-> t, cmd |-> cmd, arm |-> arm, stop |-> reason, ack |-> k]
  BY DEF Output, reason, left
<1> HIDE DEF o
<1>4. /\ g \in Enforcer /\ g.active = left.active /\ g.hist = left.hist
      /\ g.arm = left.arm /\ g.armed = left.armed /\ g.world = left.world
      /\ g.cancelling = left.cancelling /\ g.cancelPending = FALSE
  BY <1>1, <1>2 DEF Good, Enforcer
<1>5. Good(g)
  BY <1>2, <1>4 DEF Good
<1>6. cmd \in 0..MaxSpeed
  BY <1>2, EnforcerAssumption DEF Good, Enforcer, Active
<1>7. arm \in {"none", "execute", "cancel"}
  OBVIOUS
<1> HIDE DEF cmd, g
<1>8. o.step \in Step /\ o.step.ack = k /\ o.step.arm = arm
  <2> HIDE DEF arm
  <2>1. QED
    BY <1>1, <1>3, <1>6, <1>7 DEF Step
<1>9. left.cancelPending => left.arm = None
  BY <1>2 DEF Good
<1>10. arm = "cancel" => g.arm = None
  BY <1>4, <1>9
<1>11. arm = "none" => (Live(e) <=> g.arm # None)
  BY <1>2, <1>4 DEF Live
<1>12. arm = "execute" => x /\ g.arm = e.arm
  BY <1>2, <1>4
<1>13. f = None /\ e.arm # None /\ x => arm # "none"
  BY <1>1, <1>2
<1> HIDE DEF arm
<1>14. QED
  BY <1>2, <1>3, <1>4, <1>5, <1>8, <1>10, <1>11, <1>12, <1>13 DEF o

-----------------------------------------------------------------------------
(* The durable history and the mode.  Only the handlers themselves observe,  *)
(* reserve, take stop evidence or raise the mode; what they call does not.   *)

Kept(e, c) == c.mode = e.mode /\ Follows(c.hist, e.hist)

LEMMA KeptTransitive ==
  ASSUME NEW d, NEW e, NEW f, Sound(d.hist), Kept(d, e), Kept(e, f)
  PROVE  Kept(d, f)
<1>1. Follows(f.hist, d.hist)
  BY FollowsTransitive DEF Kept
<1>2. QED
  BY <1>1 DEF Kept

LEMMA KeptItself == ASSUME NEW e, Sound(e.hist) PROVE Kept(e, e)
BY FollowsItself DEF Kept

\* Clearing retires the motion that is pending (lib.rs clear_active).
LEMMA ClearKeeps ==
  ASSUME NEW e, Good(e), Sound(e.hist), NEW x \in BOOLEAN, NEW t \in Nat
  PROVE  Kept(e, ClearActive(e, x, t))
<1> DEFINE h == Retire(e.hist, x)
<1>1. e \in Enforcer /\ Follows(h, e.hist)
  BY RetireFollows DEF Good
<1>2. ClearActive(e, x, t).hist = h /\ ClearActive(e, x, t).mode = e.mode
  <2> HIDE DEF h
  <2>1. Retire(e.hist, x) = h
    BY DEF h
  <2>2. QED
    BY <1>1, <2>1 DEF ClearActive, Enforcer
<1>3. QED
  BY <1>1, <1>2 DEF Kept

LEMMA DropKeeps ==
  ASSUME NEW e, Good(e), Sound(e.hist), NEW t \in Nat
  PROVE  Kept(e, Drop(e, t))
<1> DEFINE c == ClearActive(e, FALSE, t)
<1>1. Kept(e, c) /\ c \in Enforcer
  BY ClearKeeps, ClearGood DEF Good
<1> HIDE DEF c
<1>2. [c EXCEPT !.armed = {}].hist = c.hist /\ [c EXCEPT !.armed = {}].mode = c.mode
  BY <1>1 DEF Enforcer
<1>3. Drop(e, t) = [c EXCEPT !.armed = {}]
  BY DEF Drop, Disarm, c
<1>4. QED
  BY <1>1, <1>2, <1>3 DEF Kept

LEMMA RejudgeKeeps ==
  ASSUME NEW e, Good(e), Sound(e.hist), NEW t \in Nat
  PROVE  Kept(e, Rejudge(e, t).enf)
<1> DEFINE a == RejudgeArm(e, t)
           d == a.enf
           v == Smaller(d.active.approved, JudgeVelocity(d, d.active.src, d.active.ask, t))
           r == RejudgeBase(a, t)
<1>1. Kept(e, d)
  BY KeptItself, DropKeeps DEF RejudgeArm
<1>2. Good(d) /\ a = [enf |-> a.enf, forced |-> a.forced]
  BY RejudgeArmGood
<1>3. Sound(d.hist)
  BY <1>1 DEF Kept, Follows
<1> HIDE DEF a
<1>4. r \in {a, [a EXCEPT !.enf.active.approved = v], [enf |-> Drop(d, t), forced |-> "Revoked"]}
  BY DEF RejudgeBase
<1>5. [a EXCEPT !.enf.active.approved = v].enf = [d EXCEPT !.active.approved = v]
  BY <1>2
<1>6. Kept(d, [d EXCEPT !.active.approved = v])
  <2>1. d \in Enforcer
    BY <1>2 DEF Good
  <2> HIDE DEF v, d
  <2>2. [d EXCEPT !.active.approved = v].hist = d.hist /\ [d EXCEPT !.active.approved = v].mode = d.mode
    BY <2>1 DEF Enforcer
  <2>3. QED
    BY <1>3, <2>2, FollowsItself DEF Kept
<1>7. Kept(d, Drop(d, t)) /\ Kept(d, d)
  BY <1>2, <1>3, DropKeeps, KeptItself
<1>8. Kept(d, r.enf)
  <2> HIDE DEF v, r
  <2>1. CASE r = a
    BY <1>7, <2>1
  <2>2. CASE r = [a EXCEPT !.enf.active.approved = v]
    BY <1>5, <1>6, <2>2
  <2>3. CASE r = [enf |-> Drop(d, t), forced |-> "Revoked"]
    BY <1>7, <2>3
  <2>4. QED
    BY <1>4, <2>1, <2>2, <2>3
<1>9. Rejudge(e, t) = r
  BY DEF Rejudge, a
<1> HIDE DEF d, r
<1>10. QED
  BY <1>1, <1>8, <1>9, KeptTransitive

LEMMA SettleKeeps ==
  ASSUME NEW e \in Enforcer, Sound(e.hist)
  PROVE  Kept(e, UpdateArmSettle(e))
<1>1. UpdateArmSettle(e).hist = e.hist /\ UpdateArmSettle(e).mode = e.mode
  BY DEF UpdateArmSettle, Enforcer
<1>2. QED
  BY <1>1, FollowsItself DEF Kept

\* What output withdraws is retired too; a motion goes out only in a mode that
\* lets motion out, and never together with a cancel.
LEMMA OutputKeeps ==
  ASSUME NEW e, Good(e), Sound(e.hist), NEW t \in Nat, NEW f \in StopReason \cup {None},
         NEW x \in BOOLEAN, NEW k \in BOOLEAN
  PROVE  LET o == Output(e, t, f, x, k)
         IN  /\ Kept(e, o.enf)
             /\ o.step.arm = "execute" => ~StopOnly(e.mode)
             /\ o.step.arm = "cancel" => o.step.cmd = 0
<1> DEFINE reason == StopFor(e, t, f)
           left   == Withdraw(e, reason, t)
           g      == [left EXCEPT !.cancelPending = FALSE, !.lastStop = reason]
           o      == Output(e, t, f, x, k)
<1>1. Kept(e, left) /\ Good(left) /\ (reason = None => left = e)
  <2>1. (e.arm # None /\ e.arm.expires >= e.arm.end) \in BOOLEAN
    OBVIOUS
  <2>2. Kept(e, left)
    BY <2>1, KeptItself, DropKeeps, ClearKeeps DEF Withdraw
  <2>3. QED
    BY <2>2, WithdrawGood
<1>2. reason = None => ~StopOnly(e.mode)
  <2>1. None \notin {"StateFault", "RecorderFault", "Mode"}
    BY StopAssumption DEF StopReason
  <2>2. QED
    BY <2>1 DEF StopFor
<1>3. /\ o.enf = g
      /\ o.step.cmd = IF reason = None /\ left.active # None THEN left.active.approved ELSE 0
      /\ o.step.arm = IF left.cancelPending THEN "cancel"
                      ELSE IF reason = None /\ x THEN "execute" ELSE "none"
  BY DEF Output
<1> HIDE DEF o, reason, left
<1>4. g.hist = left.hist /\ g.mode = left.mode
  BY <1>1 DEF Good, Enforcer
<1>5. o.step.arm = "cancel" => o.step.cmd = 0
  BY <1>1, <1>3 DEF Good
<1>6. o.step.arm = "execute" => ~StopOnly(e.mode)
  BY <1>2, <1>3
<1>7. Kept(e, o.enf)
  BY <1>1, <1>3, <1>4 DEF Kept
<1>8. QED
  BY <1>5, <1>6, <1>7 DEF o

-----------------------------------------------------------------------------
(* What a method takes away.  Between the input and the output of a call the *)
(* authority only shrinks: c is what is left of e at time t.                *)

\* Nothing is learnt or repaired on the way.
SameView(c, e) ==
  /\ c.world = e.world /\ c.mode = e.mode /\ c.lastSettle = e.lastSettle
  /\ c.stateOk = e.stateOk /\ c.recorderOk = e.recorderOk

\* A base command is kept, slowed down or dropped, never renewed.
Slower(c, e) ==
  c.active # None =>
    /\ e.active # None
    /\ c.active.src = e.active.src /\ c.active.ask = e.active.ask
    /\ c.active.expires = e.active.expires
    /\ c.active.approved <= e.active.approved

\* A trajectory is kept, or dropped for a cancellation that starts now.
Unwound(c, e, t) ==
  \/ /\ c.arm = e.arm /\ c.cancelling = e.cancelling /\ c.cancelPending = e.cancelPending
     /\ c.cancelSince = e.cancelSince /\ c.settle = e.settle
  \/ /\ e.arm # None /\ c.arm = None /\ c.cancelling = TRUE /\ c.cancelPending = TRUE
     /\ c.cancelSince = t /\ c.settle = 0

Left(c, e, t) ==
  SameView(c, e) /\ Slower(c, e) /\ Unwound(c, e, t) /\ c.armed \subseteq e.armed

Idle(e) == e.active = None /\ e.arm = None

\* The approved speed of an active command is a number.
LEMMA ApprovedType ==
  ASSUME NEW e, Good(e), e.active # None
  PROVE  /\ e.active \in Active /\ e.active.approved \in Nat /\ e.active.expires \in Nat
         /\ e.active.approved > 0
<1>1. e.active \in Active
  BY DEF Good, Enforcer
<1>2. QED
  BY <1>1, EnforcerAssumption DEF Active

LEMMA LeftItself == ASSUME NEW e, Good(e), NEW t PROVE Left(e, e, t)
<1>1. Slower(e, e)
  BY ApprovedType DEF Slower
<1>2. QED
  BY <1>1 DEF Left, SameView, Unwound

LEMMA LeftTransitive ==
  ASSUME NEW d, NEW e, NEW f, NEW t, Good(d), Good(e), Good(f), Left(e, d, t), Left(f, e, t)
  PROVE  Left(f, d, t)
<1>1. Slower(f, d)
  BY ApprovedType DEF Left, Slower
<1>2. SameView(f, d) /\ f.armed \subseteq d.armed
  BY DEF Left, SameView
<1>3. Unwound(f, d, t)
  BY DEF Left, Unwound
<1>4. QED
  BY <1>1, <1>2, <1>3 DEF Left

\* Clearing leaves nothing authorised (lib.rs clear_active).
LEMMA ClearLeaves ==
  ASSUME NEW e, Good(e), NEW x \in BOOLEAN, NEW t \in Nat
  PROVE  Left(ClearActive(e, x, t), e, t)
<1> DEFINE h == Retire(e.hist, x)
           c == ClearActive(e, x, t)
<1>1. e \in Enforcer
  BY DEF Good
<1>2. c = IF e.arm = None
            THEN [e EXCEPT !.hist = h, !.active = None, !.arm = None]
            ELSE [[e EXCEPT !.hist = h, !.active = None, !.arm = None]
                    EXCEPT !.cancelPending = TRUE, !.cancelling = TRUE, !.cancelSince = t,
                           !.settle = 0, !.armed = {}]
  <2> DEFINE d == [e EXCEPT !.hist = h, !.active = None, !.arm = None]
  <2>1. d = [e EXCEPT !.hist = Retire(e.hist, x), !.active = None, !.arm = None]
    OBVIOUS
  <2>2. QED
    BY <2>1 DEF ClearActive
<1> HIDE DEF h, c
<1>3. SameView(c, e) /\ c.active = None
  BY <1>1, <1>2 DEF SameView, Enforcer
<1>4. c.armed \subseteq e.armed
  BY <1>1, <1>2 DEF Enforcer
<1>5. Unwound(c, e, t)
  BY <1>1, <1>2 DEF Unwound, Enforcer
<1>6. QED
  BY <1>3, <1>4, <1>5 DEF Left, Slower, c

LEMMA DropLeaves ==
  ASSUME NEW e, Good(e), NEW t \in Nat
  PROVE  Left(Drop(e, t), e, t) /\ Idle(Drop(e, t)) /\ Drop(e, t).armed = {}
<1> DEFINE c == ClearActive(e, FALSE, t)
           d == [c EXCEPT !.armed = {}]
<1>1. Left(c, e, t) /\ c \in Enforcer /\ Idle(c)
  BY ClearLeaves, ClearGood DEF Good, Idle
<1> HIDE DEF c
<1>2. /\ d.armed = {} /\ d.active = c.active /\ d.arm = c.arm /\ d.world = c.world
      /\ d.mode = c.mode /\ d.lastSettle = c.lastSettle /\ d.stateOk = c.stateOk
      /\ d.recorderOk = c.recorderOk /\ d.cancelling = c.cancelling
      /\ d.cancelPending = c.cancelPending /\ d.cancelSince = c.cancelSince
      /\ d.settle = c.settle
  BY <1>1 DEF Enforcer
<1>3. Drop(e, t) = d
  BY DEF Drop, Disarm, c
<1> HIDE DEF d
<1>4. SameView(d, e) /\ Slower(d, e)
  BY <1>1, <1>2 DEF Left, SameView, Slower, Idle
<1>5. Unwound(d, e, t)
  BY <1>1, <1>2 DEF Left, Unwound
<1>6. QED
  BY <1>1, <1>2, <1>3, <1>4, <1>5 DEF Left, Idle

-----------------------------------------------------------------------------
(* Judging again.  What is still authorised afterwards is within what the    *)
(* gate allows at t, unless it has expired, and unless the output is going   *)
(* to stop everything anyway.                                               *)

Motive(e, t) == Fresh(e, t) /\ ~StopOnly(e.mode)

JudgedBase(e, t) ==
  e.active # None /\ Motive(e, t) /\ t < e.active.expires =>
    e.active.approved <= JudgeVelocity(e, e.active.src, e.active.ask, t)

JudgedArm(e, t) ==
  e.arm # None /\ Motive(e, t) /\ t < e.arm.expires => MonitorArm(e, t)

Judged(e, t) == JudgedBase(e, t) /\ JudgedArm(e, t)

\* The gate looks at the world and at the mode.
LEMMA SameJudgement ==
  ASSUME NEW c, NEW e, NEW t, SameView(c, e)
  PROVE  /\ Motive(c, t) = Motive(e, t)
         /\ \A s, a : JudgeVelocity(c, s, a, t) = JudgeVelocity(e, s, a, t)
         /\ c.arm = e.arm => MonitorArm(c, t) = MonitorArm(e, t)
<1>1. c.world = e.world /\ c.mode = e.mode
  BY DEF SameView
<1>2. Fresh(c, t) = Fresh(e, t)
  BY <1>1 DEF Fresh
<1>3. Motive(c, t) = Motive(e, t)
  BY <1>1, <1>2 DEF Motive
<1>4. \A s, a : JudgeVelocity(c, s, a, t) = JudgeVelocity(e, s, a, t)
  BY <1>1, <1>2 DEF JudgeVelocity
<1>5. c.arm = e.arm => MonitorArm(c, t) = MonitorArm(e, t)
  BY <1>1 DEF MonitorArm
<1>6. QED
  BY <1>3, <1>4, <1>5

\* Taking more away keeps the judgement.
LEMMA LeftJudged ==
  ASSUME NEW c, NEW e, NEW t \in Nat, Good(c), Good(e), Left(c, e, t)
  PROVE  (JudgedArm(e, t) => JudgedArm(c, t)) /\ (JudgedBase(e, t) => JudgedBase(c, t))
<1>1. /\ Motive(c, t) = Motive(e, t)
      /\ \A s, a : JudgeVelocity(c, s, a, t) = JudgeVelocity(e, s, a, t)
      /\ c.arm = e.arm => MonitorArm(c, t) = MonitorArm(e, t)
  BY SameJudgement DEF Left
<1>2. c.arm # None => c.arm = e.arm
  BY DEF Left, Unwound
<1>3. JudgedArm(e, t) => JudgedArm(c, t)
  BY <1>1, <1>2 DEF JudgedArm
<1>4. ASSUME JudgedBase(e, t), c.active # None, Motive(c, t), t < c.active.expires
      PROVE  c.active.approved <= JudgeVelocity(c, c.active.src, c.active.ask, t)
  <2>1. /\ e.active # None /\ c.active.src = e.active.src /\ c.active.ask = e.active.ask
        /\ c.active.expires = e.active.expires /\ c.active.approved <= e.active.approved
    BY <1>4 DEF Left, Slower
  <2> DEFINE j == JudgeVelocity(e, e.active.src, e.active.ask, t)
  <2>2. e.active.approved <= j
    BY <1>1, <1>4, <2>1 DEF JudgedBase
  <2>3. j \in Nat
    <3>1. e \in Enforcer /\ e.active \in Active
      BY <2>1, ApprovedType DEF Good
    <3>2. j \in 0..MaxSpeed
      BY <3>1, JudgeType DEF Active
    <3>3. QED
      BY <3>2, EnforcerAssumption
  <2>4. j = JudgeVelocity(c, c.active.src, c.active.ask, t)
    BY <1>1, <2>1
  <2> HIDE DEF j
  <2>5. c.active.approved \in Nat /\ e.active.approved \in Nat
    BY <1>4, <2>1, ApprovedType
  <2>6. QED
    BY <2>1, <2>2, <2>3, <2>4, <2>5
<1>5. QED
  BY <1>3, <1>4 DEF JudgedBase

\* The executing trajectory (lib.rs rejudge, its first half).
LEMMA RejudgeArmLeaves ==
  ASSUME NEW e, Good(e), NEW t \in Nat
  PROVE  LET r == RejudgeArm(e, t)
         IN  /\ Left(r.enf, e, t) /\ JudgedArm(r.enf, t)
             /\ r.forced # None => Idle(r.enf) /\ r.enf.armed = {}
<1> DEFINE bad == /\ e.arm # None /\ t < e.arm.expires
                  /\ ~StopOnly(e.mode) /\ Fresh(e, t)
                  /\ ~MonitorArm(e, t)
<1>1. CASE bad
  <2> DEFINE d == Drop(e, t)
  <2>1. Left(d, e, t) /\ Idle(d) /\ d.armed = {}
    BY DropLeaves
  <2>2. RejudgeArm(e, t) = [enf |-> d, forced |-> "Revoked"]
    BY <1>1 DEF RejudgeArm
  <2> HIDE DEF d
  <2>3. JudgedArm(d, t)
    BY <2>1 DEF Idle, JudgedArm
  <2>4. QED
    BY <2>1, <2>2, <2>3
<1>2. CASE ~bad
  <2>1. RejudgeArm(e, t) = [enf |-> e, forced |-> None]
    BY <1>2 DEF RejudgeArm
  <2>2. JudgedArm(e, t)
    BY <1>2 DEF JudgedArm, Motive
  <2>3. Left(e, e, t)
    BY LeftItself
  <2>4. QED
    BY <2>1, <2>2, <2>3
<1>3. QED
  BY <1>1, <1>2

\* The base command (its second half).
LEMMA RejudgeBaseLeaves ==
  ASSUME NEW e, Good(e), NEW t \in Nat, NEW f \in {"Revoked", None},
         f # None => Idle(e) /\ e.armed = {}
  PROVE  LET r == RejudgeBase([enf |-> e, forced |-> f], t)
         IN  /\ Left(r.enf, e, t) /\ JudgedBase(r.enf, t)
             /\ r.forced # None => Idle(r.enf) /\ r.enf.armed = {}
<1> DEFINE r == [enf |-> e, forced |-> f]
           j == JudgeVelocity(e, e.active.src, e.active.ask, t)
           still == e.active = None \/ ~Fresh(e, t) \/ StopOnly(e.mode) \/ t >= e.active.expires
<1>1. CASE still
  <2>1. RejudgeBase(r, t) = r
    BY <1>1 DEF RejudgeBase
  <2>2. JudgedBase(e, t)
    <3>1. e.active # None => e.active.expires \in Nat
      BY ApprovedType
    <3>2. QED
      BY <1>1, <3>1 DEF JudgedBase, Motive
  <2>3. Left(e, e, t)
    BY LeftItself
  <2>4. QED
    BY <2>1, <2>2, <2>3
<1>2. CASE ~still /\ ~(j > 0)
  <2> DEFINE d == Drop(e, t)
  <2>1. Left(d, e, t) /\ Idle(d) /\ d.armed = {}
    BY DropLeaves
  <2>2. RejudgeBase(r, t) = [enf |-> d, forced |-> "Revoked"]
    BY <1>2 DEF RejudgeBase
  <2> HIDE DEF d
  <2>3. JudgedBase(d, t)
    BY <2>1 DEF Idle, JudgedBase
  <2>4. QED
    BY <2>1, <2>2, <2>3
<1>3. CASE ~still /\ j > 0
  <2> DEFINE v == Smaller(e.active.approved, j)
             a == [e.active EXCEPT !.approved = v]
             g == [e EXCEPT !.active = a]
  <2>1. /\ e \in Enforcer /\ e.active \in Active /\ e.active.approved \in Nat
        /\ e.active # None
    BY <1>3, ApprovedType DEF Good
  <2>2. j \in 0..MaxSpeed
    BY <2>1, JudgeType DEF Active
  <2>3. RejudgeBase(r, t) = [enf |-> [e EXCEPT !.active.approved = v], forced |-> f]
    <3>1. RejudgeBase(r, t) = [r EXCEPT !.enf.active.approved = v]
      BY <1>3 DEF RejudgeBase
    <3> HIDE DEF v, j
    <3>2. QED
      BY <3>1
  <2> HIDE DEF j
  <2>4. v <= e.active.approved /\ v <= j
    BY <2>1, <2>2, EnforcerAssumption DEF Smaller
  <2> HIDE DEF v
  <2>5. /\ a.src = e.active.src /\ a.ask = e.active.ask /\ a.expires = e.active.expires
        /\ a.approved = v
    BY <2>1 DEF Active
  <2>6. g = [e EXCEPT !.active.approved = v]
    BY <2>1
  <2> HIDE DEF a
  <2>7. /\ g.active = a /\ g.world = e.world /\ g.mode = e.mode
        /\ g.lastSettle = e.lastSettle /\ g.stateOk = e.stateOk
        /\ g.recorderOk = e.recorderOk /\ g.armed = e.armed /\ g.arm = e.arm
        /\ g.cancelling = e.cancelling /\ g.cancelPending = e.cancelPending
        /\ g.cancelSince = e.cancelSince /\ g.settle = e.settle
    BY <2>1 DEF Enforcer
  <2>8. RejudgeBase(r, t) = [enf |-> g, forced |-> f]
    BY <2>3, <2>6
  <2> HIDE DEF g
  <2>9. SameView(g, e)
    BY <2>7 DEF SameView
  <2>10. Left(g, e, t)
    BY <2>1, <2>4, <2>5, <2>7, <2>9 DEF Left, Slower, Unwound
  <2>11. JudgedBase(g, t)
    <3>1. JudgeVelocity(g, g.active.src, g.active.ask, t) = j
      BY <2>5, <2>7, <2>9, SameJudgement DEF j
    <3>2. QED
      BY <2>4, <2>5, <2>7, <3>1 DEF JudgedBase
  <2>12. f = None
    BY <2>1 DEF Idle
  <2>13. QED
    BY <2>8, <2>10, <2>11, <2>12
<1>4. QED
  BY <1>1, <1>2, <1>3

\* Both: what is left is judged, and a revocation leaves nothing.
LEMMA RejudgeLeaves ==
  ASSUME NEW e, Good(e), NEW t \in Nat
  PROVE  LET r == Rejudge(e, t)
         IN  /\ Left(r.enf, e, t) /\ Judged(r.enf, t)
             /\ r.forced # None => Idle(r.enf) /\ r.enf.armed = {}
<1> DEFINE a == RejudgeArm(e, t)
           r == Rejudge(e, t)
<1>1. /\ Left(a.enf, e, t) /\ JudgedArm(a.enf, t)
      /\ a.forced # None => Idle(a.enf) /\ a.enf.armed = {}
  BY RejudgeArmLeaves
<1>2. Good(a.enf) /\ a.forced \in {"Revoked", None} /\ a = [enf |-> a.enf, forced |-> a.forced]
  BY RejudgeArmGood
<1>3. r = RejudgeBase(a, t)
  BY DEF Rejudge
<1> HIDE DEF a, r
<1>4. r = RejudgeBase([enf |-> a.enf, forced |-> a.forced], t)
  BY <1>2, <1>3
<1>5. /\ Left(r.enf, a.enf, t) /\ JudgedBase(r.enf, t)
      /\ r.forced # None => Idle(r.enf) /\ r.enf.armed = {}
  BY <1>1, <1>2, <1>4, RejudgeBaseLeaves
<1>6. Good(r.enf)
  BY RejudgeGood DEF r
<1>7. Left(r.enf, e, t)
  BY <1>1, <1>2, <1>5, <1>6, LeftTransitive
<1>8. JudgedArm(r.enf, t)
  BY <1>1, <1>2, <1>5, <1>6, LeftJudged
<1>9. QED
  BY <1>5, <1>7, <1>8 DEF Judged, r

-----------------------------------------------------------------------------
(* What the output lets through.                                           *)

\* The reason not to stop: nothing is wrong, and there is something to do.
LEMMA ReasonNone ==
  ASSUME NEW e, NEW t, NEW f, StopFor(e, t, f) = None
  PROVE  /\ e.stateOk /\ e.recorderOk /\ Motive(e, t) /\ ~e.cancelling
         /\ ~Expired(e, t) /\ ~Idle(e) /\ f = None
<1>1. None \notin {"StateFault", "RecorderFault", "Mode", "ArmSettling", "NoWorld",
                   "StaleWorld", "Expired"}
  BY StopAssumption DEF StopReason
<1>2. IdleReason(e) # None
  BY StopAssumption DEF IdleReason, StopReason
<1>3. QED
  BY <1>1, <1>2 DEF StopFor, Motive, Idle

\* What takes the authority away also disarms, an expiry and an idle enforcer
\* excepted (lib.rs output).
LEMMA WithdrawLeaves ==
  ASSUME NEW e, Good(e), NEW t \in Nat, NEW f \in StopReason \cup {None},
         f # None => Idle(e) /\ e.armed = {}
  PROVE  LET reason == StopFor(e, t, f)
             left   == Withdraw(e, reason, t)
         IN  /\ Left(left, e, t)
             /\ reason # None => Idle(left)
             /\ reason \notin {None, "NoCommand", "Startup", "Expired"} => left.armed = {}
<1> DEFINE reason == StopFor(e, t, f)
           left   == Withdraw(e, reason, t)
           x      == e.arm # None /\ e.arm.expires >= e.arm.end
           idle   == IdleReason(e)
<1>1. reason \in Withdrawing \cup {None, "Expired", "ArmSettling", idle, f}
  BY DEF StopFor, Withdrawing
<1>2. /\ reason = "ArmSettling" => e.cancelling \/ reason \in {idle, f}
      /\ reason = idle => Idle(e) \/ reason \in Withdrawing \cup {None, "Expired", "ArmSettling", f}
  BY DEF StopFor, Withdrawing, Idle
<1>3. /\ idle \in {"Denied", "Revoked", "Unarmed", "StaleWorld", "NoCommand", "Startup"}
      /\ idle \notin {"NoCommand", "Startup"} => e.armed = {}
  BY DEF IdleReason
<1>4. e.cancelling => Idle(e) /\ e.armed = {}
  BY DEF Good, Idle
<1> HIDE DEF idle, reason
<1>5. CASE reason \in Withdrawing
  <2>1. left = Drop(e, t)
    BY <1>5 DEF Withdraw
  <2>2. QED
    BY <2>1, DropLeaves DEF reason
<1>6. CASE reason = "Expired"
  <2>1. left = ClearActive(e, x, t)
    BY <1>6 DEF Withdraw, Withdrawing
  <2> HIDE DEF x
  <2>2. x \in BOOLEAN
    BY DEF x
  <2>3. QED
    BY <1>6, <2>1, <2>2, ClearLeaves, ClearGood DEF Idle, reason
<1>7. CASE reason \notin Withdrawing \cup {"Expired"}
  <2>1. left = e
    BY <1>7 DEF Withdraw
  <2>2. Left(e, e, t)
    BY LeftItself
  <2>3. reason # None => Idle(e)
    BY <1>1, <1>2, <1>3, <1>4, <1>7
  <2>4. reason \notin {None, "NoCommand", "Startup", "Expired"} => e.armed = {}
    BY <1>1, <1>2, <1>3, <1>4, <1>7
  <2>5. QED
    BY <2>1, <2>2, <2>3, <2>4 DEF reason
<1>8. QED
  BY <1>5, <1>6, <1>7

\* A call that returns a motion found nothing wrong with it, and what it leaves
\* authorised has been judged at the moment it returns (lib.rs output).
LEMMA OutputLeaves ==
  ASSUME NEW e, Good(e), NEW t \in Nat, NEW f \in StopReason \cup {None},
         NEW x \in BOOLEAN, NEW k \in BOOLEAN,
         Judged(e, t), f # None => Idle(e) /\ e.armed = {}
  PROVE  LET o == Output(e, t, f, x, k)
         IN  /\ SameView(o.enf, e) /\ Slower(o.enf, e) /\ o.enf.armed \subseteq e.armed
             /\ o.step.at = t
             /\ o.step.arm = "cancel" =>
                  \/ /\ e.cancelPending /\ o.enf.cancelling = e.cancelling
                     /\ o.enf.cancelSince = e.cancelSince /\ o.enf.settle = e.settle
                  \/ o.enf.cancelling /\ o.enf.cancelSince = t /\ o.enf.settle = 0
             /\ o.step.arm # "cancel" =>
                  /\ ~e.cancelPending /\ o.enf.cancelling = e.cancelling
                  /\ o.enf.cancelSince = e.cancelSince /\ o.enf.settle = e.settle
             /\ o.step.stop \notin {None, "NoCommand", "Startup", "Expired"} =>
                  o.enf.armed = {}
             /\ o.step.cmd > 0 \/ o.step.arm = "execute" =>
                  /\ o.step.stop = None /\ ~o.enf.cancelling
                  /\ e.stateOk /\ e.recorderOk /\ o.enf.armed = e.armed
             /\ o.step.cmd > 0 =>
                  /\ o.enf.active # None /\ o.step.cmd = o.enf.active.approved
                  /\ t < o.enf.active.expires
                  /\ o.step.cmd <= JudgeVelocity(o.enf, o.enf.active.src, o.enf.active.ask, t)
             /\ o.enf.arm # None =>
                  t < o.enf.arm.expires /\ Fresh(o.enf, t) /\ MonitorArm(o.enf, t)
<1> DEFINE reason == StopFor(e, t, f)
           left   == Withdraw(e, reason, t)
           g      == [left EXCEPT !.cancelPending = FALSE, !.lastStop = reason]
           o      == Output(e, t, f, x, k)
<1>1. /\ Left(left, e, t)
      /\ reason # None => Idle(left)
      /\ reason \notin {None, "NoCommand", "Startup", "Expired"} => left.armed = {}
  BY WithdrawLeaves
<1>2. Good(left) /\ (reason = None => left = e)
  BY WithdrawGood
<1>3. reason = None => /\ e.stateOk /\ e.recorderOk /\ Motive(e, t) /\ ~e.cancelling
                       /\ ~Expired(e, t) /\ ~Idle(e) /\ f = None
  BY ReasonNone
<1>4. /\ o.enf = g /\ o.step.at = t /\ o.step.stop = reason
      /\ o.step.cmd = IF reason = None /\ left.active # None THEN left.active.approved ELSE 0
      /\ o.step.arm = IF left.cancelPending THEN "cancel"
                      ELSE IF reason = None /\ x THEN "execute" ELSE "none"
  BY DEF Output
<1> HIDE DEF o, reason, left
<1>5. /\ g.active = left.active /\ g.arm = left.arm /\ g.armed = left.armed
      /\ g.world = left.world /\ g.mode = left.mode /\ g.lastSettle = left.lastSettle
      /\ g.stateOk = left.stateOk /\ g.recorderOk = left.recorderOk
      /\ g.cancelling = left.cancelling /\ g.cancelSince = left.cancelSince
      /\ g.settle = left.settle
  BY <1>2 DEF Good, Enforcer
<1> HIDE DEF g
<1>6. SameView(g, e) /\ Slower(g, e) /\ g.armed \subseteq e.armed
  BY <1>1, <1>5 DEF Left, SameView, Slower
<1>7. Unwound(left, e, t)
  BY <1>1 DEF Left
<1>8. /\ o.step.arm = "cancel" =>
           \/ /\ e.cancelPending /\ g.cancelling = e.cancelling
              /\ g.cancelSince = e.cancelSince /\ g.settle = e.settle
           \/ g.cancelling /\ g.cancelSince = t /\ g.settle = 0
      /\ o.step.arm # "cancel" =>
           /\ ~e.cancelPending /\ g.cancelling = e.cancelling
           /\ g.cancelSince = e.cancelSince /\ g.settle = e.settle
  BY <1>4, <1>5, <1>7 DEF Unwound
<1>9. ASSUME o.step.cmd > 0 \/ o.step.arm = "execute"
      PROVE  /\ reason = None /\ ~g.cancelling
             /\ e.stateOk /\ e.recorderOk /\ g.armed = e.armed
  <2>1. reason = None
    BY <1>4, <1>9
  <2>2. QED
    BY <1>2, <1>3, <1>5, <2>1
<1>10. ASSUME o.step.cmd > 0
       PROVE  /\ g.active # None /\ o.step.cmd = g.active.approved
              /\ t < g.active.expires
              /\ o.step.cmd <= JudgeVelocity(g, g.active.src, g.active.ask, t)
  <2>1. reason = None /\ left = e /\ g.active # None /\ g.active = e.active
    BY <1>2, <1>4, <1>5, <1>10
  <2>2. o.step.cmd = g.active.approved
    BY <1>4, <1>5, <2>1
  <2>3. e.active.expires \in Nat
    BY <2>1, ApprovedType
  <2>4. t < g.active.expires
    BY <1>3, <2>1, <2>3 DEF Expired
  <2>5. g.active.approved <= JudgeVelocity(e, g.active.src, g.active.ask, t)
    BY <1>3, <2>1, <2>4 DEF Judged, JudgedBase
  <2>6. JudgeVelocity(g, g.active.src, g.active.ask, t)
          = JudgeVelocity(e, g.active.src, g.active.ask, t)
    BY <1>6, SameJudgement
  <2>7. QED
    BY <2>1, <2>2, <2>4, <2>5, <2>6
<1>11. ASSUME g.arm # None
       PROVE  t < g.arm.expires /\ Fresh(g, t) /\ MonitorArm(g, t)
  <2>1. reason = None /\ g.arm = e.arm
    BY <1>1, <1>2, <1>5, <1>11 DEF Idle
  <2>2. e.arm.expires \in Nat
    BY <1>11, <2>1 DEF Good, Enforcer, ActiveArm
  <2>3. t < g.arm.expires
    BY <1>3, <1>11, <2>1, <2>2 DEF Expired
  <2>4. MonitorArm(e, t) /\ Motive(e, t)
    BY <1>3, <1>11, <2>1, <2>3 DEF Judged, JudgedArm
  <2>5. Fresh(g, t) /\ MonitorArm(g, t)
    <3>1. MonitorArm(g, t) = MonitorArm(e, t)
      BY <1>6, <2>1, SameJudgement
    <3>2. Fresh(g, t) = Fresh(e, t)
      BY <1>6 DEF SameView, Fresh
    <3>3. QED
      BY <2>4, <3>1, <3>2 DEF Motive
  <2>6. QED
    BY <2>3, <2>5
<1>12. QED
  BY <1>1, <1>4, <1>5, <1>6, <1>8, <1>9, <1>10, <1>11 DEF o
=============================================================================
