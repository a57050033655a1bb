--------------------------- MODULE AdmissionProofs --------------------------
(***************************************************************************)
(* What is put on record and what is let in: the log, which no crash thins   *)
(* (Recorder); signed input, once and in order (AuthLoop); the world, as it  *)
(* was seen (WorldFusion); and proposals, once (Dedup).  For any number of   *)
(* sources, roles, epochs, counters, ids and scans and for any capacity,     *)
(* depth, age, window and distance between seals.                            *)
(*                                                                         *)
(* The log: what a flush writes has a closed form, so that its lines can be  *)
(* reasoned about without induction (DueHolds).  The ring holds the newest   *)
(* records, all that is not committed among them (RingHolds); what an open   *)
(* writer has in its log is older than the ring (LogHolds), which is why     *)
(* appending never repeats or disorders a record; and what was committed     *)
(* without a failure is under a seal, with all that followed it while the    *)
(* window is open (Recorded).                                                *)
(*                                                                         *)
(* Signed input: the argument is in Remembers.  What moved the robot is spent *)
(* on disk (MotionIsDurable), the verifier in memory never knows less than   *)
(* the disk does, and a positive reply in flight names an input that is spent *)
(* in memory, has not moved the robot, and is spent on disk before it is sent. *)
(* AuthLoop implements AtMostOnce.                                           *)
(*                                                                         *)
(* The world: the perception holds its newest frames only, so the history    *)
(* has to be in order and to end in the newest (Kept), and what it no longer *)
(* holds has to be older than all it holds (Covered).                        *)
(*                                                                         *)
(* The window: JudgedOnce is not inductive alone.  An eviction has to take   *)
(* out of seen exactly the key whose id raises the floor, so the queue and   *)
(* the set must agree (WindowConsistent), and what is in the window or is a  *)
(* floor must have been judged (OnlyJudged).                                 *)
(***************************************************************************)
EXTENDS AuthLoop, Dedup, WorldFusion, Recorder, WellFoundedInduction, TLAPS

-----------------------------------------------------------------------------
(* The last place and the greatest element.                                *)

\* A set of places in a queue has a last one (FiniteSetsExt Max).
LEMMA LastPlace ==
  ASSUME NEW n \in Nat, NEW S, S \subseteq 1 .. n, S # {}
  PROVE  Max(S) \in S /\ \A y \in S : y <= Max(S)
<1> DEFINE T == {n - y : y \in S}
<1>1. T \subseteq Nat /\ T # {}
  <2>1. \A y \in S : y \in Int /\ 1 <= y /\ y <= n
    OBVIOUS
  <2>2. \A y \in S : n - y \in Nat
    BY <2>1
  <2>3. QED
    BY <2>2
<1>2. PICK x \in T : \A y \in T : ~(<<y, x>> \in OpToRel(<, Nat))
  BY <1>1, NatLessThanWellFounded, WFMin
<1>3. \A y \in T : ~(y < x)
  BY <1>1, <1>2 DEF OpToRel
<1>4. PICK m \in S : x = n - m
  OBVIOUS
<1>5. \A y \in S : m >= y
  <2>1. ASSUME NEW y \in S PROVE m >= y
    <3>1. n - y \in T /\ ~(n - y < n - m)
      BY <1>3, <1>4
    <3>2. QED
      BY <3>1
  <2>2. QED
    BY <2>1
<1>6. Max(S) \in S /\ \A y \in S : Max(S) >= y
  BY <1>5 DEF Max
<1>7. QED
  BY <1>6

\* The greatest element of a set, once it is known (FiniteSetsExt Max).
LEMMA MaxIs ==
  ASSUME NEW S, S \subseteq Int, NEW m \in S, \A y \in S : y <= m
  PROVE  Max(S) = m
<1>1. \A y \in S : m >= y
  OBVIOUS
<1>2. Max(S) \in S /\ \A y \in S : Max(S) >= y
  BY <1>1 DEF Max
<1>3. Max(S) >= m /\ m >= Max(S) /\ Max(S) \in Int
  BY <1>1, <1>2
<1>4. QED
  BY <1>3

-----------------------------------------------------------------------------
(* The recorder: what a flush writes.                                      *)

\* A multiple of a larger number is larger by at least one more.
LEMMA MultiplesGrow ==
  ASSUME NEW s \in Nat, NEW a \in Nat, NEW b \in Nat, a < b
  PROVE  s * a + s <= s * b
<1>1. PICK d \in Nat : b = a + 1 + d
  <2>1. b - a - 1 \in Nat /\ b = a + 1 + (b - a - 1)
    OBVIOUS
  <2>2. QED
    BY <2>1
<1>2. s * b = s * a + s + s * d
  BY <1>1
<1>3. s * d \in Nat /\ s * a \in Nat
  OBVIOUS
<1>4. QED
  BY <1>2, <1>3

\* Quotient and remainder.
LEMMA Division ==
  ASSUME NEW x \in Nat, NEW t \in Nat \ {0}
  PROVE  /\ x \div t \in Nat /\ x % t \in 0 .. t - 1
         /\ x = t * (x \div t) + (x % t)
  OBVIOUS

\* Quotient and remainder are the only ones.
LEMMA DivisionIs ==
  ASSUME NEW x \in Nat, NEW t \in Nat \ {0}, NEW q \in Nat, NEW r \in 0 .. t - 1, x = t * q + r
  PROVE  x \div t = q /\ x % t = r
<1>1. /\ x \div t \in Nat /\ x % t \in 0 .. t - 1
      /\ x = t * (x \div t) + (x % t)
  BY Division
<1>2. ~(x \div t < q)
  BY <1>1, MultiplesGrow, Z3
<1>3. ~(q < x \div t)
  BY <1>1, MultiplesGrow
<1>4. QED
  BY <1>1, <1>2, <1>3

\* What the places of a flush come to, in quotients and remainders.
LEMMA PlaceIs ==
  ASSUME SachoAssumption, NEW since \in 0 .. SealEvery - 1, NEW i \in Nat
  PROVE  \E q \in Nat, r \in 0 .. SealEvery :
           /\ since + i = SealEvery * q + q + r
           /\ (since + i) % (SealEvery + 1) = r
           /\ Place(since, i) = SealEvery * q + r - since
           /\ Place(since, i) = i - q
<1> DEFINE q == (since + i) \div (SealEvery + 1)
           r == (since + i) % (SealEvery + 1)
<1>1. /\ SealEvery \in Nat \ {0} /\ SealEvery + 1 \in Nat \ {0}
      /\ since \in Nat /\ since + i \in Nat
  BY DEF SachoAssumption
<1>2. /\ q \in Nat /\ r \in 0 .. SealEvery
      /\ since + i = (SealEvery + 1) * q + r
  <2>1. r \in 0 .. (SealEvery + 1) - 1 /\ q \in Nat /\ since + i = (SealEvery + 1) * q + r
    BY <1>1, Division
  <2> HIDE DEF q, r
  <2>2. QED
    BY <2>1, <1>1
<1>3. (SealEvery + 1) * q = SealEvery * q + q
  <2> HIDE DEF q, r
  <2>1. QED
    BY <1>1, <1>2
<1>4. Place(since, i) = i - q
  BY DEF Place
<1> HIDE DEF q, r
<1>5. SealEvery * q \in Nat
  BY <1>1, <1>2
<1>6. Place(since, i) = SealEvery * q + r - since
  BY <1>1, <1>2, <1>3, <1>4, <1>5
<1>7. r = (since + i) % (SealEvery + 1)
  BY DEF r
<1>8. since + i = SealEvery * q + q + r
  BY <1>2, <1>3
<1>9. QED
  BY <1>2, <1>4, <1>6, <1>7, <1>8

\* The lines of a flush: each is a record of the ring or the seal of one, in order, and
\* none is left out.
LEMMA FlushHolds ==
  ASSUME SachoAssumption, NEW since \in 0 .. SealEvery - 1, ring \in Seq(Nat)
  PROVE  /\ Flushed(since) \in Seq(Nat)
         /\ \A i \in DOMAIN Flushed(since) :
              /\ Place(since, i) \in 1 .. Len(ring)
              /\ Flushed(since)[i] = Seal \/ Flushed(since)[i] = ring[Place(since, i)]
         /\ \A i, j \in DOMAIN Flushed(since) :
              i < j /\ Seal \notin {Flushed(since)[i], Flushed(since)[j]} =>
                Place(since, i) < Place(since, j)
         /\ \A k \in 1 .. Len(ring) : \E i \in DOMAIN Flushed(since) :
              Flushed(since)[i] = ring[k]
<1> DEFINE n == Len(ring)
           a == (since + n) \div SealEvery
           b == (since + n) % SealEvery
<1>1. /\ SealEvery \in Nat \ {0} /\ n \in Nat /\ since \in Nat /\ since < SealEvery
      /\ since + n \in Nat
  BY DEF SachoAssumption
<1>2. /\ a \in Nat /\ b \in 0 .. SealEvery - 1
      /\ since + n = SealEvery * a + b
  BY <1>1, Division
<1>3. DOMAIN Flushed(since) = 1 .. n + a
  BY DEF Flushed
<1>4. ASSUME NEW i \in 1 .. n + a
      PROVE  Flushed(since)[i] = IF (since + i) % (SealEvery + 1) = 0 THEN Seal ELSE ring[Place(since, i)]
  BY <1>4 DEF Flushed
<1> HIDE DEF a, b, n
<1>5. ASSUME NEW i \in 1 .. n + a
      PROVE  Place(since, i) \in 1 .. n
  <2>0. i \in Nat
    BY <1>1, <1>2
  <2>1. PICK q \in Nat, r \in 0 .. SealEvery :
           /\ since + i = SealEvery * q + q + r
           /\ (since + i) % (SealEvery + 1) = r
           /\ Place(since, i) = SealEvery * q + r - since
           /\ Place(since, i) = i - q
    BY PlaceIs, <2>0
  <2>2. SealEvery * q \in Nat /\ SealEvery * a \in Nat
    BY <1>1, <1>2
  <2>3. 1 <= Place(since, i)
    <3>1. CASE q = 0
      BY <3>1, <2>1, <1>1, <1>2
    <3>2. CASE 0 < q
      <4>1. SealEvery * 0 + SealEvery <= SealEvery * q
        BY <3>2, <1>1, MultiplesGrow
      <4>2. QED
        BY <4>1, <2>1, <2>2, <1>1
    <3>3. QED
      BY <3>1, <3>2
  <2>4. Place(since, i) <= n
    <3>1. CASE q < a
      <4>1. SealEvery * q + SealEvery <= SealEvery * a
        BY <3>1, <1>1, <1>2, MultiplesGrow
      <4>2. QED
        BY <4>1, <2>1, <2>2, <1>1, <1>2
    <3>2. CASE a <= q
      BY <3>2, <2>1, <1>1, <1>2
    <3>3. QED
      BY <3>1, <3>2, <1>2
  <2>5. QED
    BY <2>1, <2>2, <2>3, <2>4, <1>1
<1>6. ASSUME NEW i \in 1 .. n + a, NEW j \in 1 .. n + a, i < j,
             (since + i) % (SealEvery + 1) # 0, (since + j) % (SealEvery + 1) # 0
      PROVE  Place(since, i) < Place(since, j)
  <2>0. i \in Nat /\ j \in Nat
    BY <1>1, <1>2
  <2>1. PICK q \in Nat, r \in 0 .. SealEvery :
           /\ since + i = SealEvery * q + q + r
           /\ (since + i) % (SealEvery + 1) = r
           /\ Place(since, i) = SealEvery * q + r - since
           /\ Place(since, i) = i - q
    BY PlaceIs, <2>0
  <2>2. PICK p \in Nat, s \in 0 .. SealEvery :
           /\ since + j = SealEvery * p + p + s
           /\ (since + j) % (SealEvery + 1) = s
           /\ Place(since, j) = SealEvery * p + s - since
           /\ Place(since, j) = j - p
    BY PlaceIs, <2>0
  <2>3. SealEvery * q \in Nat /\ SealEvery * p \in Nat /\ 0 < r /\ 0 < s
    BY <1>1, <1>6, <2>1, <2>2
  <2>4. CASE q = p
    BY <2>4, <2>1, <2>2, <2>3, <1>1, <1>6
  <2>5. CASE q < p
    <3>1. SealEvery * q + SealEvery <= SealEvery * p
      BY <2>5, <1>1, MultiplesGrow
    <3>2. \A x, y, e, u, v \in Int : x + e <= y /\ u <= e /\ 0 < v => x + u < y + v
      OBVIOUS
    <3>3. SealEvery * q + r < SealEvery * p + s
      BY <3>1, <3>2, <2>1, <2>2, <2>3, <1>1
    <3>4. QED
      BY <3>3, <2>1, <2>2, <2>3, <1>1
  <2>6. CASE p < q
    <3>1. SealEvery * p + SealEvery <= SealEvery * q
      BY <2>6, <1>1, MultiplesGrow
    <3>2. QED
      BY <3>1, <2>1, <2>2, <2>3, <2>6, <1>1, <1>6
  <2>7. QED
    BY <2>4, <2>5, <2>6
<1>7. ASSUME NEW k \in 1 .. n
      PROVE  \E i \in 1 .. n + a : Flushed(since)[i] = ring[k]
  <2> DEFINE q == (since + k - 1) \div SealEvery
             r == (since + k - 1) % SealEvery
             i == k + q
  <2>1. /\ q \in Nat /\ r \in 0 .. SealEvery - 1
        /\ since + k - 1 = SealEvery * q + r
    <3>1. since + k - 1 \in Nat
      BY <1>1, <1>7
    <3>2. QED
      BY <1>1, <3>1, Division
  <2> HIDE DEF q, r
  <2>2. SealEvery * q \in Nat /\ SealEvery * a \in Nat /\ (SealEvery + 1) * q = SealEvery * q + q
    BY <1>1, <1>2, <2>1
  <2>3. q <= a
    <3>1. ASSUME a < q PROVE FALSE
      <4>1. SealEvery * a + SealEvery <= SealEvery * q
        BY <3>1, <1>1, <1>2, <2>1, MultiplesGrow
      <4>2. QED
        BY <4>1, <2>1, <2>2, <1>1, <1>2
    <3>2. QED
      BY <3>1, <1>2, <2>1
  <2>4. since + i = (SealEvery + 1) * q + (r + 1)
    BY <2>1, <2>2, <1>1
  <2>5. (since + i) \div (SealEvery + 1) = q /\ (since + i) % (SealEvery + 1) = r + 1
    <3> DEFINE x == since + i
               t == SealEvery + 1
               s == r + 1
    <3>1. x \in Nat /\ t \in Nat \ {0} /\ s \in 0 .. t - 1 /\ x = t * q + s /\ q \in Nat
      BY <2>1, <2>4, <1>1
    <3>2. x \div t = q /\ x % t = s
      <4> HIDE DEF x, t, s
      <4>1. QED
        BY <3>1, DivisionIs
    <3>3. QED
      BY <3>2
  <2>6. Place(since, i) = k
    BY <2>5, <2>1, <1>1 DEF Place
  <2>7. i \in 1 .. n + a
    BY <2>1, <2>3, <1>1, <1>2
  <2>8. Flushed(since)[i] = ring[k]
    BY <1>4, <2>5, <2>6, <2>7, <2>1
  <2>9. QED
    BY <2>7, <2>8
<1>8. Flushed(since) \in Seq(Nat)
  <2>1. \A i \in 1 .. n + a : Flushed(since)[i] \in Nat
    BY <1>4, <1>5 DEF Seal, n
  <2>2. Flushed(since) = [i \in 1 .. n + a |-> Flushed(since)[i]]
    BY DEF Flushed, n, a
  <2>3. n + a \in Nat
    BY <1>1, <1>2
  <2>4. \A m \in Nat : \A f \in [1 .. m -> Nat] : f \in Seq(Nat)
    OBVIOUS
  <2>5. Flushed(since) \in [1 .. n + a -> Nat]
    BY <2>1, <2>2
  <2>6. QED
    BY <2>3, <2>4, <2>5
<1>9. ASSUME NEW i \in 1 .. n + a, Flushed(since)[i] # Seal
      PROVE  (since + i) % (SealEvery + 1) # 0
  BY <1>9, <1>4
<1>10. QED
  BY <1>3, <1>4, <1>5, <1>6, <1>7, <1>8, <1>9 DEF n

-----------------------------------------------------------------------------
(* The log. *)

\* Two parts of a log, one after the other.
LEMMA Joined ==
  ASSUME NEW a \in Seq(Nat), NEW b \in Seq(Nat)
  PROVE  /\ a \o b \in Seq(Nat) /\ Len(a \o b) = Len(a) + Len(b)
         /\ Len(a) \in Nat /\ Len(b) \in Nat
         /\ \A i \in 1 .. Len(a) : (a \o b)[i] = a[i]
         /\ \A j \in 1 .. Len(b) : (a \o b)[Len(a) + j] = b[j]
  OBVIOUS

\* A log up to a line.
LEMMA Cut ==
  ASSUME NEW a \in Seq(Nat), NEW n \in 0 .. Len(a)
  PROVE  /\ SubSeq(a, 1, n) \in Seq(Nat) /\ Len(SubSeq(a, 1, n)) = n
         /\ DOMAIN SubSeq(a, 1, n) = 1 .. n
         /\ \A i \in 1 .. n : SubSeq(a, 1, n)[i] = a[i]
  OBVIOUS

\* The ring from a place on.
LEMMA Rest ==
  ASSUME NEW a \in Seq(Nat), NEW p \in 1 .. Len(a)
  PROVE  /\ SubSeq(a, p, Len(a)) \in Seq(Nat)
         /\ Len(SubSeq(a, p, Len(a))) = Len(a) - p + 1
         /\ DOMAIN SubSeq(a, p, Len(a)) = 1 .. Len(a) - p + 1
         /\ \A k \in 1 .. Len(a) - p + 1 : SubSeq(a, p, Len(a))[k] = a[p + k - 1]
<1>1. /\ p \in Nat /\ Len(a) \in Nat /\ Len(a) - p + 1 \in Nat
      /\ \A k \in 1 .. Len(a) - p + 1 : p + k - 1 \in 1 .. Len(a)
  OBVIOUS
<1>2. SubSeq(a, p, Len(a)) = [k \in 1 .. Len(a) - p + 1 |-> a[p + k - 1]]
  BY <1>1
<1>3. \A n \in Nat : \A f \in [1 .. n -> Nat] :
        f \in Seq(Nat) /\ Len(f) = n /\ DOMAIN f = 1 .. n
  OBVIOUS
<1>4. \A k \in 1 .. Len(a) - p + 1 : a[p + k - 1] \in Nat
  BY <1>1
<1>5. SubSeq(a, p, Len(a)) \in [1 .. Len(a) - p + 1 -> Nat]
  BY <1>2, <1>4
<1>6. QED
  BY <1>1, <1>2, <1>3, <1>5

\* The log on disk, and what a step still owes it.
Log == [lines : Seq(Nat), synced : Nat]
Duty == [incident : BOOLEAN, counts : BOOLEAN]

\* The ring holds the last records, without a gap.
Latest(r, last) == Len(r) <= last /\ \A k \in DOMAIN r : r[k] = last - Len(r) + k

\* Records come after smaller ones, seals anywhere.
InOrder(lines) ==
  \A i, j \in DOMAIN lines :
    i < j /\ Seal \notin {lines[i], lines[j]} => lines[i] < lines[j]

\* A commit writes the ring and, when due, a seal.
LEMMA DueHolds ==
  ASSUME SachoAssumption, NEW since \in 0 .. SealEvery - 1, NEW sealing \in BOOLEAN,
         ring \in Seq(Nat), count \in Nat, Latest(ring, count)
  PROVE  /\ Due(since, sealing) \in Seq(Nat)
         /\ \A i \in DOMAIN Due(since, sealing) : Due(since, sealing)[i] # Seal =>
              Due(since, sealing)[i] \in count - Len(ring) + 1 .. count
         /\ InOrder(Due(since, sealing))
         /\ \A k \in DOMAIN ring : \E i \in DOMAIN Due(since, sealing) :
              Due(since, sealing)[i] = ring[k]
         /\ sealing => /\ Len(Due(since, sealing)) > 0
                       /\ Due(since, sealing)[Len(Due(since, sealing))] = Seal
         /\ \A c \in 1 .. Len(Flushed(since)) : Place(since, c) \in DOMAIN ring
<1> DEFINE fl == Flushed(since)
           out == Due(since, sealing)
<1>1. /\ fl \in Seq(Nat)
      /\ \A i \in DOMAIN fl :
           /\ Place(since, i) \in 1 .. Len(ring)
           /\ fl[i] = Seal \/ fl[i] = ring[Place(since, i)]
      /\ \A i, j \in DOMAIN fl :
           i < j /\ Seal \notin {fl[i], fl[j]} => Place(since, i) < Place(since, j)
      /\ \A k \in 1 .. Len(ring) : \E i \in DOMAIN fl : fl[i] = ring[k]
  BY FlushHolds
<1>2. /\ Len(ring) \in Nat /\ DOMAIN ring = 1 .. Len(ring)
      /\ Len(fl) \in Nat /\ DOMAIN fl = 1 .. Len(fl)
  BY <1>1
<1>3. out = fl \o (IF sealing THEN <<Seal>> ELSE << >>)
  BY DEF Due
<1> HIDE DEF fl, out
<1>4. /\ out \in Seq(Nat)
      /\ Len(out) = Len(fl) + (IF sealing THEN 1 ELSE 0)
      /\ \A i \in 1 .. Len(fl) : out[i] = fl[i]
      /\ sealing => out[Len(fl) + 1] = Seal
  <2>1. CASE sealing
    <3>1. <<Seal>> \in Seq(Nat) /\ Len(<<Seal>>) = 1 /\ <<Seal>>[1] = Seal
      BY DEF Seal
    <3>2. QED
      BY <2>1, <3>1, <1>1, <1>2, <1>3
  <2>2. CASE ~sealing
    BY <2>2, <1>1, <1>2, <1>3
  <2>3. QED
    BY <2>1, <2>2
<1>5. DOMAIN out = 1 .. Len(out) /\ Len(out) \in Nat
  BY <1>4
<1>6. ASSUME NEW i \in DOMAIN out, out[i] # Seal
      PROVE  /\ i \in 1 .. Len(fl) /\ out[i] = fl[i] /\ Place(since, i) \in 1 .. Len(ring)
             /\ out[i] = count - Len(ring) + Place(since, i)
  <2>1. i \in 1 .. Len(fl)
    BY <1>2, <1>4, <1>5, <1>6
  <2>2. out[i] = fl[i] /\ Place(since, i) \in 1 .. Len(ring) /\ fl[i] = ring[Place(since, i)]
    BY <2>1, <1>1, <1>2, <1>4, <1>6
  <2>3. QED
    BY <2>1, <2>2, <1>2 DEF Latest
<1>7. ASSUME NEW i \in DOMAIN out, out[i] # Seal
      PROVE  out[i] \in count - Len(ring) + 1 .. count
  BY <1>7, <1>6, <1>2
<1>8. ASSUME NEW i \in DOMAIN out, NEW j \in DOMAIN out, i < j, Seal \notin {out[i], out[j]}
      PROVE  out[i] < out[j]
  <2>1. Place(since, i) < Place(since, j)
    BY <1>8, <1>6, <1>1, <1>2
  <2>2. QED
    BY <1>8, <2>1, <1>6, <1>2
<1>9. ASSUME NEW k \in DOMAIN ring
      PROVE  \E i \in DOMAIN out : out[i] = ring[k]
  <2>1. PICK i \in DOMAIN fl : fl[i] = ring[k]
    BY <1>1, <1>2
  <2>2. i \in DOMAIN out /\ out[i] = ring[k]
    BY <2>1, <1>2, <1>4, <1>5
  <2>3. QED
    BY <2>2
<1>10. sealing => Len(out) > 0 /\ out[Len(out)] = Seal
  BY <1>2, <1>4
<1>11. \A c \in 1 .. Len(fl) : Place(since, c) \in DOMAIN ring
  BY <1>1, <1>2
<1>12. QED
  BY <1>4, <1>7, <1>8, <1>9, <1>10, <1>11 DEF InOrder, fl, out

\* How far a log is durable once lines are written: never less than it was, and all of
\* it when the last line is a seal.
LEMMA SyncedHolds ==
  ASSUME NEW f \in Log, f.synced <= Len(f.lines), NEW lines \in Seq(Nat)
  PROVE  /\ SyncedWith(f, lines) \in f.synced .. Len(f.lines) + Len(lines)
         /\ Len(lines) > 0 /\ lines[Len(lines)] = Seal =>
              SyncedWith(f, lines) = Len(f.lines) + Len(lines)
<1> DEFINE S == {i \in 1 .. Len(lines) : lines[i] = Seal}
<1>1. SelectLastInSeq(lines, LAMBDA x : x = Seal) = IF S # {} THEN Max(S) ELSE 0
  BY DEF SelectLastInSeq
<1>2. /\ Len(lines) \in Nat /\ S \subseteq 1 .. Len(lines)
      /\ f.synced \in Nat /\ Len(f.lines) \in Nat
  BY DEF Log
<1>3. CASE S = {}
  BY <1>1, <1>2, <1>3 DEF SyncedWith
<1>4. CASE S # {}
  <2>1. Max(S) \in S /\ \A y \in S : y <= Max(S)
    BY <1>2, <1>4, LastPlace
  <2>2. SyncedWith(f, lines) = Len(f.lines) + Max(S)
    BY <1>1, <1>2, <1>4, <2>1 DEF SyncedWith
  <2>3. Max(S) \in 1 .. Len(lines)
    BY <1>2, <2>1
  <2>4. ASSUME Len(lines) > 0, lines[Len(lines)] = Seal
        PROVE  Max(S) = Len(lines)
    <3>1. Len(lines) \in S
      BY <1>2, <2>4
    <3>2. Len(lines) <= Max(S)
      BY <2>1, <3>1
    <3>3. QED
      BY <1>2, <2>3, <3>2
  <2> DEFINE m == Max(S)
             x == Len(f.lines)
             y == Len(lines)
  <2>5. /\ x \in Nat /\ y \in Nat /\ m \in 1 .. y /\ f.synced \in Nat /\ f.synced <= x
        /\ SyncedWith(f, lines) = x + m
        /\ y > 0 /\ lines[y] = Seal => m = y
    BY <1>2, <2>2, <2>3, <2>4
  <2> HIDE DEF m, x, y
  <2>6. /\ SyncedWith(f, lines) \in f.synced .. x + y
        /\ y > 0 /\ lines[y] = Seal => SyncedWith(f, lines) = x + y
    BY <2>5
  <2>7. QED
    BY <2>6 DEF x, y
<1>5. QED
  BY <1>3, <1>4

\* g is log f with some of the lines after it; nothing that was durable has gone.
Onto(f, lines, g) ==
  /\ g \in Log
  /\ f.synced <= g.synced /\ g.synced <= Len(g.lines)
  /\ Len(g.lines) <= Len(f.lines) + Len(lines)
  /\ \A i \in 1 .. Len(g.lines) : g.lines[i] = (f.lines \o lines)[i]

\* Lines that are written whole: the log ends in them, and a seal at their end covers it.
LEMMA ExtendedHolds ==
  ASSUME NEW f \in Log, f.synced <= Len(f.lines), NEW lines \in Seq(Nat)
  PROVE  /\ Onto(f, lines, Extended(f, lines))
         /\ Extended(f, lines).lines = f.lines \o lines
         /\ Len(lines) > 0 /\ lines[Len(lines)] = Seal =>
              Extended(f, lines).synced = Len(f.lines \o lines)
<1>1. /\ f.lines \in Seq(Nat) /\ f.lines \o lines \in Seq(Nat)
      /\ Len(f.lines \o lines) = Len(f.lines) + Len(lines)
      /\ Len(f.lines) \in Nat /\ Len(lines) \in Nat /\ f.synced \in Nat
  BY DEF Log
<1>2. /\ SyncedWith(f, lines) \in f.synced .. Len(f.lines) + Len(lines)
      /\ Len(lines) > 0 /\ lines[Len(lines)] = Seal =>
           SyncedWith(f, lines) = Len(f.lines) + Len(lines)
  BY SyncedHolds
<1>3. /\ Extended(f, lines).lines = f.lines \o lines
      /\ Extended(f, lines).synced = SyncedWith(f, lines)
      /\ Extended(f, lines) \in Log
  BY <1>1, <1>2 DEF Extended, Log
<1>4. QED
  BY <1>1, <1>2, <1>3 DEF Onto

\* Lines whose write failed: the log has some of them.
LEMMA TornHolds ==
  ASSUME NEW f \in Log, f.synced <= Len(f.lines), NEW lines \in Seq(Nat),
         NEW g \in Torn(f, lines)
  PROVE  Onto(f, lines, g)
<1> DEFINE all == f.lines \o lines
<1>1. /\ all \in Seq(Nat) /\ Len(all) = Len(f.lines) + Len(lines)
      /\ Len(f.lines) \in Nat /\ Len(lines) \in Nat /\ f.synced \in Nat
  BY DEF Log
<1>2. PICK n \in f.synced .. Len(all) : g = [lines |-> SubSeq(all, 1, n), synced |-> f.synced]
  BY DEF Torn
<1>3. /\ SubSeq(all, 1, n) \in Seq(Nat) /\ Len(SubSeq(all, 1, n)) = n
      /\ \A i \in 1 .. n : SubSeq(all, 1, n)[i] = all[i]
  <2>1. n \in 0 .. Len(all)
    BY <1>1, <1>2
  <2> HIDE DEF all
  <2>2. QED
    BY <1>1, <2>1, Cut
<1> HIDE DEF all
<1>4. g.lines = SubSeq(all, 1, n) /\ g.synced = f.synced /\ n \in Nat /\ n <= Len(all)
  BY <1>1, <1>2
<1>5. g \in Log
  BY <1>1, <1>2, <1>3 DEF Log
<1>6. /\ f.synced <= g.synced /\ g.synced <= Len(g.lines)
      /\ Len(g.lines) <= Len(f.lines) + Len(lines)
      /\ \A i \in 1 .. Len(g.lines) : g.lines[i] = all[i]
  BY <1>1, <1>2, <1>3, <1>4
<1>7. QED
  BY <1>5, <1>6 DEF Onto, all

\* A write that fails at line c.
LEMMA FailHolds ==
  ASSUME NEW f \in Log, f.synced <= Len(f.lines), NEW out \in Seq(Nat), NEW c \in 1 .. Len(out),
         NEW g \in Torn(Extended(f, SubSeq(out, 1, c - 1)), <<out[c]>>)
  PROVE  Onto(f, out, g)
<1> DEFINE a == SubSeq(out, 1, c - 1)
           b == <<out[c]>>
           e == Extended(f, a)
<1>1. /\ c \in Nat /\ Len(out) \in Nat /\ c - 1 \in Nat /\ out[c] \in Nat
      /\ f.lines \in Seq(Nat) /\ Len(f.lines) \in Nat /\ f.synced \in Nat
  BY DEF Log
<1>2. /\ a \in Seq(Nat) /\ Len(a) = c - 1 /\ \A i \in 1 .. c - 1 : a[i] = out[i]
      /\ b \in Seq(Nat) /\ Len(b) = 1 /\ b[1] = out[c]
  BY <1>1
<1>3. g \in Torn(e, b)
  OBVIOUS
<1> HIDE DEF a, b
<1>4. Onto(f, a, e) /\ e.lines = f.lines \o a
  BY <1>2, ExtendedHolds
<1> HIDE DEF e
<1>5. e \in Log /\ e.synced <= Len(e.lines) /\ e.synced \in Nat
  BY <1>4 DEF Onto, Log
<1>6. Onto(e, b, g)
  BY <1>2, <1>3, <1>5, TornHolds
<1> DEFINE L == f.lines
<1>7. L \in Seq(Nat) /\ e.lines \in Seq(Nat) /\ g.lines \in Seq(Nat)
  BY <1>1, <1>5, <1>6 DEF Onto, Log
<1>8. e.lines = L \o a
  BY <1>4
<1> HIDE DEF L
<1>9. /\ Len(L) \in Nat /\ Len(e.lines) = Len(L) + (c - 1) /\ c <= Len(out)
      /\ \A i \in 1 .. Len(L) : e.lines[i] = L[i]
      /\ \A k \in 1 .. c - 1 : e.lines[Len(L) + k] = a[k]
  <2>1. /\ Len(L) \in Nat /\ Len(e.lines) = Len(L) + Len(a)
        /\ \A i \in 1 .. Len(L) : e.lines[i] = L[i]
        /\ \A k \in 1 .. Len(a) : e.lines[Len(L) + k] = a[k]
    <3>1. /\ Len(L) \in Nat /\ Len(L \o a) = Len(L) + Len(a)
          /\ \A i \in 1 .. Len(L) : (L \o a)[i] = L[i]
          /\ \A k \in 1 .. Len(a) : (L \o a)[Len(L) + k] = a[k]
      BY <1>2, <1>7, Joined, Zenon
    <3>2. QED
      BY <1>8, <3>1, Zenon
  <2>2. QED
    BY <1>1, <1>2, <2>1
<1>10. ASSUME NEW i \in 1 .. Len(L) + c
       PROVE  (e.lines \o b)[i] = (L \o out)[i]
  <2>1. CASE i <= Len(L)
    <3>1. i \in 1 .. Len(L) /\ i \in 1 .. Len(e.lines)
      BY <1>1, <1>9, <2>1
    <3>2. (e.lines \o b)[i] = e.lines[i] /\ (L \o out)[i] = L[i]
      BY <3>1, <1>2, <1>7, Joined
    <3>3. QED
      BY <3>1, <3>2, <1>9
  <2>2. CASE Len(L) < i /\ i < Len(L) + c
    <3>1. PICK k \in 1 .. c - 1 : i = Len(L) + k
      <4>1. c \in Nat /\ Len(L) \in Nat /\ i \in Nat
        BY <1>1, <1>9
      <4>2. i - Len(L) \in 1 .. c - 1 /\ i = Len(L) + (i - Len(L))
        BY <2>2, <4>1
      <4>3. QED
        BY <4>2
    <3>2. i \in 1 .. Len(e.lines) /\ k \in 1 .. Len(out)
      <4>1. /\ c \in Nat /\ Len(L) \in Nat /\ Len(out) \in Nat /\ c <= Len(out)
            /\ Len(e.lines) = Len(L) + (c - 1)
        BY <1>1, <1>9
      <4>2. i <= Len(L) + (c - 1) /\ 1 <= i
        BY <3>1, <4>1
      <4>3. k \in 1 .. Len(out)
        BY <3>1, <4>1
      <4>4. QED
        BY <3>1, <4>1, <4>2, <4>3
    <3>3. (e.lines \o b)[i] = e.lines[i] /\ (L \o out)[i] = out[k]
      BY <3>1, <3>2, <1>2, <1>7, Joined
    <3>4. QED
      BY <3>1, <3>3, <1>2, <1>9
  <2>3. CASE i = Len(L) + c
    <3>1. i = Len(e.lines) + 1
      BY <2>3, <1>1, <1>9
    <3>2. (e.lines \o b)[i] = b[1]
      BY <3>1, <1>2, <1>7, Joined
    <3>3. (L \o out)[i] = out[c]
      BY <2>3, <1>7, Joined
    <3>4. QED
      BY <3>2, <3>3, <1>2
  <2>4. i <= Len(L) \/ (Len(L) < i /\ i < Len(L) + c) \/ i = Len(L) + c
    BY <1>1, <1>9
  <2>5. QED
    BY <2>1, <2>2, <2>3, <2>4
<1>11. /\ g \in Log /\ e.synced <= g.synced /\ g.synced <= Len(g.lines)
       /\ Len(g.lines) <= Len(e.lines) + Len(b)
       /\ \A i \in 1 .. Len(g.lines) : g.lines[i] = (e.lines \o b)[i]
       /\ f.synced <= e.synced
  BY <1>4, <1>6 DEF Onto
<1>12. Len(g.lines) \in Nat /\ Len(g.lines) <= Len(L) + c /\ g.synced \in Nat
  BY <1>1, <1>2, <1>7, <1>9, <1>11 DEF Log
<1>13. \A i \in 1 .. Len(g.lines) : g.lines[i] = (L \o out)[i]
  <2>1. \A i \in 1 .. Len(g.lines) : i \in 1 .. Len(L) + c
    BY <1>1, <1>9, <1>12
  <2>2. QED
    BY <2>1, <1>10, <1>11
<1>14. f.synced <= g.synced /\ Len(g.lines) <= Len(L) + Len(out)
  <2>1. f.synced <= e.synced /\ e.synced <= g.synced /\ e.synced \in Nat
    BY <1>5, <1>11
  <2>2. f.synced <= g.synced
    BY <1>1, <1>12, <2>1
  <2>3. Len(L) \in Nat /\ c <= Len(out)
    BY <1>9
  <2>4. QED
    BY <1>1, <1>12, <2>2, <2>3
<1>15. QED
  BY <1>11, <1>13, <1>14 DEF Onto, L

\* What a log keeps when lines come after it.
LEMMA OntoKeeps ==
  ASSUME NEW f \in Log, f.synced <= Len(f.lines), NEW lines \in Seq(Nat), NEW g,
         Onto(f, lines, g)
  PROVE  /\ \A i \in 1 .. f.synced : g.lines[i] = f.lines[i]
         /\ ToSet(SubSeq(f.lines, 1, f.synced)) \subseteq ToSet(SubSeq(g.lines, 1, g.synced))
         /\ IsPrefix(SubSeq(f.lines, 1, f.synced), g.lines)
<1>1. /\ f.lines \in Seq(Nat) /\ Len(f.lines) \in Nat /\ f.synced \in Nat
      /\ g.lines \in Seq(Nat) /\ Len(g.lines) \in Nat /\ g.synced \in Nat
      /\ f.synced <= g.synced /\ g.synced <= Len(g.lines)
  BY DEF Onto, Log
<1>2. \A i \in 1 .. f.synced : g.lines[i] = f.lines[i]
  <2>1. ASSUME NEW i \in 1 .. f.synced PROVE g.lines[i] = f.lines[i]
    <3>1. i \in 1 .. Len(g.lines) /\ i \in 1 .. Len(f.lines)
      <4>1. f.synced <= Len(f.lines) /\ f.synced <= Len(g.lines)
        BY <1>1
      <4>2. QED
        BY <1>1, <4>1
    <3>2. (f.lines \o lines)[i] = f.lines[i]
      BY <1>1, <3>1, Joined
    <3>3. QED
      BY <3>1, <3>2 DEF Onto
  <2>2. QED
    BY <2>1
<1> DEFINE p == SubSeq(f.lines, 1, f.synced)
           q == SubSeq(g.lines, 1, g.synced)
           s == SubSeq(g.lines, 1, f.synced)
<1>3. /\ p \in Seq(Nat) /\ Len(p) = f.synced /\ DOMAIN p = 1 .. f.synced
      /\ \A i \in 1 .. f.synced : p[i] = f.lines[i]
  <2>1. f.synced \in 0 .. Len(f.lines)
    BY <1>1
  <2>2. QED
    BY <1>1, <2>1, Cut
<1>4. /\ q \in Seq(Nat) /\ Len(q) = g.synced /\ DOMAIN q = 1 .. g.synced
      /\ \A i \in 1 .. g.synced : q[i] = g.lines[i]
  <2>1. g.synced \in 0 .. Len(g.lines)
    BY <1>1
  <2>2. QED
    BY <1>1, <2>1, Cut
<1>5. /\ s \in Seq(Nat) /\ Len(s) = f.synced /\ DOMAIN s = 1 .. f.synced
      /\ \A i \in 1 .. f.synced : s[i] = g.lines[i]
  <2>1. f.synced \in 0 .. Len(g.lines)
    BY <1>1
  <2>2. QED
    BY <1>1, <2>1, Cut
<1> HIDE DEF p, q, s
<1>6. ToSet(p) \subseteq ToSet(q)
  <2>1. ASSUME NEW i \in 1 .. f.synced PROVE i \in 1 .. g.synced /\ p[i] = q[i]
    <3>1. i \in 1 .. g.synced
      BY <1>1
    <3>2. QED
      BY <3>1, <1>2, <1>3, <1>4
  <2>2. QED
    BY <2>1, <1>3, <1>4 DEF ToSet
<1>7. p = s
  <2>1. \A i \in 1 .. f.synced : p[i] = s[i]
    BY <1>2, <1>3, <1>5
  <2>2. p = [i \in 1 .. f.synced |-> p[i]] /\ s = [i \in 1 .. f.synced |-> s[i]]
    BY <1>3, <1>5
  <2>3. QED
    BY <2>1, <2>2
<1>8. SubSeq(p, 1, Len(p)) = p
  BY <1>1, <1>3
<1>9. IsPrefix(p, g.lines)
  <2>1. SubSeq(g.lines, 1, Len(p)) = s
    BY <1>3 DEF s
  <2>2. QED
    BY <1>1, <1>3, <1>7, <1>8, <2>1 DEF IsPrefix
<1>10. QED
  BY <1>2, <1>6, <1>9 DEF p, q

\* A log that is left alone keeps its seals.
LEMMA LogStays ==
  ASSUME NEW f \in Log, f.synced <= Len(f.lines)
  PROVE  IsPrefix(SubSeq(f.lines, 1, f.synced), f.lines)
<1>1. /\ f.lines \in Seq(Nat) /\ f.synced \in Nat /\ Len(f.lines) \in Nat
      /\ f.lines \o << >> = f.lines /\ << >> \in Seq(Nat) /\ Len(<< >>) = 0
  BY DEF Log
<1>2. Onto(f, << >>, f)
  BY <1>1 DEF Onto
<1>3. QED
  BY <1>1, <1>2, OntoKeeps

-----------------------------------------------------------------------------
(* The recorder: its invariant.                                            *)

RecorderTypeOK ==
  /\ ring \in Seq(Nat)
  /\ count \in Nat /\ post \in Nat /\ base \in Nat
  /\ writer \in (0 .. SealEvery - 1) \cup {Absent}
  /\ file \in Log \cup {Absent}
  /\ fault \in BOOLEAN
  /\ pending \in Duty \cup {Absent}
  /\ run \in {"up", "crashed", "incomplete", "clean"}
  /\ marks \subseteq 1 .. count

\* A log in order whose records are no later than last.
Sound(f, last) ==
  /\ f \in Log /\ f.synced <= Len(f.lines)
  /\ InOrder(f.lines)
  /\ \A i \in DOMAIN f.lines : f.lines[i] <= last

\* The ring holds all that is not committed; an incident among it is still owed.
RingHolds ==
  /\ Latest(ring, count)
  /\ base <= count
  /\ run # "up" => pending = Absent
  /\ run = "up" =>
       /\ count - base <= Len(ring)
       /\ pending = Absent => base = count
       /\ IF pending # Absent /\ pending.incident
            THEN \E m \in marks : base < m
            ELSE marks \subseteq 1 .. base

\* A writer is that of the running process, and all it has in its log is older than the
\* ring.
LogHolds ==
  /\ file # Absent => Sound(file, count)
  /\ writer # Absent => run = "up" /\ file # Absent /\ Sound(file, count - Len(ring))

\* The incidents of this run that a commit has seen.
Committed == marks \cap (1 .. base)

\* What was committed without a failure is on disk, and so is what followed it while the
\* window is open.
Recorded ==
  /\ run = "up" /\ ~fault /\ Committed # {} =>
       /\ writer # Absent
       /\ Committed \subseteq Durable
       /\ post > 0 => {r \in 1 .. base : \A m \in Committed : m <= r} \subseteq Written
       /\ post = 0 => Written = Durable
  /\ run = "clean" => marks \subseteq Durable

RecorderInv == RecorderTypeOK /\ RingHolds /\ LogHolds /\ Recorded

\* Lines that come after all of a log, in order, leave it in order.
LEMMA OntoSound ==
  ASSUME NEW low \in Nat, NEW top \in Nat, low <= top, NEW f, Sound(f, low),
         NEW lines \in Seq(Nat), InOrder(lines),
         \A i \in DOMAIN lines : lines[i] # Seal => lines[i] \in low + 1 .. top,
         NEW g, Onto(f, lines, g)
  PROVE  Sound(g, top)
<1> DEFINE L == f.lines
           all == L \o lines
<1>1. /\ L \in Seq(Nat) /\ Len(L) \in Nat /\ DOMAIN L = 1 .. Len(L)
      /\ DOMAIN lines = 1 .. Len(lines) /\ Len(lines) \in Nat
      /\ \A i \in 1 .. Len(L) : L[i] \in Nat /\ L[i] <= low
      /\ \A i, j \in 1 .. Len(L) : i < j /\ Seal \notin {L[i], L[j]} => L[i] < L[j]
  <2>1. f \in Log
    BY DEF Sound
  <2>2. L \in Seq(Nat)
    BY <2>1 DEF Log
  <2>3. QED
    BY <2>2 DEF Sound, InOrder
<1>2. /\ \A i \in 1 .. Len(L) : all[i] = L[i]
      /\ \A j \in 1 .. Len(lines) : all[Len(L) + j] = lines[j]
  <2> HIDE DEF L
  <2>1. QED
    BY <1>1, Joined
<1>3. /\ g \in Log /\ g.synced <= Len(g.lines)
      /\ g.lines \in Seq(Nat) /\ Len(g.lines) \in Nat /\ DOMAIN g.lines = 1 .. Len(g.lines)
      /\ Len(g.lines) <= Len(L) + Len(lines)
      /\ \A i \in 1 .. Len(g.lines) : g.lines[i] = all[i]
  BY DEF Onto, Log
<1> HIDE DEF L, all
<1>4. ASSUME NEW i \in 1 .. Len(g.lines)
      PROVE  \/ i \in 1 .. Len(L) /\ g.lines[i] = L[i]
             \/ \E k \in 1 .. Len(lines) : i = Len(L) + k /\ g.lines[i] = lines[k]
  <2>1. CASE i <= Len(L)
    <3>1. i \in 1 .. Len(L)
      BY <2>1, <1>1
    <3>2. QED
      BY <3>1, <1>2, <1>3
  <2>2. CASE Len(L) < i
    <3>1. i - Len(L) \in 1 .. Len(lines) /\ i = Len(L) + (i - Len(L))
      <4>1. \A l, d \in Nat : \A x \in Nat : l < x /\ x <= l + d => x - l \in 1 .. d /\ x = l + (x - l)
        OBVIOUS
      <4>2. i \in Nat /\ i <= Len(L) + Len(lines)
        BY <1>1, <1>3
      <4>3. QED
        BY <4>1, <4>2, <2>2, <1>1
    <3>2. PICK k \in 1 .. Len(lines) : i = Len(L) + k
      BY <3>1
    <3>3. QED
      BY <3>2, <1>2, <1>3
  <2>3. i <= Len(L) \/ Len(L) < i
    <3>1. i \in Nat
      BY <1>3
    <3>2. QED
      BY <3>1, <1>1
  <2>4. QED
    BY <2>1, <2>2, <2>3
<1>5. ASSUME NEW i \in 1 .. Len(g.lines)
      PROVE  g.lines[i] <= top
  <2>1. CASE i \in 1 .. Len(L) /\ g.lines[i] = L[i]
    BY <2>1, <1>1
  <2>2. CASE \E k \in 1 .. Len(lines) : i = Len(L) + k /\ g.lines[i] = lines[k]
    <3>1. PICK k \in 1 .. Len(lines) : g.lines[i] = lines[k]
      BY <2>2
    <3>2. CASE lines[k] = Seal
      BY <3>1, <3>2 DEF Seal
    <3>3. CASE lines[k] # Seal
      BY <3>1, <3>3, <1>1
    <3>4. QED
      BY <3>2, <3>3
  <2>3. QED
    BY <2>1, <2>2, <1>4
<1>6. ASSUME NEW i \in 1 .. Len(g.lines), NEW j \in 1 .. Len(g.lines), i < j,
             Seal \notin {g.lines[i], g.lines[j]}
      PROVE  g.lines[i] < g.lines[j]
  <2>1. CASE j \in 1 .. Len(L) /\ g.lines[j] = L[j]
    <3>1. i \in 1 .. Len(L) /\ g.lines[i] = L[i]
      <4>1. i \in 1 .. Len(L)
        BY <2>1, <1>1, <1>3, <1>6
      <4>2. QED
        BY <4>1, <1>2, <1>3
    <3>2. QED
      BY <2>1, <3>1, <1>1, <1>6
  <2>2. CASE \E k \in 1 .. Len(lines) : j = Len(L) + k /\ g.lines[j] = lines[k]
    <3>1. PICK k \in 1 .. Len(lines) : j = Len(L) + k /\ g.lines[j] = lines[k]
      BY <2>2
    <3>2. lines[k] \in low + 1 .. top
      BY <3>1, <1>1, <1>6
    <3>3. CASE i \in 1 .. Len(L) /\ g.lines[i] = L[i]
      BY <3>1, <3>2, <3>3, <1>1
    <3>4. CASE \E m \in 1 .. Len(lines) : i = Len(L) + m /\ g.lines[i] = lines[m]
      <4>1. PICK m \in 1 .. Len(lines) : i = Len(L) + m /\ g.lines[i] = lines[m]
        BY <3>4
      <4>2. m < k
        BY <3>1, <4>1, <1>1, <1>6
      <4>3. lines[m] < lines[k]
        BY <3>1, <4>1, <4>2, <1>1, <1>6 DEF InOrder
      <4>4. QED
        BY <3>1, <4>1, <4>3
    <3>5. QED
      BY <3>3, <3>4, <1>4
  <2>3. QED
    BY <2>1, <2>2, <1>4
<1>7. QED
  BY <1>3, <1>5, <1>6 DEF Sound, InOrder

\* What a flush leaves, whether it succeeds or fails.
LEMMA WriteHolds ==
  ASSUME SachoAssumption, AbsentRecordAssumption,
         NEW since \in 0 .. SealEvery - 1, NEW sealing \in BOOLEAN,
         ring \in Seq(Nat), count \in Nat, Latest(ring, count),
         NEW f, Sound(f, count - Len(ring)), Write(f, since, sealing)
  PROVE  /\ Sound(file', count) /\ Onto(f, Due(since, sealing), file')
         /\ ring' \in Seq(Nat) /\ Latest(ring', count)
         /\ writer' \in (0 .. SealEvery - 1) \cup {Absent}
         /\ writer' # Absent => ring' = << >>
         /\ \/ /\ fault' = fault /\ writer' # Absent
               /\ file' = Extended(f, Due(since, sealing))
            \/ fault' = TRUE
<1> DEFINE out == Due(since, sealing)
<1>1. /\ Len(ring) \in Nat /\ DOMAIN ring = 1 .. Len(ring) /\ Len(ring) <= count
      /\ SealEvery \in Nat \ {0} /\ Absent \notin Nat
  BY DEF Latest, SachoAssumption, AbsentRecordAssumption
<1>2. /\ out \in Seq(Nat) /\ InOrder(out)
      /\ \A i \in DOMAIN out : out[i] # Seal => out[i] \in (count - Len(ring)) + 1 .. count
      /\ \A c \in 1 .. Len(Flushed(since)) : Place(since, c) \in DOMAIN ring
  BY DueHolds
<1>3. f \in Log /\ f.synced <= Len(f.lines)
  BY DEF Sound
<1>4. << >> \in Seq(Nat) /\ Latest(<< >>, count)
  BY DEF Latest
<1>5. count - Len(ring) \in Nat /\ count - Len(ring) <= count
  BY <1>1
<1>6. CASE WriteAll(f, since, sealing)
  <2>1. Onto(f, out, file') /\ file' = Extended(f, out)
    BY <1>2, <1>3, <1>6, ExtendedHolds DEF WriteAll
  <2>2. (since + Len(ring)) % SealEvery \in 0 .. SealEvery - 1
    BY <1>1
  <2>3. writer' \in 0 .. SealEvery - 1
    BY <1>1, <1>6, <2>2 DEF WriteAll
  <2>4. Sound(file', count)
    <3> HIDE DEF out
    <3>1. QED
      BY <1>2, <1>5, <2>1, OntoSound
  <2>5. QED
    BY <1>1, <1>4, <1>6, <2>1, <2>3, <2>4 DEF WriteAll
<1>7. CASE WriteFails(f, since, sealing)
  <2>1. PICK c \in DOMAIN out :
          /\ file' \in Torn(Extended(f, SubSeq(out, 1, c - 1)), <<out[c]>>)
          /\ writer' = Absent
          /\ ring' = IF c > Len(Flushed(since)) THEN << >>
                     ELSE SubSeq(ring, Place(since, c), Len(ring))
          /\ fault' = TRUE
    BY <1>7 DEF WriteFails
  <2>2. c \in 1 .. Len(out) /\ c \in Nat
    BY <1>2, <2>1
  <2>3. Onto(f, out, file')
    <3> HIDE DEF out
    <3>1. QED
      BY <1>2, <1>3, <2>1, <2>2, FailHolds
  <2>4. Sound(file', count)
    <3> HIDE DEF out
    <3>1. QED
      BY <1>2, <1>5, <2>3, OntoSound
  <2>5. ring' \in Seq(Nat) /\ Latest(ring', count)
    <3>1. CASE c > Len(Flushed(since))
      BY <3>1, <2>1, <1>4
    <3>2. CASE ~(c > Len(Flushed(since)))
      <4> DEFINE p == Place(since, c)
      <4>1. p \in DOMAIN ring /\ ring' = SubSeq(ring, p, Len(ring))
        <5>1. Flushed(since) \in Seq(Nat)
          BY FlushHolds
        <5>2. Len(Flushed(since)) \in Nat
          BY <5>1
        <5>3. c \in 1 .. Len(Flushed(since))
          BY <3>2, <2>2, <5>2
        <5>4. QED
          BY <5>3, <3>2, <2>1, <1>2
      <4> HIDE DEF p
      <4>2. p \in Nat /\ 1 <= p /\ p <= Len(ring)
        BY <4>1, <1>1
      <4>3. /\ ring' \in Seq(Nat) /\ Len(ring') = Len(ring) - p + 1
            /\ DOMAIN ring' = 1 .. Len(ring) - p + 1
            /\ \A k \in 1 .. Len(ring) - p + 1 : ring'[k] = ring[p + k - 1]
        <5>1. p \in 1 .. Len(ring)
          BY <4>1, <1>1
        <5>2. QED
          BY <4>1, <5>1, Rest
      <4>4. ASSUME NEW k \in 1 .. Len(ring) - p + 1
            PROVE  ring'[k] = count - Len(ring') + k
        <5>1. p + k - 1 \in DOMAIN ring
          BY <4>2, <1>1
        <5>2. ring[p + k - 1] = count - Len(ring) + (p + k - 1)
          BY <5>1 DEF Latest
        <5>3. ring'[k] = ring[p + k - 1] /\ Len(ring') = Len(ring) - p + 1 /\ k \in Nat
          BY <4>2, <4>3, <1>1
        <5>4. count - Len(ring) + (p + k - 1) = count - (Len(ring) - p + 1) + k
          BY <5>3, <4>2, <1>1
        <5>6. QED
          BY <5>2, <5>3, <5>4, Zenon
      <4>5. Len(ring') <= count
        BY <4>2, <4>3, <1>1
      <4>6. DOMAIN ring' = 1 .. Len(ring) - p + 1
        BY <4>3
      <4>7. QED
        BY <4>3, <4>4, <4>5, <4>6 DEF Latest
    <3>3. QED
      BY <3>1, <3>2
  <2>6. QED
    BY <2>1, <2>3, <2>4, <2>5
<1>8. QED
  BY <1>6, <1>7 DEF Write

\* New records go into the ring: it is still the latest ones, and all that fit.
LEMMA PushedHolds ==
  ASSUME SachoAssumption, ring \in Seq(Nat), count \in Nat, Latest(ring, count), NEW n \in Nat
  PROVE  /\ Pushed(n) \in Seq(Nat) /\ Latest(Pushed(n), count + n)
         /\ Len(Pushed(n)) <= Len(ring) + n
         /\ Len(Pushed(n)) = Len(ring) + n \/ Len(Pushed(n)) = SachoCapacity
<1> DEFINE new == [k \in 1 .. n |-> count + k]
           all == ring \o new
           N == Len(ring) + n
           p == N - SachoCapacity + 1
<1>1. /\ Len(ring) \in Nat /\ DOMAIN ring = 1 .. Len(ring) /\ Len(ring) <= count
      /\ SachoCapacity \in Nat /\ SachoCapacity > 0
  BY DEF Latest, SachoAssumption
<1>2. new \in Seq(Nat) /\ Len(new) = n /\ \A k \in 1 .. n : new[k] = count + k
  <2>1. \A m \in Nat : \A f \in [1 .. m -> Nat] : f \in Seq(Nat) /\ Len(f) = m
    OBVIOUS
  <2>2. new \in [1 .. n -> Nat]
    OBVIOUS
  <2>3. QED
    BY <2>1, <2>2
<1> HIDE DEF new
<1>3. /\ all \in Seq(Nat) /\ Len(all) = N
      /\ \A i \in 1 .. Len(ring) : all[i] = ring[i]
      /\ \A j \in 1 .. n : all[Len(ring) + j] = new[j]
  BY <1>2, Joined
<1> HIDE DEF all
<1>4. ASSUME NEW i \in 1 .. N
      PROVE  all[i] = count - Len(ring) + i
  <2>1. CASE i <= Len(ring)
    <3>1. i \in 1 .. Len(ring)
      BY <2>1, <1>1
    <3>2. QED
      BY <3>1, <1>1, <1>3 DEF Latest
  <2>2. CASE Len(ring) < i
    <3>1. i - Len(ring) \in 1 .. n /\ i = Len(ring) + (i - Len(ring))
      <4>1. \A l, d \in Nat : \A x \in Nat : l < x /\ x <= l + d => x - l \in 1 .. d /\ x = l + (x - l)
        OBVIOUS
      <4>2. i \in Nat /\ i <= Len(ring) + n
        BY <1>1
      <4>3. QED
        BY <4>1, <4>2, <2>2, <1>1
    <3>2. PICK k \in 1 .. n : i = Len(ring) + k
      BY <3>1
    <3>3. all[i] = count + k
      BY <3>2, <1>2, <1>3
    <3>4. QED
      BY <3>2, <3>3, <1>1
  <2>3. i <= Len(ring) \/ Len(ring) < i
    BY <1>1
  <2>4. QED
    BY <2>1, <2>2, <2>3
<1>5. Pushed(n) = IF N <= SachoCapacity THEN all ELSE SubSeq(all, p, N)
  BY <1>3 DEF Pushed, Newest, all, new
<1>6. CASE N <= SachoCapacity
  <2>1. Pushed(n) = all /\ DOMAIN all = 1 .. N
    BY <1>3, <1>5, <1>6
  <2>2. \A k \in 1 .. N : all[k] = (count + n) - N + k
    BY <1>1, <1>4
  <2>3. N <= count + n
    BY <1>1
  <2>4. Latest(all, count + n)
    <3> HIDE DEF N
    <3>1. QED
      BY <1>3, <2>1, <2>2, <2>3 DEF Latest
  <2>5. N \in Nat
    BY <1>1
  <2>6. Len(Pushed(n)) = N
    BY <1>3, <2>1
  <2> HIDE DEF N
  <2>7. QED
    BY <1>3, <2>1, <2>4, <2>5, <2>6 DEF N
<1>7. CASE ~(N <= SachoCapacity)
  <2>1. p \in 1 .. N /\ N - p + 1 = SachoCapacity /\ p \in Nat
    BY <1>1, <1>7
  <2>2. Pushed(n) = SubSeq(all, p, Len(all))
    BY <1>3, <1>5, <1>7
  <2>3. /\ Pushed(n) \in Seq(Nat) /\ Len(Pushed(n)) = SachoCapacity
        /\ DOMAIN Pushed(n) = 1 .. SachoCapacity
        /\ \A k \in 1 .. SachoCapacity : Pushed(n)[k] = all[p + k - 1]
    <3> HIDE DEF p, N
    <3>1. QED
      BY <1>3, <2>1, <2>2, Rest
  <2>4. ASSUME NEW k \in 1 .. SachoCapacity
        PROVE  Pushed(n)[k] = (count + n) - SachoCapacity + k
    <3>1. p + k - 1 \in 1 .. N
      BY <1>1, <2>1
    <3>2. Pushed(n)[k] = count - Len(ring) + (p + k - 1)
      BY <1>4, <2>3, <3>1
    <3>3. count - Len(ring) + (p + k - 1) = (count + n) - SachoCapacity + k
      BY <1>1
    <3>4. QED
      BY <3>2, <3>3
  <2>5. SachoCapacity <= count + n /\ SachoCapacity <= N
    BY <1>1, <1>7
  <2>6. Latest(Pushed(n), count + n)
    BY <2>3, <2>4, <2>5 DEF Latest
  <2> HIDE DEF N
  <2>7. QED
    BY <2>3, <2>5, <2>6 DEF N
<1>8. QED
  BY <1>6, <1>7

\* A recorder starts in the invariant.
LEMMA RecorderStart ==
  ASSUME SachoAssumption, AbsentRecordAssumption, RecorderInit
  PROVE  RecorderInv
<1>1. << >> \in Seq(Nat) /\ Len(<< >>) = 0 /\ DOMAIN << >> = {}
  OBVIOUS
<1>2. RecorderTypeOK
  BY <1>1 DEF RecorderTypeOK, RecorderInit
<1>3. RingHolds /\ LogHolds /\ Recorded
  BY <1>1 DEF RecorderInit, RingHolds, LogHolds, Recorded, Latest, Committed
<1>4. QED
  BY <1>2, <1>3 DEF RecorderInv

\* Lines that come after a log leave what it holds in place.
LEMMA SoundLater ==
  ASSUME NEW f, NEW a \in Int, NEW b \in Int, a <= b, Sound(f, a)
  PROVE  Sound(f, b)
<1>1. f.lines \in Seq(Nat)
  BY DEF Sound, Log
<1>2. \A i \in DOMAIN f.lines : f.lines[i] \in Nat
  BY <1>1
<1>3. QED
  BY <1>2 DEF Sound

\* A message is handled: its records go into the ring, its duty is owed (finish_step).
LEMMA HandleStep ==
  ASSUME SachoAssumption, AbsentRecordAssumption, RecorderInv,
         NEW n \in {1, 2}, NEW incident \in BOOLEAN, NEW counts \in BOOLEAN,
         Handle(n, incident, counts)
  PROVE  RecorderInv'
<1>1. /\ run = "up" /\ run' = "up" /\ count + n - base <= SachoCapacity
      /\ ring' = Pushed(n) /\ count' = count + n /\ pending' = Deferred(incident, counts)
      /\ marks' = IF incident THEN marks \cup {count + n} ELSE marks
      /\ UNCHANGED <<post, writer, file, fault, base>>
  BY DEF Handle
<1>2. /\ ring \in Seq(Nat) /\ count \in Nat /\ base \in Nat /\ base <= count /\ n \in Nat /\ 1 <= n
      /\ Len(ring) \in Nat /\ Len(ring) <= count /\ count - base <= Len(ring)
      /\ Latest(ring, count) /\ SachoCapacity \in Nat /\ marks \subseteq 1 .. count
  BY <1>1 DEF RecorderInv, RecorderTypeOK, RingHolds, Latest, SachoAssumption
<1>3. /\ ring' \in Seq(Nat) /\ Latest(ring', count') /\ Len(ring') \in Nat
      /\ Len(ring') <= Len(ring) + n
      /\ Len(ring') = Len(ring) + n \/ Len(ring') = SachoCapacity
  <2>1. /\ Pushed(n) \in Seq(Nat) /\ Latest(Pushed(n), count + n)
        /\ Len(Pushed(n)) <= Len(ring) + n
        /\ Len(Pushed(n)) = Len(ring) + n \/ Len(Pushed(n)) = SachoCapacity
    BY <1>2, PushedHolds
  <2>2. Len(Pushed(n)) \in Nat
    BY <2>1
  <2>3. QED
    BY <1>1, <2>1, <2>2, Zenon
<1>4. /\ pending' \in Duty /\ pending' # Absent
      /\ pending'.incident <=> incident \/ (pending # Absent /\ pending.incident)
  <2>1. pending \in Duty \cup {Absent} /\ Absent \notin Duty
    BY DEF RecorderInv, RecorderTypeOK, AbsentRecordAssumption, Duty
  <2>2. QED
    BY <1>1, <2>1 DEF Deferred, Duty
<1>5. marks' \subseteq 1 .. count'
  BY <1>1, <1>2
<1>6. RecorderTypeOK'
  <2>1. /\ post' \in Nat /\ base' \in Nat /\ writer' \in (0 .. SealEvery - 1) \cup {Absent}
        /\ file' \in Log \cup {Absent} /\ fault' \in BOOLEAN
    BY <1>1 DEF RecorderInv, RecorderTypeOK
  <2>2. count' \in Nat
    BY <1>1, <1>2
  <2>3. QED
    BY <1>1, <1>3, <1>4, <1>5, <2>1, <2>2 DEF RecorderTypeOK
<1>7. RingHolds'
  <2>1. base' <= count' /\ count' - base' <= Len(ring')
    <3>1. base <= count + n
      BY <1>2
    <3>2. (count + n) - base <= Len(ring')
      <4>1. CASE Len(ring') = Len(ring) + n
        BY <1>2, <4>1
      <4>2. CASE Len(ring') = SachoCapacity
        BY <1>1, <1>2, <4>2
      <4>3. QED
        BY <1>3, <4>1, <4>2
    <3>3. count' = count + n /\ base' = base
      BY <1>1
    <3>4. QED
      BY <3>1, <3>2, <3>3
  <2>2. CASE incident
    <3>1. count + n \in marks' /\ base' < count + n
      BY <1>1, <1>2, <2>2
    <3>2. QED
      BY <1>1, <1>3, <1>4, <2>1, <2>2, <3>1 DEF RingHolds
  <2>3. CASE ~incident
    <3>1. marks' = marks /\ (pending'.incident <=> pending # Absent /\ pending.incident)
      BY <1>1, <1>4, <2>3
    <3>2. QED
      BY <1>1, <1>3, <1>4, <2>1, <3>1 DEF RingHolds, RecorderInv
  <2>4. QED
    BY <2>2, <2>3
<1>8. LogHolds'
  <2>1. /\ count \in Int /\ count' \in Int /\ count <= count'
        /\ count - Len(ring) \in Int /\ count' - Len(ring') \in Int
        /\ count - Len(ring) <= count' - Len(ring')
    BY <1>1, <1>2, <1>3
  <2>2. file # Absent => Sound(file, count')
    BY <2>1, SoundLater DEF RecorderInv, LogHolds
  <2>3. writer # Absent => file # Absent /\ Sound(file, count' - Len(ring'))
    BY <2>1, SoundLater DEF RecorderInv, LogHolds
  <2>4. QED
    BY <1>1, <2>2, <2>3 DEF LogHolds, Sound
<1>9. Recorded'
  <2>1. Committed' = Committed
    BY <1>1, <1>2 DEF Committed
  <2>2. Written' = Written /\ Durable' = Durable
    BY <1>1 DEF Written, Durable
  <2>3. QED
    BY <1>1, <2>1, <2>2 DEF RecorderInv, Recorded
<1>10. QED
  BY <1>6, <1>7, <1>8, <1>9 DEF RecorderInv

\* A write that does not fail puts the whole ring into the log, and with a seal makes all
\* of the log durable.
LEMMA AllWritten ==
  ASSUME NEW f \in Log, f.synced <= Len(f.lines), NEW out \in Seq(Nat), NEW g, g = Extended(f, out)
  PROVE  /\ ToSet(f.lines) \subseteq ToSet(g.lines) /\ ToSet(out) \subseteq ToSet(g.lines)
         /\ Len(out) > 0 /\ out[Len(out)] = Seal =>
              ToSet(SubSeq(g.lines, 1, g.synced)) = ToSet(g.lines)
<1>1. /\ Onto(f, out, g) /\ g.lines = f.lines \o out
      /\ Len(out) > 0 /\ out[Len(out)] = Seal => g.synced = Len(f.lines \o out)
  BY ExtendedHolds
<1>2. f.lines \in Seq(Nat)
  BY DEF Log
<1> DEFINE L == f.lines
           G == g.lines
<1>3. L \in Seq(Nat) /\ G = L \o out
  BY <1>1, <1>2
<1> HIDE DEF L, G
<1>4. /\ G \in Seq(Nat) /\ Len(G) = Len(L) + Len(out) /\ Len(L) \in Nat /\ Len(out) \in Nat
      /\ \A i \in 1 .. Len(L) : G[i] = L[i]
      /\ \A j \in 1 .. Len(out) : G[Len(L) + j] = out[j]
  BY <1>3, Joined
<1>5. DOMAIN L = 1 .. Len(L) /\ DOMAIN G = 1 .. Len(G) /\ DOMAIN out = 1 .. Len(out)
  BY <1>3, <1>4
<1>6. ToSet(L) \subseteq ToSet(G)
  <2>1. \A i \in DOMAIN L : i \in DOMAIN G /\ G[i] = L[i]
    BY <1>4, <1>5
  <2>2. QED
    BY <2>1 DEF ToSet
<1>7. ToSet(out) \subseteq ToSet(G)
  <2>1. \A j \in DOMAIN out : Len(L) + j \in DOMAIN G /\ G[Len(L) + j] = out[j]
    BY <1>4, <1>5
  <2>2. QED
    BY <2>1 DEF ToSet
<1>8. ASSUME g.synced = Len(G)
      PROVE  ToSet(SubSeq(G, 1, g.synced)) = ToSet(G)
  <2>1. g.synced \in 0 .. Len(G)
    BY <1>4, <1>8
  <2>2. SubSeq(G, 1, g.synced) = G
    BY <1>4, <1>8
  <2>3. QED
    BY <2>2
<1>9. QED
  BY <1>1, <1>3, <1>6, <1>7, <1>8 DEF L, G

\* A commit that writes the ring: what it leaves is recorded, whether the records of the
\* step are an incident, follow one in its window, or close the window.
LEMMA CommitWrites ==
  ASSUME SachoAssumption, AbsentRecordAssumption, RecorderInv,
         run = "up", pending # Absent, pending' = Absent, base' = count,
         UNCHANGED <<count, run, marks>>, post' \in Nat,
         NEW f, Sound(f, count - Len(ring)), NEW since \in 0 .. SealEvery - 1,
         NEW sealing \in BOOLEAN, Write(f, since, sealing),
         pending.incident \/ post' = 0 => sealing,
         ~fault => marks \cap (1 .. base) \subseteq ToSet(SubSeq(f.lines, 1, f.synced)),
         ~fault /\ marks # {} /\ ~pending.incident =>
           {r \in 1 .. base : \A m \in marks : m <= r} \subseteq ToSet(f.lines)
  PROVE  RecorderInv'
<1> DEFINE out == Due(since, sealing)
<1>1. /\ ring \in Seq(Nat) /\ count \in Nat /\ base \in Nat /\ base <= count
      /\ Len(ring) \in Nat /\ Len(ring) <= count /\ DOMAIN ring = 1 .. Len(ring)
      /\ count - base <= Len(ring) /\ Latest(ring, count) /\ marks \subseteq 1 .. count
      /\ fault \in BOOLEAN /\ pending \in Duty /\ f \in Log /\ f.synced <= Len(f.lines)
      /\ Absent \notin Log /\ Absent \notin Nat
      /\ IF pending.incident THEN \E m \in marks : base < m ELSE marks \subseteq 1 .. base
  BY DEF RecorderInv, RecorderTypeOK, RingHolds, Latest, Sound, AbsentRecordAssumption, Log
<1>2. /\ Sound(file', count) /\ Onto(f, out, file')
      /\ ring' \in Seq(Nat) /\ Latest(ring', count)
      /\ writer' \in (0 .. SealEvery - 1) \cup {Absent}
      /\ writer' # Absent => ring' = << >>
      /\ \/ fault' = fault /\ writer' # Absent /\ file' = Extended(f, out)
         \/ fault' = TRUE
  BY <1>1, WriteHolds
<1>3. file' \in Log /\ file' # Absent
  BY <1>1, <1>2 DEF Sound
<1>4. RecorderTypeOK'
  <2>1. base' \in Nat /\ fault' \in BOOLEAN
    BY <1>1, <1>2
  <2>2. QED
    BY <1>1, <1>2, <1>3, <2>1 DEF RecorderInv, RecorderTypeOK
<1>5. RingHolds'
  <2>1. Len(ring') \in Nat /\ count' - base' = 0
    BY <1>1, <1>2
  <2>2. /\ Latest(ring', count') /\ base' <= count' /\ count' - base' <= Len(ring')
        /\ base' = count' /\ marks' \subseteq 1 .. base' /\ pending' = Absent
    BY <1>1, <1>2, <2>1
  <2>3. QED
    BY <2>2 DEF RingHolds
<1>6. LogHolds'
  <2>1. ring' = << >> => count' - Len(ring') = count
    BY <1>1
  <2>2. QED
    BY <1>2, <1>3, <2>1 DEF LogHolds, Sound
<1>7. Committed' = marks
  BY <1>1 DEF Committed
<1>8. ASSUME ~fault', marks # {}
      PROVE  /\ writer' # Absent /\ marks \subseteq Durable'
             /\ post' > 0 => {r \in 1 .. count : \A m \in marks : m <= r} \subseteq Written'
             /\ post' = 0 => Written' = Durable'
  <2>1. /\ ~fault /\ writer' # Absent /\ file' = Extended(f, out)
    BY <1>2, <1>8
  <2>2. /\ out \in Seq(Nat)
        /\ \A k \in DOMAIN ring : \E i \in DOMAIN out : out[i] = ring[k]
        /\ sealing => Len(out) > 0 /\ out[Len(out)] = Seal
    BY <1>1, DueHolds
  <2> HIDE DEF out
  <2>3. /\ ToSet(f.lines) \subseteq ToSet(file'.lines) /\ ToSet(out) \subseteq ToSet(file'.lines)
        /\ sealing => ToSet(SubSeq(file'.lines, 1, file'.synced)) = ToSet(file'.lines)
    BY <1>1, <2>1, <2>2, AllWritten
  <2>4. /\ Written' = ToSet(file'.lines)
        /\ Durable' = ToSet(SubSeq(file'.lines, 1, file'.synced))
    BY <1>3 DEF Written, Durable
  <2>5. sealing => Written' = Durable'
    BY <2>3, <2>4
  <2>6. ASSUME NEW r \in 1 .. count, base < r
        PROVE  r \in Written'
    <3>1. r - count + Len(ring) \in DOMAIN ring /\ ring[r - count + Len(ring)] = r
      <4> DEFINE k == r - count + Len(ring)
      <4>1. k \in 1 .. Len(ring) /\ count - Len(ring) + k = r
        BY <1>1, <2>6
      <4>2. ring[k] = count - Len(ring) + k
        BY <1>1, <4>1 DEF Latest
      <4>3. QED
        BY <1>1, <4>1, <4>2
    <3>2. r \in ToSet(out)
      BY <2>2, <3>1 DEF ToSet
    <3>3. QED
      BY <2>3, <2>4, <3>2
  <2>7. marks \cap (1 .. base) \subseteq Durable'
    <3>1. ToSet(SubSeq(f.lines, 1, f.synced)) \subseteq ToSet(SubSeq(file'.lines, 1, file'.synced))
      BY <1>1, <1>2, <2>2, OntoKeeps DEF out
    <3>2. QED
      BY <2>1, <2>4, <3>1
  <2>8. marks \subseteq Durable'
    <3>1. CASE pending.incident
      <4>1. ASSUME NEW m \in marks PROVE m \in Durable'
        <5>1. CASE m \in 1 .. base
          BY <2>7, <5>1
        <5>2. CASE m \notin 1 .. base
          <6>1. m \in 1 .. count /\ base < m
            BY <1>1, <5>2
          <6>2. QED
            BY <2>5, <2>6, <3>1, <6>1
        <5>3. QED
          BY <5>1, <5>2
      <4>2. QED
        BY <4>1
    <3>2. CASE ~pending.incident
      BY <1>1, <2>7, <3>2
    <3>3. QED
      BY <3>1, <3>2
  <2>9. {r \in 1 .. count : \A m \in marks : m <= r} \subseteq Written'
    <3>1. ASSUME NEW r \in 1 .. count, \A m \in marks : m <= r
          PROVE  r \in Written'
      <4>1. CASE base < r
        BY <2>6, <4>1
      <4>2. CASE ~(base < r)
        <5>1. r \in 1 .. base
          BY <1>1, <4>2
        <5>2. ~pending.incident
          <6>1. \A m \in marks : ~(base < m)
            BY <1>1, <3>1, <4>2
          <6>2. QED
            BY <1>1, <6>1
        <5>3. r \in ToSet(f.lines)
          BY <1>8, <2>1, <3>1, <5>1, <5>2
        <5>4. QED
          BY <2>3, <2>4, <5>3
      <4>3. QED
        BY <4>1, <4>2
    <3>2. QED
      BY <3>1
  <2>10. QED
    BY <2>1, <2>5, <2>8, <2>9
<1>9. Recorded'
  <2>1. ~fault' /\ Committed' # {} =>
          /\ writer' # Absent /\ Committed' \subseteq Durable'
          /\ post' > 0 => {r \in 1 .. base' : \A m \in Committed' : m <= r} \subseteq Written'
          /\ post' = 0 => Written' = Durable'
    BY <1>7, <1>8
  <2>2. run' # "clean"
    OBVIOUS
  <2>3. QED
    BY <2>1, <2>2 DEF Recorded
<1>10. QED
  BY <1>4, <1>5, <1>6, <1>9 DEF RecorderInv

\* A commit keeps the invariant, in each of its cases (recorder.rs after_step).
LEMMA CommitStep ==
  ASSUME SachoAssumption, AbsentRecordAssumption, RecorderInv, Commit
  PROVE  RecorderInv'
<1>1. /\ run = "up" /\ pending # Absent /\ pending' = Absent /\ base' = count
      /\ UNCHANGED <<count, run, marks>> /\ run' = "up" /\ count' = count /\ marks' = marks
  BY DEF Commit
<1>2. /\ ring \in Seq(Nat) /\ count \in Nat /\ base \in Nat /\ base <= count /\ post \in Nat
      /\ Len(ring) \in Nat /\ Len(ring) <= count /\ Latest(ring, count) /\ marks \subseteq 1 .. count
      /\ fault \in BOOLEAN /\ pending \in Duty /\ PostWindow \in Nat
      /\ writer \in (0 .. SealEvery - 1) \cup {Absent} /\ file \in Log \cup {Absent}
      /\ Absent \notin Log /\ Absent \notin Nat /\ SealEvery \in Nat \ {0}
      /\ pending.incident \in BOOLEAN /\ pending.counts \in BOOLEAN
      /\ ~pending.incident => marks \subseteq 1 .. base
  BY <1>1 DEF RecorderInv, RecorderTypeOK, RingHolds, Latest, AbsentRecordAssumption, Log, Duty,
     SachoAssumption
<1>3. ~pending.incident => Committed = marks
  BY <1>2 DEF Committed
\* A commit after which the log is as it was.
<1>4. ASSUME UNCHANGED <<ring, writer, file>>, post' \in Nat, fault' \in BOOLEAN,
             ~fault' /\ marks # {} =>
               /\ writer # Absent /\ marks \subseteq Durable
               /\ post' = 0 /\ Written = Durable
      PROVE  RecorderInv'
  <2>1. RecorderTypeOK'
    BY <1>1, <1>2, <1>4 DEF RecorderInv, RecorderTypeOK
  <2>2. RingHolds'
    <3>1. /\ Latest(ring', count') /\ base' <= count' /\ count' - base' <= Len(ring')
          /\ base' = count' /\ marks' \subseteq 1 .. base' /\ pending' = Absent
      BY <1>1, <1>2, <1>4
    <3>2. QED
      BY <3>1 DEF RingHolds
  <2>3. LogHolds'
    BY <1>1, <1>4 DEF RecorderInv, LogHolds, Sound
  <2>4. Recorded'
    <3>1. Committed' = marks /\ Written' = Written /\ Durable' = Durable
      BY <1>1, <1>2, <1>4 DEF Committed, Written, Durable
    <3>2. QED
      BY <1>1, <1>4, <3>1 DEF Recorded
  <2>5. QED
    BY <2>1, <2>2, <2>3, <2>4 DEF RecorderInv
<1>5. CASE CommitIdle
  <2>1. ~pending.incident /\ post = 0 /\ post' = 0 /\ fault' = fault
        /\ UNCHANGED <<ring, writer, file>>
    BY <1>5 DEF CommitIdle
  <2>2. ~fault' /\ marks # {} => writer # Absent /\ marks \subseteq Durable /\ Written = Durable
    BY <1>1, <1>3, <2>1 DEF RecorderInv, Recorded
  <2>3. QED
    BY <1>2, <1>4, <2>1, <2>2
<1>6. CASE CommitWindow
  <2>1. /\ ~pending.incident /\ post > 0
        /\ post' = IF pending.counts THEN post - 1 ELSE post
    BY <1>6 DEF CommitWindow
  <2>2. post' \in Nat
    BY <1>2, <2>1
  <2>3. ~fault /\ marks # {} =>
          /\ writer # Absent /\ marks \subseteq Durable
          /\ {r \in 1 .. base : \A m \in marks : m <= r} \subseteq Written
    BY <1>1, <1>3, <2>1 DEF RecorderInv, Recorded
  <2>4. CASE writer = Absent
    <3>1. UNCHANGED <<ring, writer, file, fault>>
      BY <1>6, <2>4 DEF CommitWindow
    <3>2. QED
      BY <1>2, <1>4, <2>2, <2>3, <2>4, <3>1
  <2>5. CASE writer # Absent
    <3>1. Write(file, writer, post' = 0)
      BY <1>6, <2>5 DEF CommitWindow
    <3>2. file # Absent /\ Sound(file, count - Len(ring)) /\ writer \in 0 .. SealEvery - 1
      BY <1>2, <2>5 DEF RecorderInv, LogHolds
    <3>3. Written = ToSet(file.lines) /\ Durable = ToSet(SubSeq(file.lines, 1, file.synced))
      BY <3>2 DEF Written, Durable
    <3>4. /\ ~fault => marks \cap (1 .. base) \subseteq ToSet(SubSeq(file.lines, 1, file.synced))
          /\ ~fault /\ marks # {} /\ ~pending.incident =>
               {r \in 1 .. base : \A m \in marks : m <= r} \subseteq ToSet(file.lines)
      BY <2>3, <3>3
    <3>5. pending.incident \/ post' = 0 => post' = 0
      BY <2>1
    <3>6. (post' = 0) \in BOOLEAN
      OBVIOUS
    <3>7. QED
      BY <1>1, <2>2, <3>1, <3>2, <3>4, <3>5, <3>6, CommitWrites
  <2>6. QED
    BY <2>4, <2>5
<1>7. CASE CommitIncident
  <2>1. /\ pending.incident /\ writer # Absent /\ post' = PostWindow /\ Write(file, writer, TRUE)
    BY <1>7 DEF CommitIncident
  <2>2. file # Absent /\ Sound(file, count - Len(ring)) /\ writer \in 0 .. SealEvery - 1
    BY <1>2, <2>1 DEF RecorderInv, LogHolds
  <2>3. ~fault => marks \cap (1 .. base) \subseteq ToSet(SubSeq(file.lines, 1, file.synced))
    <3>1. Durable = ToSet(SubSeq(file.lines, 1, file.synced))
      BY <2>2 DEF Durable
    <3>2. ~fault => Committed \subseteq Durable
      BY <1>1 DEF RecorderInv, Recorded
    <3>3. QED
      BY <3>1, <3>2 DEF Committed
  <2>4. QED
    BY <1>1, <1>2, <2>1, <2>2, <2>3, CommitWrites
<1>8. CASE CommitCreates
  <2> DEFINE f == [lines |-> << >>, synced |-> 0]
  <2>1. /\ pending.incident /\ writer = Absent /\ post' = PostWindow /\ Write(f, 0, TRUE)
    BY <1>8 DEF CommitCreates
  <2>2. Sound(f, count - Len(ring)) /\ 0 \in 0 .. SealEvery - 1
    BY <1>2 DEF Sound, Log, InOrder
  <2>3. ~fault => marks \cap (1 .. base) = {}
    BY <1>1, <2>1 DEF RecorderInv, Recorded, Committed
  <2> HIDE DEF f
  <2>4. QED
    BY <1>1, <1>2, <2>1, <2>2, <2>3, CommitWrites
<1>9. CASE CommitCreateFails
  <2>1. /\ writer = Absent /\ post' = PostWindow /\ fault' = TRUE /\ UNCHANGED <<ring, writer>>
        /\ file' \in IF file = Absent THEN {Absent, [lines |-> << >>, synced |-> 0]} ELSE {file}
    BY <1>9 DEF CommitCreateFails
  <2>2. [lines |-> << >>, synced |-> 0] \in Log /\ Sound([lines |-> << >>, synced |-> 0], count)
    BY DEF Sound, Log, InOrder
  <2>3. file' \in Log \cup {Absent} /\ (file' # Absent => Sound(file', count))
    BY <1>2, <2>1, <2>2 DEF RecorderInv, LogHolds
  <2>4. RecorderTypeOK'
    BY <1>1, <1>2, <2>1, <2>3 DEF RecorderInv, RecorderTypeOK
  <2>5. RingHolds'
    <3>1. /\ Latest(ring', count') /\ base' <= count' /\ count' - base' <= Len(ring')
          /\ base' = count' /\ marks' \subseteq 1 .. base' /\ pending' = Absent
      BY <1>1, <1>2, <2>1
    <3>2. QED
      BY <3>1 DEF RingHolds
  <2>6. LogHolds' /\ Recorded'
    BY <1>1, <2>1, <2>3 DEF LogHolds, Recorded, Sound
  <2>7. QED
    BY <2>4, <2>5, <2>6 DEF RecorderInv
<1>10. QED
  BY <1>5, <1>6, <1>7, <1>8, <1>9 DEF Commit

\* The log loses its end in a crash: what an fsync covers stays.
LEMMA TruncatedHolds ==
  ASSUME NEW last \in Nat, NEW f, Sound(f, last), NEW n \in f.synced .. Len(f.lines),
         NEW g, g = [f EXCEPT !.lines = SubSeq(f.lines, 1, n)]
  PROVE  Sound(g, last) /\ Onto(f, << >>, g)
<1>1. /\ f \in Log /\ f.lines \in Seq(Nat) /\ f.synced \in Nat /\ Len(f.lines) \in Nat
      /\ InOrder(f.lines) /\ DOMAIN f.lines = 1 .. Len(f.lines)
      /\ \A i \in DOMAIN f.lines : f.lines[i] <= last
  BY DEF Sound, Log
<1>2. n \in 0 .. Len(f.lines) /\ n \in Nat /\ n <= Len(f.lines) /\ f.synced <= n
  BY <1>1
<1>3. g.lines = SubSeq(f.lines, 1, n) /\ g.synced = f.synced
      /\ g = [lines |-> SubSeq(f.lines, 1, n), synced |-> f.synced]
  BY <1>1 DEF Log
<1>4. /\ g.lines \in Seq(Nat) /\ Len(g.lines) = n /\ DOMAIN g.lines = 1 .. n
      /\ \A i \in 1 .. n : g.lines[i] = f.lines[i]
  <2>1. /\ SubSeq(f.lines, 1, n) \in Seq(Nat) /\ Len(SubSeq(f.lines, 1, n)) = n
        /\ DOMAIN SubSeq(f.lines, 1, n) = 1 .. n
        /\ \A i \in 1 .. n : SubSeq(f.lines, 1, n)[i] = f.lines[i]
    BY <1>1, <1>2, Cut
  <2>2. QED
    BY <1>3, <2>1, Zenon
<1>5. \A i \in 1 .. n : i \in DOMAIN f.lines
  BY <1>1, <1>2
<1>6. g \in Log
  BY <1>1, <1>3, <1>4 DEF Log
<1>7. Sound(g, last)
  <2>1. InOrder(g.lines)
    BY <1>1, <1>4, <1>5 DEF InOrder
  <2>2. \A i \in DOMAIN g.lines : g.lines[i] <= last
    BY <1>1, <1>4, <1>5
  <2>3. g.synced <= Len(g.lines)
    BY <1>2, <1>3, <1>4
  <2>4. QED
    BY <1>6, <2>1, <2>2, <2>3 DEF Sound
<1>8. f.lines \o << >> = f.lines
  BY <1>1
<1>9. Onto(f, << >>, g)
  <2>1. Len(g.lines) <= Len(f.lines) + Len(<< >>)
    BY <1>1, <1>2, <1>4
  <2>2. f.synced <= g.synced /\ g.synced <= Len(g.lines)
    BY <1>1, <1>2, <1>3, <1>4
  <2>3. QED
    BY <1>4, <1>6, <1>8, <2>1, <2>2 DEF Onto
<1>10. QED
  BY <1>7, <1>9

\* A crash takes nothing an fsync covers.
LEMMA DiesStep ==
  ASSUME SachoAssumption, AbsentRecordAssumption, RecorderInv, Dies
  PROVE  /\ RecorderInv'
         /\ file # Absent => file' # Absent /\ Onto(file, << >>, file')
<1>1. /\ run' = "crashed" /\ ring' = << >> /\ post' = 0 /\ writer' = Absent /\ pending' = Absent
      /\ UNCHANGED <<count, base, marks, fault>>
      /\ file' \in IF file = Absent THEN {Absent}
                   ELSE {[file EXCEPT !.lines = SubSeq(@, 1, n)] : n \in file.synced .. Len(file.lines)}
  BY DEF Dies, Forget
<1>2. /\ count \in Nat /\ base \in Nat /\ base <= count /\ marks \subseteq 1 .. count
      /\ fault \in BOOLEAN /\ Absent \notin Log
      /\ file # Absent => Sound(file, count)
  BY DEF RecorderInv, RecorderTypeOK, RingHolds, LogHolds, AbsentRecordAssumption, Log
<1>3. /\ file = Absent => file' = Absent
      /\ file # Absent => file' # Absent /\ Sound(file', count) /\ Onto(file, << >>, file')
  <2>1. CASE file = Absent
    BY <1>1, <2>1
  <2>2. CASE file # Absent
    <3>1. PICK n \in file.synced .. Len(file.lines) :
            file' = [file EXCEPT !.lines = SubSeq(file.lines, 1, n)]
      BY <1>1, <2>2
    <3>2. Sound(file', count) /\ Onto(file, << >>, file')
      BY <1>2, <2>2, <3>1, TruncatedHolds
    <3>3. QED
      BY <1>2, <2>2, <3>2 DEF Sound
  <2>3. QED
    BY <2>1, <2>2
<1>4. << >> \in Seq(Nat) /\ Latest(<< >>, count)
  BY <1>2 DEF Latest
<1>5. RecorderTypeOK'
  BY <1>1, <1>2, <1>3, <1>4 DEF RecorderTypeOK, Sound
<1>6. RingHolds' /\ LogHolds' /\ Recorded'
  BY <1>1, <1>2, <1>3, <1>4 DEF RingHolds, LogHolds, Recorded, Sound
<1>7. QED
  BY <1>3, <1>5, <1>6 DEF RecorderInv

\* Closing the log seals what is left of it, or latches the failure (writer.rs close).
LEMMA CloseStep ==
  ASSUME SachoAssumption, AbsentRecordAssumption, RecorderInv, CloseRun
  PROVE  /\ RecorderInv'
         /\ file # Absent =>
              /\ file' # Absent /\ file.synced <= file'.synced
              /\ IsPrefix(SubSeq(file.lines, 1, file.synced), file'.lines)
<1> DEFINE last == IF writer > 0 THEN <<Seal>> ELSE << >>
<1>1. /\ run = "up" /\ pending = Absent
      /\ run' = IF fault' THEN "incomplete" ELSE "clean"
      /\ ring' = << >> /\ post' = 0 /\ writer' = Absent /\ pending' = Absent
      /\ UNCHANGED <<count, base, marks>>
  BY DEF CloseRun, Forget
<1>2. /\ count \in Nat /\ base \in Nat /\ base = count /\ marks \subseteq 1 .. count
      /\ fault \in BOOLEAN /\ Absent \notin Log /\ file \in Log \cup {Absent}
      /\ file # Absent => Sound(file, count)
      /\ writer # Absent => file # Absent
      /\ marks = Committed
  BY <1>1 DEF RecorderInv, RecorderTypeOK, RingHolds, LogHolds, AbsentRecordAssumption, Log, Committed
<1>3. << >> \in Seq(Nat) /\ Latest(<< >>, count)
  BY <1>2 DEF Latest
<1>4. \/ UNCHANGED <<file, fault>>
      \/ file # Absent /\ file' = Extended(file, last) /\ fault' = fault
      \/ file # Absent /\ file' \in Torn(file, last) /\ fault' = TRUE
  BY <1>2 DEF CloseRun, CloseWriter
<1>5. last \in Seq(Nat)
  BY DEF Seal
<1>6. InOrder(last) /\ \A i \in DOMAIN last : last[i] = Seal
  BY DEF InOrder
<1> HIDE DEF last
<1>7. file # Absent =>
        /\ file' # Absent /\ Sound(file', count) /\ file.synced <= file'.synced
        /\ ToSet(SubSeq(file.lines, 1, file.synced)) \subseteq ToSet(SubSeq(file'.lines, 1, file'.synced))
        /\ IsPrefix(SubSeq(file.lines, 1, file.synced), file'.lines)
  <2> SUFFICES ASSUME file # Absent
               PROVE  /\ file' # Absent /\ Sound(file', count) /\ file.synced <= file'.synced
                      /\ ToSet(SubSeq(file.lines, 1, file.synced)) \subseteq
                           ToSet(SubSeq(file'.lines, 1, file'.synced))
                      /\ IsPrefix(SubSeq(file.lines, 1, file.synced), file'.lines)
    OBVIOUS
  <2>1. file \in Log /\ file.synced <= Len(file.lines) /\ Sound(file, count)
    BY <1>2 DEF Sound
  <2>2. CASE UNCHANGED <<file, fault>>
    <3>1. file' = file
      BY <2>2
    <3>2. IsPrefix(SubSeq(file.lines, 1, file.synced), file.lines)
      BY <2>1, LogStays
    <3>3. file.synced \in Nat
      BY <2>1 DEF Log
    <3>4. /\ file.synced <= file.synced /\ file # Absent /\ Sound(file, count)
          /\ ToSet(SubSeq(file.lines, 1, file.synced)) \subseteq
               ToSet(SubSeq(file.lines, 1, file.synced))
      BY <2>1, <3>3
    <3>5. QED
      BY <3>1, <3>2, <3>4, Zenon
  <2>3. ASSUME Onto(file, last, file')
        PROVE  /\ file' # Absent /\ Sound(file', count) /\ file.synced <= file'.synced
               /\ ToSet(SubSeq(file.lines, 1, file.synced)) \subseteq
                    ToSet(SubSeq(file'.lines, 1, file'.synced))
               /\ IsPrefix(SubSeq(file.lines, 1, file.synced), file'.lines)
    <3>1. Sound(file', count)
      BY <1>2, <1>5, <1>6, <2>1, <2>3, OntoSound
    <3>2. /\ ToSet(SubSeq(file.lines, 1, file.synced)) \subseteq
               ToSet(SubSeq(file'.lines, 1, file'.synced))
          /\ IsPrefix(SubSeq(file.lines, 1, file.synced), file'.lines)
      BY <1>5, <2>1, <2>3, OntoKeeps
    <3>3. file' # Absent /\ file.synced <= file'.synced
      BY <1>2, <2>3 DEF Onto
    <3>4. QED
      BY <3>1, <3>2, <3>3
  <2>4. CASE file' = Extended(file, last)
    BY <1>5, <2>1, <2>3, <2>4, ExtendedHolds
  <2>5. CASE file' \in Torn(file, last)
    BY <1>5, <2>1, <2>3, <2>5, TornHolds
  <2>6. QED
    BY <1>4, <2>2, <2>4, <2>5
<1>8. file = Absent => file' = Absent
  BY <1>4
<1>9. fault' \in BOOLEAN /\ (fault => fault')
  BY <1>2, <1>4
<1>10. RecorderTypeOK'
  BY <1>1, <1>2, <1>3, <1>7, <1>8, <1>9 DEF RecorderTypeOK, Sound
<1>11. RingHolds' /\ LogHolds'
  BY <1>1, <1>2, <1>3, <1>7, <1>8 DEF RingHolds, LogHolds, Sound
<1>12. Durable \subseteq Durable'
  BY <1>7, <1>8 DEF Durable
<1>13. Recorded'
  <2>1. run' = "clean" => ~fault /\ marks \subseteq Durable
    BY <1>1, <1>2, <1>9 DEF RecorderInv, Recorded
  <2>2. QED
    BY <1>1, <1>12, <2>1 DEF Recorded
<1>14. QED
  BY <1>7, <1>10, <1>11, <1>13 DEF RecorderInv

\* A new run finds the log and has committed nothing yet.
LEMMA StartsAgainStep ==
  ASSUME AbsentRecordAssumption, RecorderInv, StartsAgain
  PROVE  RecorderInv'
<1>1. /\ run # "up" /\ run' = "up" /\ fault' = FALSE /\ marks' = {} /\ base' = count
      /\ UNCHANGED <<ring, count, post, writer, file, pending>>
  BY DEF StartsAgain
<1>2. RecorderTypeOK'
  BY <1>1 DEF RecorderInv, RecorderTypeOK
<1>3. LogHolds'
  BY <1>1 DEF RecorderInv, LogHolds, Sound
<1>4. Recorded'
  BY <1>1 DEF Recorded, Committed
<1>5. RingHolds'
  <2>1. Len(ring) \in Nat /\ count - count = 0 /\ count <= count
    BY DEF RecorderInv, RecorderTypeOK
  <2>2. pending = Absent
    BY <1>1 DEF RecorderInv, RingHolds
  <2>3. QED
    BY <1>1, <2>1, <2>2 DEF RecorderInv, RingHolds
<1>6. QED
  BY <1>2, <1>3, <1>4, <1>5 DEF RecorderInv

\* Every step keeps the recorder's invariant.
LEMMA RecorderStep ==
  ASSUME SachoAssumption, AbsentRecordAssumption, RecorderInv, [RecorderNext]_recorderVars
  PROVE  RecorderInv'
<1>1. ASSUME HandleQuiet \/ RecordStop
             \/ \E b \in BOOLEAN : HandleProposal(b) \/ HandleFault(b)
      PROVE  RecorderInv'
  <2>1. \E n \in {1, 2}, incident, counts \in BOOLEAN : Handle(n, incident, counts)
    BY <1>1 DEF HandleQuiet, RecordStop, HandleProposal, HandleFault
  <2>2. QED
    BY <2>1, HandleStep
<1>2. ASSUME UNCHANGED recorderVars PROVE RecorderInv'
  <2>1. /\ RecorderTypeOK' /\ RingHolds' /\ LogHolds'
    BY <1>2 DEF recorderVars, RecorderInv, RecorderTypeOK, RingHolds, LogHolds
  <2>2. Recorded'
    BY <1>2 DEF recorderVars, RecorderInv, Recorded, Committed, Written, Durable
  <2>3. QED
    BY <2>1, <2>2 DEF RecorderInv
<1>3. QED
  BY <1>1, <1>2, CommitStep, DiesStep, CloseStep, StartsAgainStep DEF RecorderNext

\* The invariant holds in every state of every recorder.
LEMMA RecorderAlways == RecorderSpec => []RecorderInv
<1>1. SachoAssumption /\ AbsentRecordAssumption
  BY SachoAssumption, AbsentRecordAssumption
<1>2. RecorderInit => RecorderInv
  BY <1>1, RecorderStart
<1>3. RecorderInv /\ [RecorderNext]_recorderVars => RecorderInv'
  BY <1>1, RecorderStep
<1>4. QED
  BY <1>2, <1>3, PTL DEF RecorderSpec

\* No incident is lost in silence: once committed its record is under a seal that is
\* fsynced, or the failure is latched; and a run that closed clean has all its incidents
\* there (recorder.rs after_step, runtime.rs close).
THEOREM IncidentsAlwaysDurable == RecorderSpec => []IncidentsDurable
<1>1. RecorderInv => IncidentsDurable
  <2> SUFFICES ASSUME RecorderInv, (run = "up" /\ pending = Absent /\ ~fault) \/ run = "clean"
               PROVE  marks \subseteq Durable
    BY DEF IncidentsDurable
  <2>1. CASE run = "clean"
    BY <2>1 DEF RecorderInv, Recorded
  <2>2. CASE run = "up" /\ pending = Absent /\ ~fault
    BY <2>2 DEF RecorderInv, RingHolds, Recorded, Committed
  <2>3. QED
    BY <2>1, <2>2
<1>2. QED
  BY <1>1, RecorderAlways, PTL

\* While a window is open all that followed its incident is in the log, and when it has
\* closed nothing is left unsealed; and the log holds each record at most once, in order,
\* whatever failed and however often the process restarted (recorder.rs, sacho.rs
\* flush_into).
THEOREM LogAlwaysWhole == RecorderSpec => []LogWhole
<1>1. RecorderInv => WindowComplete
  <2> SUFFICES ASSUME RecorderInv, run = "up" /\ pending = Absent /\ ~fault /\ marks # {}
               PROVE  /\ post > 0 => {r \in 1 .. count : \A m \in marks : m <= r} \subseteq Written
                      /\ post = 0 => Written = Durable
    BY DEF WindowComplete
  <2>1. base = count /\ Committed = marks
    BY DEF RecorderInv, RingHolds, Committed
  <2>2. QED
    BY <2>1 DEF RecorderInv, Recorded
<1>2. RecorderInv => LogInOrder
  BY DEF RecorderInv, LogHolds, Sound, InOrder, LogInOrder
<1>3. RecorderInv => LogWhole
  BY <1>1, <1>2 DEF LogWhole
<1>4. QED
  BY <1>3, RecorderAlways, PTL

\* What SealedForever says of a step.
SealsKept ==
  file # Absent =>
    /\ file' # Absent
    /\ file'.synced >= file.synced
    /\ IsPrefix(SubSeq(file.lines, 1, file.synced), file'.lines)

\* No step takes back what a seal covers.
LEMMA SealsStep ==
  ASSUME SachoAssumption, AbsentRecordAssumption, RecorderInv, [RecorderNext]_recorderVars
  PROVE  SealsKept
<1> SUFFICES ASSUME file # Absent
             PROVE  /\ file' # Absent
                    /\ file'.synced >= file.synced
                    /\ IsPrefix(SubSeq(file.lines, 1, file.synced), file'.lines)
  BY DEF SealsKept
<1>1. /\ file \in Log /\ file.synced <= Len(file.lines) /\ file.synced \in Nat /\ Absent \notin Log
      /\ IsPrefix(SubSeq(file.lines, 1, file.synced), file.lines)
  <2>1. file \in Log /\ file.synced <= Len(file.lines)
    BY DEF RecorderInv, LogHolds, Sound
  <2>2. IsPrefix(SubSeq(file.lines, 1, file.synced), file.lines)
    BY <2>1, LogStays
  <2>3. QED
    BY <2>1, <2>2 DEF Log, AbsentRecordAssumption
<1>2. ASSUME NEW lines \in Seq(Nat), Onto(file, lines, file')
      PROVE  /\ file' # Absent
             /\ file'.synced >= file.synced
             /\ IsPrefix(SubSeq(file.lines, 1, file.synced), file'.lines)
  <2>1. file' \in Log /\ file.synced <= file'.synced /\ file'.synced \in Nat
    BY <1>2 DEF Onto, Log
  <2>2. IsPrefix(SubSeq(file.lines, 1, file.synced), file'.lines)
    BY <1>1, <1>2, OntoKeeps
  <2>3. QED
    BY <1>1, <2>1, <2>2
<1>3. CASE file' = file
  BY <1>1, <1>3
<1>4. ASSUME Commit, writer # Absent, NEW sealing \in BOOLEAN, Write(file, writer, sealing)
      PROVE  \E lines \in Seq(Nat) : Onto(file, lines, file')
  <2>1. /\ ring \in Seq(Nat) /\ count \in Nat /\ Latest(ring, count)
        /\ writer \in 0 .. SealEvery - 1 /\ Sound(file, count - Len(ring))
    BY <1>4 DEF RecorderInv, RecorderTypeOK, RingHolds, LogHolds
  <2>2. Onto(file, Due(writer, sealing), file')
    BY <1>4, <2>1, WriteHolds
  <2>3. Due(writer, sealing) \in Seq(Nat)
    BY <2>1, DueHolds
  <2>4. QED
    BY <2>2, <2>3
<1>5. CASE Commit
  <2>1. \/ file' = file
        \/ writer # Absent /\ \E sealing \in BOOLEAN : Write(file, writer, sealing)
    BY <1>5 DEF Commit, CommitIdle, CommitWindow, CommitIncident, CommitCreates,
       CommitCreateFails
  <2>2. QED
    BY <1>2, <1>3, <1>4, <1>5, <2>1
<1>6. CASE Dies
  <2>1. Onto(file, << >>, file') /\ << >> \in Seq(Nat)
    BY <1>6, DiesStep
  <2>2. QED
    BY <1>2, <2>1
<1>7. CASE CloseRun
  <2>1. /\ file' # Absent /\ file.synced <= file'.synced
        /\ IsPrefix(SubSeq(file.lines, 1, file.synced), file'.lines)
        /\ RecorderInv'
    BY <1>7, CloseStep
  <2>2. file'.synced \in Nat
    BY <2>1 DEF RecorderInv, LogHolds, Sound, Log
  <2>3. QED
    BY <1>1, <2>1, <2>2
<1>8. QED
  BY <1>3, <1>5, <1>6, <1>7 DEF RecorderNext, recorderVars, HandleQuiet, RecordStop,
     HandleProposal, HandleFault, Handle, StartsAgain

\* What a seal covers is never changed or lost again: no crash, failed write or later run
\* touches it (writer.rs create never overwrites).
THEOREM SealedAlwaysForever == RecorderSpec => SealedForever
<1>1. SachoAssumption /\ AbsentRecordAssumption
  BY SachoAssumption, AbsentRecordAssumption
<1>2. RecorderInv /\ [RecorderNext]_recorderVars => [SealsKept]_recorderVars
  BY <1>1, SealsStep
<1>3. [][SealsKept]_recorderVars => SealedForever
  BY PTL DEF SealedForever, SealsKept
<1>4. QED
  BY <1>2, <1>3, RecorderAlways, PTL DEF RecorderSpec

-----------------------------------------------------------------------------
(* Signed input.                                                           *)

\* b knows of every input that a knows of.
AtLeast(b, a) ==
  /\ b.epoch >= a.epoch
  /\ b.epoch = a.epoch => \A r \in Role : b.counters[r] >= a.counters[r]

InFlight == reply.kind = "positive" /\ reply.input # None

Remembers ==
  /\ TypeOK
  /\ MotionIsDurable
  /\ \A i \in Input : admitted[i] <= 1
  /\ proc # "down" => AtLeast(auth, disk.auth)
  /\ proc = "down" => staged = None
  /\ staged # None => staged = auth
  /\ proc \in {"emit", "save"} => ~InFlight
  /\ proc = "checkpoint" /\ InFlight =>
       staged = auth /\ Spent(auth, reply.input) /\ admitted[reply.input] = 0
  /\ proc = "reply" /\ InFlight =>
       Spent(disk.auth, reply.input) /\ admitted[reply.input] = 0

USE AuthAssumption

-----------------------------------------------------------------------------
(* Types.                                                                  *)

\* The state before the first process is well typed.
LEMMA InitTypes == Init => TypeOK
  BY DEF Init, TypeOK, Epoch, Stage, Auth, NoAuth, Reply, NoReply, Kind, StateFile

\* A line of input, handled, leaves well-typed variables (main.rs enforce_stdio).
LEMMA LineTypes ==
  ASSUME TypeOK,
         \/ \E i \in Input, k \in Kind : AcceptSigned(i, k)
         \/ \E i \in Input : RefuseSigned(i)
         \/ \E k \in Kind : Unsigned(k)
  PROVE  TypeOK'
<1>1. ASSUME NEW i \in Input, NEW k \in Kind, AcceptSigned(i, k) PROVE TypeOK'
  <2>1. auth' \in Auth
    BY <1>1 DEF AcceptSigned, TypeOK, Auth, Input
  <2>2. QED
    BY <1>1, <2>1 DEF AcceptSigned, Returns, TypeOK, Reply, Stage
<1>2. ASSUME NEW i \in Input, RefuseSigned(i) PROVE TypeOK'
  BY <1>2 DEF RefuseSigned, Returns, TypeOK, Reply, Stage, Kind
<1>3. ASSUME NEW k \in Kind, Unsigned(k) PROVE TypeOK'
  BY <1>3 DEF Unsigned, Returns, TypeOK, Reply, Stage, Kind
<1>4. QED
  BY <1>1, <1>2, <1>3

\* What a commit writes is a state file.
LEMMA CheckpointedType == ASSUME TypeOK PROVE Checkpointed \in StateFile
  BY DEF TypeOK, Checkpointed, StateFile

\* Every step of the loop keeps its variables in their types.
LEMMA StepTypes == TypeOK /\ [Next]_vars => TypeOK'
<1> SUFFICES ASSUME TypeOK, [Next]_vars PROVE TypeOK'
  OBVIOUS
<1>1. CASE \/ \E i \in Input, k \in Kind : AcceptSigned(i, k)
           \/ \E i \in Input : RefuseSigned(i)
           \/ \E k \in Kind : Unsigned(k)
  BY <1>1, LineTypes
<1>2. CASE Persist
  BY <1>2, CheckpointedType DEF Persist, TypeOK, Stage
<1>3. CASE Send
  <2>1. admitted' \in [Input -> Nat]
    BY <1>3 DEF Send, TypeOK, Reply
  <2>2. QED
    BY <1>3, <2>1 DEF Send, TypeOK, Stage
<1>4. CASE Crash
  BY <1>4 DEF Crash, Ends, TypeOK, Stage, Auth, NoAuth, Reply, NoReply, Kind
<1>5. CASE PersistFails
  BY <1>5, CheckpointedType
  DEF PersistFails, Ends, TypeOK, Stage, Auth, NoAuth, Reply, NoReply, Kind
<1>6. CASE Open
  <2>1. disk' \in StateFile
    BY <1>6 DEF Open, TypeOK, StateFile
  <2>2. auth' \in Auth
    BY <1>6 DEF Open, TypeOK, StateFile, Auth, NoAuth, Epoch
  <2>3. QED
    BY <1>6, <2>1, <2>2 DEF Open, TypeOK, Stage, StateFile
<1>7. ASSUME NEW h \in BOOLEAN, OperatorSet(h) PROVE TypeOK'
  BY <1>7 DEF OperatorSet, TypeOK, StateFile
<1>8. ASSUME NEW e \in Epoch, InstallBundle(e) PROVE TypeOK'
  BY <1>8 DEF InstallBundle, TypeOK
<1>9. CASE UNCHANGED vars
  BY <1>9 DEF vars, TypeOK
<1>10. QED
  BY <1>1, <1>2, <1>3, <1>4, <1>5, <1>6, <1>7, <1>8, <1>9 DEF Next

\* The variables of the authenticated loop always have their types.
THEOREM TypeCorrect == Spec => []TypeOK
  BY InitTypes, StepTypes, PTL DEF Spec
-----------------------------------------------------------------------------
(* Memory and disk.                                                        *)

\* An input spent for a pair is spent for every pair that knows at least as much.
LEMMA SpentGrows ==
  ASSUME NEW a \in Auth, NEW b \in Auth, AtLeast(b, a), NEW i \in Input, Spent(a, i)
  PROVE  Spent(b, i)
  BY DEF Auth, Input, AtLeast, Spent, Epoch

\* The verifier accepts no input that is spent (auth.rs verify).
LEMMA VerifiedIsNew ==
  ASSUME auth \in Auth, NEW i \in Input, Verified(i)
  PROVE  ~Spent(auth, i)
  BY DEF Auth, Input, Verified, Spent, Epoch

\* Nothing has been sent before the first process.
LEMMA InitRemembers == Init => Remembers
<1> SUFFICES ASSUME Init PROVE Remembers
  OBVIOUS
<1>1. TypeOK
  BY InitTypes
<1>2. MotionIsDurable
  BY DEF Init, MotionIsDurable
<1>3. QED
  BY <1>1, <1>2 DEF Init, Remembers, InFlight, NoReply

\* A signed line that verifies names an input that never moved the robot, and
\* stages a checkpoint at which it is spent.
LEMMA AcceptRemembers ==
  ASSUME Remembers, NEW i \in Input, NEW k \in Kind, AcceptSigned(i, k)
  PROVE  Remembers'
<1>1. TypeOK /\ TypeOK'
  BY LineTypes DEF Remembers
<1>2. auth \in Auth /\ auth' \in Auth /\ disk.auth \in Auth /\ admitted \in [Input -> Nat]
  BY <1>1 DEF TypeOK, StateFile
<1>3. AtLeast(auth, disk.auth)
  BY DEF AcceptSigned, Remembers
<1>4. ~Spent(auth, i)
  BY <1>2, VerifiedIsNew DEF AcceptSigned
<1>5. admitted[i] = 0
  <2>1. ~Spent(disk.auth, i)
    BY <1>2, <1>3, <1>4, SpentGrows
  <2>2. ~(admitted[i] > 0)
    BY <2>1 DEF Remembers, MotionIsDurable
  <2>3. QED
    BY <2>2, <1>2
<1>6. /\ auth'.epoch = auth.epoch
      /\ \A r \in Role : auth'.counters[r] >= auth.counters[r]
      /\ auth'.counters[i.role] = i.counter
  BY <1>2 DEF AcceptSigned, Verified, Auth, Input
<1>7. AtLeast(auth', disk.auth)
  BY <1>2, <1>3, <1>6 DEF AtLeast, Auth
<1>8. Spent(auth', i)
  BY <1>2, <1>6 DEF Spent, AcceptSigned, Verified, Input, Auth
<1>9. /\ disk' = disk /\ admitted' = admitted /\ staged' = auth'
      /\ reply' = [input |-> i, kind |-> k]
      /\ proc' = IF k \in {"positive", "ack"} THEN "checkpoint" ELSE "emit"
  BY DEF AcceptSigned, Returns
<1>10. MotionIsDurable'
  BY <1>9 DEF Remembers, MotionIsDurable, Spent
<1>11. \A j \in Input : admitted'[j] <= 1
  BY <1>9 DEF Remembers
<1>12. proc' \in {"emit", "save"} => ~InFlight'
  BY <1>9 DEF InFlight
<1>13. proc' = "checkpoint" /\ InFlight' =>
         staged' = auth' /\ Spent(auth', reply'.input) /\ admitted'[reply'.input] = 0
  BY <1>5, <1>8, <1>9
<1>14. proc' # "reply"
  BY <1>9
<1>15. AtLeast(auth', disk'.auth)
  BY <1>7, <1>9
<1>16. QED
  BY <1>1, <1>9, <1>10, <1>11, <1>12, <1>13, <1>14, <1>15 DEF Remembers

\* A step that leaves the verifier, the disk and the counts alone, and names no
\* input in its reply, remembers as much.
LEMMA UnsignedRemembers ==
  ASSUME Remembers, TypeOK', NEW k \in Kind, Returns(None, k), proc = "ready",
         UNCHANGED <<auth, staged, disk, admitted>>
  PROVE  Remembers'
<1>1. ~InFlight' /\ AtLeast(auth', disk'.auth) /\ proc' \in {"checkpoint", "emit"}
  BY DEF Returns, InFlight, Remembers
<1>2. MotionIsDurable'
  BY DEF Remembers, MotionIsDurable, Spent
<1>3. QED
  BY <1>1, <1>2 DEF Remembers

\* A commit writes at least what the file held, and all that memory knows when
\* an input was staged (state.rs persist_checkpoint).
LEMMA CheckpointedGrows ==
  ASSUME Remembers, proc \in {"checkpoint", "save"}
  PROVE  /\ AtLeast(Checkpointed.auth, disk.auth)
         /\ AtLeast(auth, Checkpointed.auth)
         /\ Checkpointed.auth \in Auth
         /\ \A i \in Input : admitted[i] > 0 => Spent(Checkpointed.auth, i)
<1>1. TypeOK /\ AtLeast(auth, disk.auth)
  BY DEF Remembers
<1>2. auth \in Auth /\ disk.auth \in Auth
  BY <1>1 DEF TypeOK, StateFile
<1>3. Checkpointed.auth \in {disk.auth, auth}
  BY DEF Checkpointed, Remembers
<1>4. AtLeast(disk.auth, disk.auth) /\ AtLeast(auth, auth)
  BY <1>2 DEF AtLeast, Auth
<1>5. \A i \in Input : admitted[i] > 0 => Spent(disk.auth, i)
  BY DEF Remembers, MotionIsDurable
<1>6. \A i \in Input : admitted[i] > 0 => Spent(auth, i)
  BY <1>1, <1>2, <1>5, SpentGrows
<1>7. QED
  BY <1>1, <1>2, <1>3, <1>4, <1>5, <1>6

\* A commit makes the input of a waiting reply durable before it can be sent.
LEMMA PersistRemembers == ASSUME Remembers, TypeOK', Persist PROVE Remembers'
<1>1. /\ auth' = auth /\ reply' = reply /\ admitted' = admitted
      /\ disk' = Checkpointed /\ staged' = None
      /\ proc' = IF proc = "checkpoint" THEN "reply" ELSE "ready"
      /\ proc \in {"checkpoint", "save"}
  BY DEF Persist
<1>2. AtLeast(auth', disk'.auth) /\ MotionIsDurable'
  BY <1>1, CheckpointedGrows DEF MotionIsDurable
<1>3. InFlight' <=> InFlight
  BY <1>1 DEF InFlight
<1>4. ASSUME proc' = "reply", InFlight'
      PROVE  Spent(disk'.auth, reply'.input) /\ admitted'[reply'.input] = 0
  <2>1. /\ staged = auth /\ Spent(auth, reply.input) /\ admitted[reply.input] = 0
    BY <1>1, <1>3, <1>4 DEF Remembers
  <2>2. disk'.auth = auth
    BY <1>1, <2>1 DEF Checkpointed, Remembers, TypeOK, Auth
  <2>3. QED
    BY <1>1, <2>1, <2>2
<1>5. \A i \in Input : admitted'[i] <= 1
  BY <1>1 DEF Remembers
<1>6. proc' \in {"reply", "ready"}
  BY <1>1
<1>7. QED
  BY <1>1, <1>2, <1>4, <1>5, <1>6 DEF Remembers
\* A positive reply that is sent was spent on disk, and is counted once.
LEMMA SendRemembers == ASSUME Remembers, TypeOK', Send PROVE Remembers'
<1>1. TypeOK
  BY DEF Remembers
<1>2. /\ auth' = auth /\ reply' = reply /\ disk' = disk /\ staged' = staged
      /\ proc \in {"reply", "emit"}
      /\ proc' = IF proc = "reply" THEN "ready" ELSE "save"
  BY DEF Send
<1>3. InFlight' <=> InFlight
  BY <1>2 DEF InFlight
<1>4. proc = "emit" => ~InFlight
  BY DEF Remembers
<1>5. CASE ~InFlight
  <2>1. admitted' = admitted
    BY <1>5 DEF Send, InFlight
  <2>2. QED
    BY <1>1, <1>2, <1>3, <1>5, <2>1 DEF Remembers, MotionIsDurable, Spent
<1>6. CASE InFlight
  <2>1. /\ proc = "reply"
        /\ Spent(disk.auth, reply.input) /\ admitted[reply.input] = 0
        /\ reply.input \in Input
    BY <1>1, <1>2, <1>4, <1>6 DEF Remembers, InFlight, TypeOK, Reply
  <2>2. admitted' = [admitted EXCEPT ![reply.input] = 1]
    BY <1>1, <1>6, <2>1 DEF Send, InFlight, TypeOK
  <2>3. \A i \in Input : admitted'[i] <= 1
    BY <1>1, <2>1, <2>2 DEF Remembers, TypeOK
  <2>4. MotionIsDurable'
    BY <1>1, <1>2, <2>1, <2>2 DEF Remembers, MotionIsDurable, TypeOK
  <2>5. QED
    BY <1>1, <1>2, <2>1, <2>3, <2>4 DEF Remembers
<1>7. QED
  BY <1>5, <1>6

\* A process that dies takes its memory with it; the disk keeps every input
\* that moved the robot, whether or not the last write reached it.
LEMMA EndRemembers ==
  ASSUME Remembers, TypeOK', Ends, admitted' = admitted,
         \/ disk' = disk
         \/ disk' = Checkpointed /\ proc \in {"checkpoint", "save"}
  PROVE  Remembers'
<1>1. proc' = "down" /\ staged' = None
  BY DEF Ends
<1>2. MotionIsDurable'
  BY CheckpointedGrows DEF Remembers, MotionIsDurable, Spent
<1>3. QED
  BY <1>1, <1>2 DEF Remembers

\* A process that opens restores what the disk knows, or a newer epoch.
LEMMA OpenRemembers == ASSUME Remembers, TypeOK', Open PROVE Remembers'
<1>1. TypeOK
  BY DEF Remembers
<1>2. /\ disk'.auth = disk.auth
      /\ admitted' = admitted /\ staged' = staged /\ reply' = reply /\ proc = "down"
  BY <1>1 DEF Open, TypeOK, StateFile
<1>3. MotionIsDurable'
  BY <1>2 DEF Remembers, MotionIsDurable, Spent
<1>4. staged = None
  BY <1>2 DEF Remembers
<1>5. proc' = "ready" => AtLeast(auth', disk'.auth)
  <2>1. ASSUME proc' = "ready"
        PROVE  /\ bundle >= disk.auth.epoch
               /\ auth' = IF bundle = disk.auth.epoch
                            THEN disk.auth ELSE [NoAuth EXCEPT !.epoch = bundle]
    BY <1>1, <2>1 DEF Open, TypeOK, StateFile, Auth, Epoch
  <2>2. disk.auth \in Auth /\ bundle \in Nat
    BY <1>1 DEF TypeOK, StateFile, Epoch
  <2>3. [NoAuth EXCEPT !.epoch = bundle].epoch = bundle
    BY DEF NoAuth
  <2>4. AtLeast(disk.auth, disk.auth)
    BY <2>2 DEF AtLeast, Auth
  <2>5. ASSUME bundle >= disk.auth.epoch, bundle # disk.auth.epoch
        PROVE  AtLeast([NoAuth EXCEPT !.epoch = bundle], disk.auth)
    BY <2>3, <2>5 DEF AtLeast
  <2>6. QED
    BY <1>2, <2>1, <2>4, <2>5
<1>6. proc' \in {"down", "ready"}
  BY <1>2 DEF Open
<1>7. \A i \in Input : admitted'[i] <= 1
  BY <1>2 DEF Remembers
<1>8. QED
  BY <1>2, <1>3, <1>4, <1>5, <1>6, <1>7 DEF Remembers

\* Every step keeps memory and disk in that relation.
LEMMA StepRemembers == Remembers /\ [Next]_vars => Remembers'
<1> SUFFICES ASSUME Remembers, [Next]_vars PROVE Remembers'
  OBVIOUS
<1>1. TypeOK'
  BY StepTypes DEF Remembers
<1>2. ASSUME NEW i \in Input, NEW k \in Kind, AcceptSigned(i, k) PROVE Remembers'
  BY <1>2, AcceptRemembers
<1>3. ASSUME NEW i \in Input, RefuseSigned(i) PROVE Remembers'
  <2>1. "stop" \in Kind
    BY DEF Kind
  <2>2. QED
    BY <1>1, <1>3, <2>1, UnsignedRemembers DEF RefuseSigned
<1>4. ASSUME NEW k \in Kind, Unsigned(k) PROVE Remembers'
  BY <1>1, <1>4, UnsignedRemembers DEF Unsigned
<1>5. CASE Persist
  BY <1>1, <1>5, PersistRemembers
<1>6. CASE Send
  BY <1>1, <1>6, SendRemembers
<1>7. CASE Crash
  BY <1>1, <1>7, EndRemembers DEF Crash
<1>8. CASE PersistFails
  BY <1>1, <1>8, EndRemembers DEF PersistFails
<1>9. CASE Open
  BY <1>1, <1>9, OpenRemembers
<1>10. ASSUME NEW h \in BOOLEAN, OperatorSet(h) PROVE Remembers'
  <2>1. /\ disk'.auth = disk.auth
        /\ UNCHANGED <<proc, auth, staged, reply, admitted>>
    BY <1>10 DEF OperatorSet, Remembers, TypeOK, StateFile
  <2>2. QED
    BY <1>1, <2>1 DEF Remembers, MotionIsDurable, Spent, InFlight
<1>11. ASSUME NEW e \in Epoch, InstallBundle(e) PROVE Remembers'
  BY <1>1, <1>11 DEF InstallBundle, Remembers, MotionIsDurable, Spent, InFlight
<1>12. CASE UNCHANGED vars
  BY <1>1, <1>12 DEF vars, Remembers, MotionIsDurable, Spent, InFlight, AtLeast
<1>13. QED
  BY <1>2, <1>3, <1>4, <1>5, <1>6, <1>7, <1>8, <1>9, <1>10, <1>11, <1>12 DEF Next

\* Remembers is an invariant of the loop.
THEOREM AlwaysRemembers == Spec => []Remembers
  BY InitRemembers, StepRemembers, PTL DEF Spec

\* An input that moved the robot is spent on disk at every moment, so that no
\* restart accepts it again (main.rs checkpoint_first).
THEOREM MotionAlwaysDurable == Spec => []MotionIsDurable
<1>1. Remembers => MotionIsDurable
  BY DEF Remembers
<1>2. QED
  BY <1>1, AlwaysRemembers, PTL

\* What a step does to the counts: nothing, or one count goes from 0 to 1, and
\* the input it belongs to is newer than all that moved the robot before.
LEMMA CountsOnce ==
  ASSUME Remembers, [Next]_vars, admitted' # admitted
  PROVE  /\ InFlight /\ proc = "reply" /\ reply.input \in Input
         /\ admitted[reply.input] = 0
         /\ admitted' = [admitted EXCEPT ![reply.input] = 1]
<1>1. TypeOK
  BY DEF Remembers
<1>2. Send
  BY DEF Next, vars, AcceptSigned, RefuseSigned, Unsigned, Persist, Crash, PersistFails,
         Open, OperatorSet, InstallBundle
<1>3. InFlight
  BY <1>2 DEF Send, InFlight
<1>4. proc = "reply"
  BY <1>2, <1>3 DEF Send, Remembers
<1>5. reply.input \in Input
  BY <1>1, <1>3 DEF InFlight, TypeOK, Reply
<1>6. admitted[reply.input] = 0
  BY <1>3, <1>4 DEF Remembers
<1>7. QED
  BY <1>1, <1>2, <1>3, <1>4, <1>5, <1>6 DEF Send, InFlight, TypeOK

\* The authenticated loop implements AtMostOnce: each signed input leads to
\* motion at most once, across crashes, lost checkpoints, restarts, rotations
\* and resets (auth.rs verify and restore, main.rs checkpoint_first).
THEOREM KeepsPromise == Spec => PromiseKept
<1>1. Init => Promise!Init
  BY DEF Init, Promise!Init
<1>2. Remembers /\ [Next]_vars => [Promise!Next]_admitted
  <2> SUFFICES ASSUME Remembers, [Next]_vars, admitted' # admitted PROVE Promise!Next
    OBVIOUS
  <2>1. QED
    BY CountsOnce DEF Promise!Next, Promise!Use
<1>3. QED
  BY <1>1, <1>2, AlwaysRemembers, PTL DEF Spec, PromiseKept, Promise!Spec
-----------------------------------------------------------------------------
(* Order.                                                                  *)

\* i comes after every input that moved the robot.
IsNewest(i) ==
  \A j \in Input : admitted[j] > 0 =>
    /\ j.epoch <= i.epoch
    /\ j.epoch = i.epoch /\ j.role = i.role => j.counter < i.counter

InFlightNewest ==
  proc \in {"checkpoint", "reply"} /\ InFlight => IsNewest(reply.input)

\* An input that verifies comes after every input that moved the robot.
LEMMA VerifiedIsNewest ==
  ASSUME Remembers, proc # "down", NEW i \in Input, Verified(i)
  PROVE  IsNewest(i)
<1>1. TypeOK /\ AtLeast(auth, disk.auth)
  BY DEF Remembers
<1>2. auth \in Auth /\ disk.auth \in Auth
  BY <1>1 DEF TypeOK, StateFile
<1>3. SUFFICES ASSUME NEW j \in Input, admitted[j] > 0
               PROVE  /\ j.epoch <= i.epoch
                      /\ j.epoch = i.epoch /\ j.role = i.role => j.counter < i.counter
  BY DEF IsNewest
<1>4. Spent(auth, j)
  BY <1>1, <1>2, <1>3, SpentGrows DEF Remembers, MotionIsDurable
<1>5. QED
  BY <1>2, <1>4 DEF Spent, Verified, Auth, Input, Epoch

\* The reply in flight stays the newest until it is sent.
LEMMA StepNewest == Remembers /\ InFlightNewest /\ [Next]_vars => InFlightNewest'
<1> SUFFICES ASSUME Remembers, InFlightNewest, [Next]_vars PROVE InFlightNewest'
  OBVIOUS
<1>1. ASSUME NEW i \in Input, NEW k \in Kind, AcceptSigned(i, k) PROVE InFlightNewest'
  <2>1. IsNewest(i) /\ admitted' = admitted /\ reply' = [input |-> i, kind |-> k]
    BY <1>1, VerifiedIsNewest DEF AcceptSigned, Returns
  <2>2. QED
    BY <2>1 DEF InFlightNewest, IsNewest
<1>2. ASSUME NEW k, Returns(None, k) PROVE InFlightNewest'
  BY <1>2 DEF Returns, InFlightNewest, InFlight
<1>3. CASE Persist
  <2>1. /\ admitted' = admitted /\ reply' = reply
        /\ proc' \in {"checkpoint", "reply"} => proc = "checkpoint"
    BY <1>3 DEF Persist
  <2>2. QED
    BY <2>1 DEF InFlightNewest, InFlight, IsNewest
<1>4. ASSUME proc' \in {"ready", "save", "down"} PROVE InFlightNewest'
  BY <1>4 DEF InFlightNewest
<1>5. CASE UNCHANGED <<proc, reply, admitted>>
  BY <1>5 DEF InFlightNewest, InFlight, IsNewest
<1>6. ASSUME NEW i \in Input, RefuseSigned(i) PROVE InFlightNewest'
  BY <1>2, <1>6 DEF RefuseSigned
<1>7. ASSUME NEW k \in Kind, Unsigned(k) PROVE InFlightNewest'
  BY <1>2, <1>7 DEF Unsigned
<1>8. CASE Send \/ Crash \/ PersistFails \/ Open
  BY <1>4, <1>8 DEF Send, Crash, PersistFails, Open, Ends
<1>9. ASSUME NEW h \in BOOLEAN, OperatorSet(h) PROVE InFlightNewest'
  BY <1>5, <1>9 DEF OperatorSet
<1>10. ASSUME NEW e \in Epoch, InstallBundle(e) PROVE InFlightNewest'
  BY <1>5, <1>10 DEF InstallBundle
<1>11. CASE UNCHANGED vars
  BY <1>5, <1>11 DEF vars
<1>12. QED
  BY <1>1, <1>3, <1>6, <1>7, <1>8, <1>9, <1>10, <1>11 DEF Next

\* Motion follows the order of the signers, whatever bundle a restart finds:
\* no older epoch and no spent counter ever moves the robot again.
THEOREM AlwaysInOrder == Spec => AdmittedInOrder
<1>1. Init => InFlightNewest
  BY DEF Init, InFlightNewest
<1>2. Spec => []InFlightNewest
  BY <1>1, StepNewest, AlwaysRemembers, PTL DEF Spec
<1>3. Remembers /\ InFlightNewest /\ [Next]_vars =>
        [ \A i \in Input : admitted'[i] # admitted[i] =>
            \A j \in Input : admitted[j] > 0 =>
              /\ j.epoch <= i.epoch
              /\ j.epoch = i.epoch /\ j.role = i.role => j.counter < i.counter ]_vars
  <2> SUFFICES ASSUME Remembers, InFlightNewest, [Next]_vars,
                      NEW i \in Input, admitted'[i] # admitted[i]
               PROVE  IsNewest(i)
    BY DEF IsNewest
  <2>1. /\ InFlight /\ proc = "reply" /\ reply.input \in Input
        /\ admitted' = [admitted EXCEPT ![reply.input] = 1]
    BY CountsOnce
  <2>2. i = reply.input
    BY <2>1 DEF Remembers, TypeOK
  <2>3. QED
    BY <2>1, <2>2 DEF InFlightNewest
<1>4. QED
  BY <1>2, <1>3, AlwaysRemembers, PTL DEF Spec, AdmittedInOrder

-----------------------------------------------------------------------------
(* The measured world.                                                      *)

Scan  == [stamp : 1 .. MaxSim, kind : {"empty", "person", "blank", "bad"}]
Scans == [stamp : 1 .. MaxSim, received : Nat \ {0}, kind : {"empty", "person", "blank", "bad"}]
Measurement == [stamp : Int, received : Nat]

FusionTypeOK ==
  /\ sim \in 1 .. MaxSim /\ clock \in 0 .. sim /\ wall \in Nat \ {0}
  /\ scans \subseteq Scan
  /\ eye \in [frame : Scans \cup {NoFrame}, history : Seq(Scans)]
  /\ odom \in Measurement /\ joint \in Measurement
  /\ first \in [1 .. MaxSim -> Nat]

\* The history is in order, ends in the newest frame, and every frame of it is a
\* scan of Gazebo that came for the first time when it says.
Kept(e, rendered, at) ==
  /\ \A i, j \in DOMAIN e.history : i < j => e.history[i].stamp < e.history[j].stamp
  /\ e.frame = NoFrame <=> e.history = <<>>
  /\ e.history # <<>> => e.frame = e.history[Len(e.history)]
  /\ \A i \in DOMAIN e.history :
       LET f == e.history[i]
       IN  [stamp |-> f.stamp, kind |-> f.kind] \in rendered /\ at[f.stamp] = f.received

\* What has been accepted is in the history, or older than all of it.
Covered(h, at) ==
  \A t \in 1 .. MaxSim : at[t] > 0 =>
    /\ h # <<>>
    /\ t < h[1].stamp \/ \E i \in DOMAIN h : h[i].stamp = t

FusionInv ==
  /\ FusionTypeOK
  /\ Kept(eye, scans, first)
  /\ Covered(eye.history, first)
  /\ ConfidentIsSeen

\* The least of three numbers is one of them (FiniteSetsExt Min).
LEMMA LeastOfThree ==
  ASSUME NEW a \in Int, NEW b \in Int, NEW c \in Int
  PROVE  Min({a, b, c}) \in Int
<1>1. \E x \in {a, b, c} : \A y \in {a, b, c} : x <= y
  OBVIOUS
<1>2. Min({a, b, c}) \in {a, b, c}
  BY <1>1 DEF Min
<1>3. QED
  BY <1>2

\* A fresh frame is the last of the history that the clock has reached (snapshot).
LEMMA FreshIsKept ==
  ASSUME FusionInv, FreshFrame
  PROVE  \E i \in DOMAIN eye.history :
           /\ Frame = eye.history[i] /\ eye.history[i].stamp <= clock
           /\ \A j \in DOMAIN eye.history : eye.history[j].stamp <= clock => j <= i
<1> DEFINE h == eye.history
<1>1. /\ h \in Seq(Scans) /\ Len(h) \in Nat /\ DOMAIN h = 1 .. Len(h)
      /\ clock \in Nat /\ eye.frame \in Scans \cup {NoFrame}
  BY DEF FusionInv, FusionTypeOK
<1>2. CASE Eligible = {}
  <2>1. Frame = eye.frame /\ eye.frame # NoFrame
    BY <1>2 DEF Frame, FreshFrame, Healthy, NoFrame
  <2>2. h # <<>> /\ eye.frame = h[Len(h)]
    BY <2>1 DEF FusionInv, Kept
  <2>3. Len(h) \in DOMAIN h
    BY <1>1, <2>2
  <2>4. h[Len(h)].stamp <= clock
    BY <1>1, <2>1, <2>2, <2>3 DEF FreshFrame, Scans
  <2>5. QED
    BY <1>2, <2>3, <2>4 DEF Eligible
<1>3. CASE Eligible # {}
  <2>1. Eligible \subseteq 1 .. Len(h)
    BY <1>1 DEF Eligible
  <2>2. Max(Eligible) \in Eligible /\ \A j \in Eligible : j <= Max(Eligible)
    BY <1>1, <1>3, <2>1, LastPlace
  <2>3. QED
    BY <1>3, <2>2 DEF Frame, Eligible
<1>4. QED
  BY <1>2, <1>3

\* What is published of a fresh frame is what was seen (_publish_world).
LEMMA PublishedIsSeen ==
  ASSUME FusionInv, NEW j \in Measurement, world' = Published(j), UNCHANGED scans
  PROVE  ConfidentIsSeen'
<1>1. CASE ~FreshFrame
  <2>1. ~world'.confident
    BY <1>1 DEF Published, NoWorld
  <2>2. QED
    BY <2>1 DEF ConfidentIsSeen
<1>2. CASE FreshFrame
  <2> DEFINE h == eye.history
             accepted == {t \in 1 .. clock : first[t] > 0}
  <2>1. PICK i \in DOMAIN h :
          /\ Frame = h[i] /\ h[i].stamp <= clock
          /\ \A k \in DOMAIN h : h[k].stamp <= clock => k <= i
    BY <1>2, FreshIsKept
  <2>2. /\ h \in Seq(Scans) /\ DOMAIN h = 1 .. Len(h) /\ Len(h) \in Nat /\ i \in Nat
        /\ sim \in 1 .. MaxSim /\ clock \in 0 .. sim /\ wall \in Nat \ {0}
        /\ first \in [1 .. MaxSim -> Nat] /\ MaxSim \in Nat /\ MaxAge \in Nat
    BY FusionAssumption DEF FusionInv, FusionTypeOK
  <2>3. \A k \in DOMAIN h : h[k] \in Scans /\ h[k].stamp \in 1 .. MaxSim /\ h[k].stamp \in Int
    <3>1. \A k \in DOMAIN h : h[k] \in Scans
      BY <2>2
    <3>2. \A f \in Scans : f.stamp \in 1 .. MaxSim
      BY DEF Scans
    <3>3. QED
      BY <2>2, <3>1, <3>2
  <2>4. /\ Frame \in Scans /\ Frame.stamp \in 1 .. clock /\ Frame.received \in Nat \ {0}
        /\ Frame.kind \in {"empty", "person"}
        /\ [stamp |-> Frame.stamp, kind |-> Frame.kind] \in scans
        /\ first[Frame.stamp] = Frame.received
    <3>1. Frame \in Scans
      BY <2>1, <2>3
    <3>2. Frame.stamp \in Nat \ {0} /\ Frame.received \in Nat \ {0}
      BY <3>1 DEF Scans
    <3>3. Frame.stamp \in 1 .. clock
      BY <2>1, <2>2, <3>2
    <3>4. Frame.kind \in {"empty", "person"}
      BY <1>2 DEF FreshFrame, Healthy
    <3>5. /\ [stamp |-> Frame.stamp, kind |-> Frame.kind] \in scans
          /\ first[Frame.stamp] = Frame.received
      BY <2>1 DEF FusionInv, Kept
    <3>6. QED
      BY <3>1, <3>2, <3>3, <3>4, <3>5
  <2>5. Max(accepted) = Frame.stamp
    <3>1. Frame.stamp \in accepted /\ accepted \subseteq Int
      BY <2>4
    <3>2. \A k, l \in DOMAIN h : k < l => h[k].stamp < h[l].stamp
      BY DEF FusionInv, Kept
    <3>3. ASSUME NEW t \in accepted PROVE t <= Frame.stamp
      <4>1. t \in 1 .. MaxSim /\ first[t] > 0 /\ t <= clock
        BY <2>2
      <4>2. CASE t < h[1].stamp
        <5>1. 1 \in DOMAIN h /\ h[1].stamp <= h[i].stamp
          <6>1. 1 \in DOMAIN h /\ (i = 1 \/ 1 < i)
            BY <2>2
          <6>2. QED
            BY <2>3, <3>2, <6>1
        <5>2. QED
          BY <2>1, <2>3, <4>1, <4>2, <5>1
      <4>3. ASSUME NEW k \in DOMAIN h, h[k].stamp = t PROVE t <= Frame.stamp
        <5>1. k <= i /\ k \in Nat
          BY <2>1, <2>2, <4>1, <4>3
        <5>2. h[k].stamp <= h[i].stamp
          BY <2>2, <2>3, <3>2, <5>1
        <5>3. QED
          BY <2>1, <4>3, <5>2
      <4>4. QED
        BY <4>1, <4>2, <4>3 DEF FusionInv, Covered
    <3>4. QED
      BY <3>1, <3>3, MaxIs
  <2>6. /\ world'.confident /\ world'.empty = (Frame.kind = "empty") /\ world'.scan = Frame.stamp
        /\ world'.newest = Frame.stamp
        /\ world'.age = clock - Frame.stamp /\ world'.wallAge = wall - Frame.received
        /\ world'.stamp = Oldest(j) /\ world'.oldest = Oldest(j)
    BY <1>2, <2>4, <2>5 DEF Published, PublishStamp
  <2>7. clock - Frame.stamp \in 0 .. (MaxAge - 1) /\ wall - Frame.received \in 0 .. (MaxAge - 1)
    BY <1>2 DEF FreshFrame
  <2>8. Oldest(j) \in Int
    <3>1. j.stamp \in Int /\ odom.stamp \in Int /\ Frame.stamp \in Int
      BY <2>4 DEF FusionInv, FusionTypeOK, Measurement
    <3>2. QED
      BY <3>1, LeastOfThree DEF Oldest
  <2>9. (IF world'.empty THEN "empty" ELSE "person") = Frame.kind
    BY <2>4, <2>6
  <2>10. QED
    BY <2>4, <2>6, <2>7, <2>8, <2>9 DEF ConfidentIsSeen
<1>3. QED
  BY <1>1, <1>2

\* Without its oldest frame a history of two or more is still in order, and covers
\* what it covered (deque with a maximum length).
LEMMA OldestLeaves ==
  ASSUME NEW f, NEW h \in Seq(Scans), Len(h) > 1, NEW rendered, NEW at,
         Kept([frame |-> f, history |-> h], rendered, at), Covered(h, at)
  PROVE  /\ Tail(h) \in Seq(Scans)
         /\ Kept([frame |-> f, history |-> Tail(h)], rendered, at)
         /\ Covered(Tail(h), at)
<1> DEFINE t == Tail(h)
<1>1. /\ Len(h) \in Nat /\ DOMAIN h = 1 .. Len(h)
      /\ t \in Seq(Scans) /\ Len(t) = Len(h) - 1 /\ DOMAIN t = 1 .. (Len(h) - 1)
      /\ \A i \in DOMAIN t : t[i] = h[i + 1] /\ i + 1 \in DOMAIN h /\ i \in Nat
      /\ h # <<>>
  <2>1. Len(h) \in Nat /\ DOMAIN h = 1 .. Len(h) /\ h # <<>>
    OBVIOUS
  <2>2. /\ t \in Seq(Scans) /\ Len(t) = Len(h) - 1 /\ DOMAIN t = 1 .. (Len(h) - 1)
        /\ \A i \in 1 .. (Len(h) - 1) : t[i] = h[i + 1]
    BY <2>1
  <2>3. QED
    BY <2>1, <2>2
<1> HIDE DEF t
<1>2. t # <<>>
  <2>1. 1 \in DOMAIN t /\ DOMAIN <<>> = {}
    BY <1>1
  <2>2. QED
    BY <2>1
<1>3. /\ \A i, j \in DOMAIN h : i < j => h[i].stamp < h[j].stamp
      /\ f # NoFrame /\ f = h[Len(h)]
      /\ \A i \in DOMAIN h : /\ [stamp |-> h[i].stamp, kind |-> h[i].kind] \in rendered
                             /\ at[h[i].stamp] = h[i].received
  BY <1>1 DEF Kept
<1>4. Kept([frame |-> f, history |-> t], rendered, at)
  <2>1. \A i, j \in DOMAIN t : i < j => t[i].stamp < t[j].stamp
    BY <1>1, <1>3
  <2>2. Len(t) \in DOMAIN t /\ t[Len(t)] = f
    BY <1>1, <1>3
  <2>3. QED
    BY <1>1, <1>2, <1>3, <2>1, <2>2 DEF Kept
<1>5. Covered(t, at)
  <2>1. ASSUME NEW s \in 1 .. MaxSim, at[s] > 0
        PROVE  s < t[1].stamp \/ \E i \in DOMAIN t : t[i].stamp = s
    <3>1. s < h[1].stamp \/ \E i \in DOMAIN h : h[i].stamp = s
      BY <2>1 DEF Covered
    <3>2. 1 \in DOMAIN t /\ t[1] = h[2] /\ h[1].stamp < h[2].stamp /\ 1 \in DOMAIN h /\ 2 \in DOMAIN h
      BY <1>1, <1>3
    <3>3. h[1].stamp \in Int /\ h[2].stamp \in Int /\ s \in Int
      <4>1. h[1] \in Scans /\ h[2] \in Scans
        BY <1>1, <3>2
      <4>2. QED
        BY <4>1, FusionAssumption DEF Scans
    <3>4. CASE s < h[1].stamp
      BY <3>2, <3>3, <3>4
    <3>5. ASSUME NEW i \in DOMAIN h, h[i].stamp = s
          PROVE  s < t[1].stamp \/ \E k \in DOMAIN t : t[k].stamp = s
      <4>1. CASE i = 1
        BY <3>2, <3>5, <4>1
      <4>2. CASE i # 1
        <5>1. i - 1 \in DOMAIN t /\ t[i - 1] = h[i]
          BY <1>1, <4>2
        <5>2. QED
          BY <3>5, <5>1
      <4>3. QED
        BY <4>1, <4>2
    <3>6. QED
      BY <3>1, <3>4, <3>5
  <2>2. QED
    BY <1>2, <2>1 DEF Covered
<1>6. QED
  BY <1>1, <1>4, <1>5 DEF t

\* A scan arrives: it is newer than all that came before (receive).
LEMMA ReceiveHolds ==
  ASSUME FusionInv, NEW scan \in scans, Receive(scan) PROVE FusionInv'
<1> DEFINE f == [stamp |-> scan.stamp, received |-> wall, kind |-> scan.kind]
           h == eye.history
           g == Append(h, f)
           at == [first EXCEPT ![scan.stamp] = wall]
<1>1. /\ sim \in 1 .. MaxSim /\ clock \in 0 .. sim /\ wall \in Nat \ {0} /\ scans \subseteq Scan
      /\ eye \in [frame : Scans \cup {NoFrame}, history : Seq(Scans)] /\ h \in Seq(Scans)
      /\ first \in [1 .. MaxSim -> Nat] /\ MaxSim \in Nat /\ Depth \in Nat \ {0}
      /\ Kept(eye, scans, first) /\ Covered(h, first)
      /\ UNCHANGED <<sim, clock, wall, scans, odom, joint, world>>
  BY FusionAssumption DEF FusionInv, FusionTypeOK, Receive, Time
<1>2. f \in Scans /\ f.stamp = scan.stamp /\ scan.stamp \in 1 .. MaxSim /\ scan.stamp \in Int
      /\ f.received = wall /\ [stamp |-> f.stamp, kind |-> f.kind] = scan /\ f # NoFrame
  <2>1. scan \in Scan
    BY <1>1
  <2>2. scan.stamp \in 1 .. MaxSim /\ scan.stamp # 0
    BY <1>1, <2>1 DEF Scan
  <2>3. scan.kind \in {"empty", "person", "blank", "bad"} /\ scan = [stamp |-> scan.stamp, kind |-> scan.kind]
    BY <2>1 DEF Scan
  <2>4. QED
    BY <1>1, <2>2, <2>3 DEF Scans, NoFrame
<1>3. /\ g \in Seq(Scans) /\ Len(h) \in Nat /\ Len(g) = Len(h) + 1
      /\ DOMAIN h = 1 .. Len(h) /\ DOMAIN g = 1 .. (Len(h) + 1)
      /\ \A i \in DOMAIN h : g[i] = h[i] /\ i \in DOMAIN g
      /\ g[Len(h) + 1] = f /\ g # <<>>
  BY <1>1, <1>2
<1>4. \A i \in DOMAIN h : h[i] \in Scans /\ h[i].stamp \in Int /\ h[i].stamp \in 1 .. MaxSim
  <2>1. \A i \in DOMAIN h : h[i] \in Scans
    BY <1>1
  <2>2. QED
    BY <1>1, <2>1 DEF Scans
<1>5. \A i \in DOMAIN h : h[i].stamp < scan.stamp
  <2>1. ASSUME NEW i \in DOMAIN h PROVE h[i].stamp < scan.stamp
    <3>1. h # <<>> /\ Len(h) \in DOMAIN h /\ (i = Len(h) \/ i < Len(h))
      BY <1>3
    <3>2. scan.stamp > h[Len(h)].stamp
      BY <1>1, <3>1 DEF Receive, Newer, Kept
    <3>3. i < Len(h) => h[i].stamp < h[Len(h)].stamp
      BY <1>1, <3>1 DEF Kept
    <3>4. QED
      BY <1>2, <1>4, <3>1, <3>2, <3>3
  <2>2. QED
    BY <2>1
<1>6. first[scan.stamp] = 0
  <2>1. ASSUME first[scan.stamp] > 0 PROVE FALSE
    <3>1. h # <<>> /\ (scan.stamp < h[1].stamp \/ \E i \in DOMAIN h : h[i].stamp = scan.stamp)
      BY <1>1, <1>2, <2>1 DEF Covered
    <3>2. 1 \in DOMAIN h
      BY <1>3, <3>1
    <3>3. QED
      BY <1>2, <1>4, <1>5, <3>1, <3>2
  <2>2. QED
    BY <1>1, <1>2, <2>1
<1>7. /\ first' = at /\ at \in [1 .. MaxSim -> Nat] /\ at[scan.stamp] = wall
      /\ \A t \in 1 .. MaxSim : t # scan.stamp => at[t] = first[t]
  BY <1>1, <1>2, <1>6 DEF Receive
<1>8. eye' = [frame |-> f, history |-> IF Len(g) > Depth THEN Tail(g) ELSE g]
  BY <1>1 DEF Receive
<1> HIDE DEF f, g, at
<1>9. Kept([frame |-> f, history |-> g], scans, at)
  <2>1. ASSUME NEW i \in DOMAIN g PROVE i \in DOMAIN h \/ i = Len(h) + 1
    BY <1>3
  <2>2. ASSUME NEW i \in DOMAIN g, NEW j \in DOMAIN g, i < j PROVE g[i].stamp < g[j].stamp
    <3>1. i \in DOMAIN h
      BY <1>3, <2>2
    <3>2. CASE j \in DOMAIN h
      BY <1>1, <1>3, <2>2, <3>1, <3>2 DEF Kept
    <3>3. CASE j = Len(h) + 1
      BY <1>2, <1>3, <1>5, <3>1, <3>3
    <3>4. QED
      BY <2>1, <3>2, <3>3
  <2>3. ASSUME NEW i \in DOMAIN g
        PROVE  [stamp |-> g[i].stamp, kind |-> g[i].kind] \in scans /\ at[g[i].stamp] = g[i].received
    <3>1. CASE i \in DOMAIN h
      <4>1. /\ [stamp |-> h[i].stamp, kind |-> h[i].kind] \in scans
            /\ first[h[i].stamp] = h[i].received
        BY <1>1, <3>1 DEF Kept
      <4>2. at[h[i].stamp] = first[h[i].stamp]
        BY <1>2, <1>4, <1>5, <1>7, <3>1
      <4>3. QED
        BY <1>3, <3>1, <4>1, <4>2
    <3>2. CASE i = Len(h) + 1
      BY <1>2, <1>3, <1>7, <3>2
    <3>3. QED
      BY <2>1, <3>1, <3>2
  <2>4. QED
    BY <1>2, <1>3, <2>2, <2>3 DEF Kept
<1>10. Covered(g, at)
  <2>1. ASSUME NEW t \in 1 .. MaxSim, at[t] > 0
        PROVE  t < g[1].stamp \/ \E i \in DOMAIN g : g[i].stamp = t
    <3>1. CASE t = scan.stamp
      <4>1. Len(h) + 1 \in DOMAIN g
        BY <1>3
      <4>2. QED
        BY <1>2, <1>3, <3>1, <4>1
    <3>2. CASE t # scan.stamp
      <4>1. h # <<>> /\ (t < h[1].stamp \/ \E i \in DOMAIN h : h[i].stamp = t)
        BY <1>1, <1>7, <2>1, <3>2 DEF Covered
      <4>2. 1 \in DOMAIN h
        BY <1>3, <4>1
      <4>3. QED
        BY <1>3, <4>1, <4>2
    <3>3. QED
      BY <3>1, <3>2
  <2>2. QED
    BY <1>3, <2>1 DEF Covered
<1>11. /\ eye' \in [frame : Scans \cup {NoFrame}, history : Seq(Scans)]
       /\ Kept(eye', scans, at) /\ Covered(eye'.history, at)
  <2>1. CASE Len(g) > Depth
    <3>1. Len(g) > 1
      BY <1>1, <1>3, <2>1
    <3>2. /\ Tail(g) \in Seq(Scans) /\ Kept([frame |-> f, history |-> Tail(g)], scans, at)
          /\ Covered(Tail(g), at)
      BY <1>3, <1>9, <1>10, <3>1, OldestLeaves
    <3>3. eye' = [frame |-> f, history |-> Tail(g)]
      BY <1>8, <2>1
    <3>4. QED
      BY <1>2, <3>2, <3>3
  <2>2. CASE ~(Len(g) > Depth)
    BY <1>2, <1>3, <1>8, <1>9, <1>10, <2>2
  <2>3. QED
    BY <2>1, <2>2
<1>12. ConfidentIsSeen'
  BY <1>1 DEF FusionInv, ConfidentIsSeen
<1>13. QED
  BY <1>1, <1>7, <1>11, <1>12 DEF FusionInv, FusionTypeOK

\* What is not an arrival keeps the history; what publishes says what it has seen.
LEMMA FusionStep == ASSUME FusionInv, [FusionNext]_fusionVars PROVE FusionInv'
<1>1. /\ sim \in 1 .. MaxSim /\ clock \in 0 .. sim /\ wall \in Nat \ {0} /\ MaxSim \in Nat
      /\ sim \in Nat /\ clock \in Nat /\ odom \in Measurement /\ joint \in Measurement
      /\ scans \subseteq Scan
  BY FusionAssumption DEF FusionInv, FusionTypeOK
<1>2. ASSUME UNCHANGED <<eye, first>>, scans \subseteq scans', scans' \subseteq Scan
      PROVE  Kept(eye', scans', first') /\ Covered(eye'.history, first')
  BY <1>2 DEF FusionInv, Kept, Covered
<1>3. ASSUME UNCHANGED world, scans \subseteq scans' PROVE ConfidentIsSeen'
  BY <1>3 DEF FusionInv, ConfidentIsSeen
<1>4. ASSUME NEW b \in BOOLEAN, Tick(b) PROVE FusionInv'
  <2>1. /\ UNCHANGED <<clock, scans, eye, odom, joint, world, first>>
        /\ wall' \in Nat \ {0} /\ sim' \in 1 .. MaxSim /\ clock \in 0 .. sim'
    BY <1>1, <1>4 DEF Tick
  <2>2. QED
    BY <1>1, <1>2, <1>3, <2>1 DEF FusionInv, FusionTypeOK
<1>5. CASE ClockArrives
  <2>1. UNCHANGED <<sim, wall, scans, eye, odom, joint, world, first>> /\ clock' \in 0 .. sim
    BY <1>1, <1>5 DEF ClockArrives
  <2>2. QED
    BY <1>1, <1>2, <1>3, <2>1 DEF FusionInv, FusionTypeOK
<1>6. ASSUME NEW kind \in {"empty", "person", "blank", "bad"}, Render(kind) PROVE FusionInv'
  <2>1. /\ UNCHANGED <<sim, clock, wall, eye, odom, joint, world, first>>
        /\ scans \subseteq scans' /\ scans' \subseteq Scan
    BY <1>1, <1>6 DEF Render, Time, Scan
  <2>2. QED
    BY <1>1, <1>2, <1>3, <2>1 DEF FusionInv, FusionTypeOK
<1>7. CASE Hide \/ UNCHANGED fusionVars
  <2>1. UNCHANGED <<sim, clock, wall, scans, eye, odom, joint, world, first>>
    BY <1>7 DEF Hide, Time, fusionVars
  <2>2. QED
    BY <1>1, <1>2, <1>3, <2>1 DEF FusionInv, FusionTypeOK
<1>8. ASSUME NEW t \in 1 .. sim, Odom(t) PROVE FusionInv'
  <2>1. /\ UNCHANGED <<sim, clock, wall, scans, eye, joint, world, first>> /\ odom' \in Measurement
    BY <1>1, <1>8 DEF Odom, Time, Measurement
  <2>2. QED
    BY <1>1, <1>2, <1>3, <2>1 DEF FusionInv, FusionTypeOK
<1>9. ASSUME NEW t \in 1 .. sim, Joint(t) PROVE FusionInv'
  <2>1. /\ UNCHANGED <<sim, clock, wall, scans, eye, odom, first>> /\ joint' \in Measurement
        /\ world' = Published(joint') \/ UNCHANGED world
    BY <1>1, <1>9 DEF Joint, Time, Measurement
  <2>2. ConfidentIsSeen'
    BY <1>3, <2>1, PublishedIsSeen
  <2>3. QED
    BY <1>1, <1>2, <2>1, <2>2 DEF FusionInv, FusionTypeOK
<1>10. CASE Timer
  <2>1. UNCHANGED <<sim, clock, wall, scans, eye, odom, joint, first>> /\ world' = Published(joint)
    BY <1>10 DEF Timer, Time
  <2>2. ConfidentIsSeen'
    BY <1>1, <2>1, PublishedIsSeen
  <2>3. QED
    BY <1>1, <1>2, <2>1, <2>2 DEF FusionInv, FusionTypeOK
<1>11. QED
  BY <1>4, <1>5, <1>6, <1>7, <1>8, <1>9, <1>10, ReceiveHolds DEF FusionNext

\* A confident world rests on a real scan, the newest that had been accepted and that
\* the clock had reached, fresh on both clocks (lidar_perception.py snapshot,
\* run_reference.py _publish_world).
THEOREM ConfidentIsAlwaysSeen == FusionSpec => []ConfidentIsSeen
<1>1. FusionInit => FusionInv
  <2>1. ASSUME FusionInit PROVE FusionInv
    <3>1. FusionTypeOK
      BY <2>1, FusionAssumption DEF FusionInit, FusionTypeOK, Measurement, Nothing
    <3>2. Kept(eye, scans, first) /\ Covered(eye.history, first)
      BY <2>1 DEF FusionInit, Kept, Covered
    <3>3. ConfidentIsSeen
      BY <2>1 DEF FusionInit, NoWorld, ConfidentIsSeen
    <3>4. QED
      BY <3>1, <3>2, <3>3 DEF FusionInv
  <2>2. QED
    BY <2>1
<1>2. FusionInv /\ [FusionNext]_fusionVars => FusionInv'
  BY FusionStep
<1>3. FusionInv => ConfidentIsSeen
  BY DEF FusionInv
<1>4. QED
  BY <1>1, <1>2, <1>3, PTL DEF FusionSpec

-----------------------------------------------------------------------------
(* The replay window.                                                       *)

OnlyJudged ==
  /\ seen \subseteq judged
  /\ \A s \in Source : floor[s] # -1 => \E k \in judged : k[1] = s /\ k[2] = floor[s]

WindowInv == WindowTypeOK /\ WindowConsistent /\ JudgedOnce /\ OnlyJudged

USE DedupAssumption

\* Nothing is in the window at first.
LEMMA WindowInitHolds == WindowInit => WindowInv
<1> SUFFICES ASSUME WindowInit PROVE WindowInv
  OBVIOUS
<1>1. WindowTypeOK
  <2>1. << >> \in Seq(Key) /\ [s \in Source |-> -1] \in [Source -> Nat \cup {-1}]
    OBVIOUS
  <2>2. QED
    BY <2>1 DEF WindowInit, WindowTypeOK
<1>2. WindowConsistent
  BY DEF WindowInit, WindowConsistent
<1>3. JudgedOnce /\ OnlyJudged
  BY DEF WindowInit, JudgedOnce, OnlyJudged
<1>4. QED
  BY <1>1, <1>2, <1>3 DEF WindowInv

\* An insertion below the capacity puts the key at the end of the queue.
LEMMA InsertFits ==
  ASSUME WindowTypeOK, WindowConsistent, NEW k \in Key, k \notin seen, Insert(k),
         Len(Append(order, k)) <= Capacity
  PROVE  /\ order' \in Seq(Key) /\ WindowConsistent'
         /\ seen' = seen \cup {k} /\ floor' = floor
<1>1. order' = Append(order, k) /\ seen' = seen \cup {k} /\ floor' = floor
  BY DEF Insert
<1>2. order \in Seq(Key)
  BY DEF WindowTypeOK
<1>3. /\ order' \in Seq(Key) /\ Len(order') = Len(order) + 1
      /\ \A i \in 1..Len(order) : order'[i] = order[i]
      /\ order'[Len(order) + 1] = k
  BY <1>1, <1>2
<1>4. DOMAIN order = 1..Len(order) /\ DOMAIN order' = 1..(Len(order) + 1)
  BY <1>2, <1>3
<1>5. seen' = {order'[i] : i \in DOMAIN order'}
  BY <1>1, <1>2, <1>3, <1>4 DEF WindowConsistent
<1>6. \A i, j \in DOMAIN order' : order'[i] = order'[j] => i = j
  BY <1>1, <1>2, <1>3, <1>4 DEF WindowConsistent
<1>7. QED
  BY <1>1, <1>3, <1>5, <1>6 DEF WindowConsistent

\* An insertion at the capacity evicts the oldest key, from queue and set alike.
LEMMA InsertEvicts ==
  ASSUME WindowTypeOK, WindowConsistent, NEW k \in Key, k \notin seen, Insert(k),
         ~(Len(Append(order, k)) <= Capacity)
  PROVE  /\ order' \in Seq(Key) /\ WindowConsistent'
         /\ order[1] \in seen
         /\ seen' = (seen \cup {k}) \ {order[1]}
         /\ floor' = [floor EXCEPT ![order[1][1]] = Larger(@, order[1][2])]
<1> DEFINE n == Len(order)
           queue == Append(order, k)
<1>1. order \in Seq(Key) /\ n \in Nat /\ n = Capacity /\ n >= 1
  BY DEF WindowTypeOK, WindowConsistent
<1>2. /\ queue \in Seq(Key) /\ Len(queue) = n + 1 /\ queue # << >>
      /\ \A i \in 1..n : queue[i] = order[i]
      /\ queue[n + 1] = k
  BY <1>1
<1>3. Head(queue) = order[1]
  BY <1>1, <1>2
<1>4. /\ order' = Tail(queue)
      /\ seen' = (seen \cup {k}) \ {order[1]}
      /\ floor' = [floor EXCEPT ![order[1][1]] = Larger(@, order[1][2])]
  BY <1>3 DEF Insert
<1>5. /\ order' \in Seq(Key) /\ Len(order') = n
      /\ \A i \in 1..n : order'[i] = queue[i + 1]
  BY <1>2, <1>4, <1>1
<1>6. DOMAIN order = 1..n /\ DOMAIN order' = 1..n
  BY <1>1, <1>5
<1>7. \A i \in 1..n : order'[i] = IF i = n THEN k ELSE order[i + 1]
  BY <1>1, <1>2, <1>5
<1>8. order[1] \in seen /\ order[1] # k
  BY <1>1, <1>6 DEF WindowConsistent
<1>9. \A i, j \in 1..n : order[i] = order[j] => i = j
  BY <1>6 DEF WindowConsistent
<1>10. \A i \in 1..n : order[i] \in seen
  BY <1>6 DEF WindowConsistent
<1>11. \A i, j \in DOMAIN order' : order'[i] = order'[j] => i = j
  <2> SUFFICES ASSUME NEW i \in 1..n, NEW j \in 1..n, order'[i] = order'[j] PROVE i = j
    BY <1>6
  <2>1. CASE i = n
    BY <2>1, <1>1, <1>7, <1>10
  <2>2. CASE j = n
    BY <2>2, <1>1, <1>7, <1>10
  <2>3. CASE i # n /\ j # n
    BY <2>3, <1>1, <1>7, <1>9
  <2>4. QED
    BY <2>1, <2>2, <2>3
<1>12. \A i \in 1..n : order'[i] \in seen'
  BY <1>1, <1>4, <1>7, <1>8, <1>9, <1>10
<1>13. ASSUME NEW x \in seen' PROVE \E i \in 1..n : order'[i] = x
  <2>1. CASE x = k
    BY <2>1, <1>1, <1>7
  <2>2. CASE x # k
    <3>1. PICK i \in 1..n : order[i] = x
      BY <2>2, <1>4, <1>6, <1>13 DEF WindowConsistent
    <3>2. i # 1
      BY <3>1, <1>4, <1>13
    <3>3. i - 1 \in 1..n /\ order'[i - 1] = x
      BY <3>1, <3>2, <1>1, <1>7
    <3>4. QED
      BY <3>3
  <2>3. QED
    BY <2>1, <2>2
<1>14. seen' = {order'[i] : i \in DOMAIN order'}
  BY <1>6, <1>12, <1>13
<1>15. QED
  BY <1>1, <1>4, <1>5, <1>8, <1>11, <1>14 DEF WindowConsistent
\* A new proposal that reaches the gate, and what it evicts, stay refused.
LEMMA GateHolds == ASSUME WindowInv, NEW k \in Key, JudgeByGate(k) PROVE WindowInv'
<1> USE DEF WindowInv
<1>1. /\ k \notin seen /\ Insert(k) /\ judged' = judged \cup {k}
      /\ hasWorld' = hasWorld /\ fired' = "none"
  BY DEF JudgeByGate, Repeated
<1>2. CASE Len(Append(order, k)) <= Capacity
  <2>1. /\ order' \in Seq(Key) /\ WindowConsistent'
        /\ seen' = seen \cup {k} /\ floor' = floor
    BY <1>1, <1>2, InsertFits
  <2>2. WindowTypeOK'
    BY <1>1, <2>1 DEF WindowTypeOK
  <2>3. JudgedOnce'
    BY <1>1, <2>1 DEF JudgedOnce, Repeated
  <2>4. OnlyJudged'
    BY <1>1, <2>1 DEF OnlyJudged
  <2>5. QED
    BY <2>1, <2>2, <2>3, <2>4
<1>3. CASE ~(Len(Append(order, k)) <= Capacity)
  <2> DEFINE old == order[1]
  <2>1. /\ order' \in Seq(Key) /\ WindowConsistent' /\ old \in seen
        /\ seen' = (seen \cup {k}) \ {old}
        /\ floor' = [floor EXCEPT ![old[1]] = Larger(@, old[2])]
    BY <1>1, <1>3, InsertEvicts
  <2>2. old \in Source \X Id /\ old[1] \in Source /\ old[2] \in Nat /\ old \in judged
    BY <2>1 DEF WindowTypeOK, OnlyJudged, Key
  <2>3. floor \in [Source -> Nat \cup {-1}]
    BY DEF WindowTypeOK
  <2>4. /\ floor' \in [Source -> Nat \cup {-1}]
        /\ floor'[old[1]] >= old[2]
        /\ \A s \in Source : floor'[s] >= floor[s]
        /\ floor'[old[1]] \in {floor[old[1]], old[2]}
        /\ \A s \in Source : s # old[1] => floor'[s] = floor[s]
    BY <2>1, <2>2, <2>3 DEF Larger
  <2>5. WindowTypeOK'
    BY <1>1, <2>1, <2>4 DEF WindowTypeOK
  <2>6. JudgedOnce'
    <3> SUFFICES ASSUME NEW x \in judged \cup {k}, x \notin seen'
                 PROVE  x[2] <= floor'[x[1]]
      BY <1>1 DEF JudgedOnce, Repeated
    <3>1. x \in Source \X Id /\ x[1] \in Source /\ x[2] \in Nat
      BY DEF WindowTypeOK, Key
    <3>2. CASE x = old
      BY <3>2, <2>4
    <3>3. CASE x # old
      <4>1. x[2] <= floor[x[1]]
        BY <3>3, <2>1 DEF JudgedOnce, Repeated
      <4>2. QED
        BY <4>1, <3>1, <2>3, <2>4
    <3>4. QED
      BY <3>2, <3>3
  <2>7. OnlyJudged'
    <3>1. seen' \subseteq judged'
      BY <1>1, <2>1 DEF OnlyJudged
    <3>2. ASSUME NEW s \in Source, floor'[s] # -1
          PROVE  \E x \in judged' : x[1] = s /\ x[2] = floor'[s]
      BY <3>2, <1>1, <2>2, <2>4 DEF OnlyJudged
    <3>3. QED
      BY <3>1, <3>2 DEF OnlyJudged
  <2>8. QED
    BY <2>1, <2>5, <2>6, <2>7
<1>4. QED
  BY <1>2, <1>3

\* Every step keeps the window consistent and its memory complete.
LEMMA WindowStepHolds == WindowInv /\ [WindowNext]_windowVars => WindowInv'
<1> SUFFICES ASSUME WindowInv, [WindowNext]_windowVars PROVE WindowInv'
  OBVIOUS
<1>1. ASSUME NEW k \in Key, JudgeByGate(k) PROVE WindowInv'
  BY <1>1, GateHolds
<1>2. ASSUME UNCHANGED <<order, seen, floor, judged>>, hasWorld' \in BOOLEAN,
             fired' \in {"none", "missing:world", "replay:proposal"}
      PROVE  WindowInv'
  BY <1>2 DEF WindowInv, WindowTypeOK, WindowConsistent, JudgedOnce, OnlyJudged, Repeated
<1>3. CASE JudgeStop \/ JudgeMissingWorld \/ WorldArrives
  BY <1>2, <1>3 DEF JudgeStop, JudgeMissingWorld, WorldArrives, WindowInv, WindowTypeOK
<1>4. ASSUME NEW k \in Key, JudgeRepeated(k) PROVE WindowInv'
  BY <1>2, <1>4 DEF JudgeRepeated, WindowInv, WindowTypeOK
<1>5. CASE UNCHANGED windowVars
  BY <1>2, <1>5 DEF windowVars, WindowInv, WindowTypeOK
<1>6. QED
  BY <1>1, <1>3, <1>4, <1>5 DEF WindowNext

\* The inductive invariant of the replay window.
THEOREM WindowInvariance == WindowSpec => []WindowInv
  BY WindowInitHolds, WindowStepHolds, PTL DEF WindowSpec

\* No proposal reaches the gate twice, for any capacity and any order of ids
\* (dedup.rs check_and_insert).
THEOREM AlwaysJudgedOnce == WindowSpec => []JudgedOnce
<1>1. WindowInv => JudgedOnce
  BY DEF WindowInv
<1>2. QED
  BY <1>1, WindowInvariance, PTL

\* A source that counts up is never taken for a replay, whatever the others
\* send (dedup.rs: the floor is an evicted id of the same source).
THEOREM AlwaysIncreasing == WindowSpec => []IncreasingNeverRefused
<1>1. ASSUME WindowInv PROVE IncreasingNeverRefused
  <2> SUFFICES ASSUME NEW s \in Source, NEW i \in Id,
                      \A k \in judged : k[1] = s => k[2] < i
               PROVE  ~Repeated(<<s, i>>)
    BY DEF IncreasingNeverRefused
  <2>1. <<s, i>> \notin seen
    BY <1>1 DEF WindowInv, OnlyJudged
  <2>2. i \in Nat /\ floor[s] \in Nat \cup {-1}
    BY <1>1 DEF WindowInv, WindowTypeOK
  <2>3. CASE floor[s] = -1
    BY <2>1, <2>2, <2>3 DEF Repeated
  <2>4. CASE floor[s] # -1
    <3>1. floor[s] < i
      BY <1>1, <2>4 DEF WindowInv, OnlyJudged
    <3>2. QED
      BY <2>1, <2>2, <3>1 DEF Repeated
  <2>5. QED
    BY <2>3, <2>4
<1>2. QED
  BY <1>1, WindowInvariance, PTL
=============================================================================
