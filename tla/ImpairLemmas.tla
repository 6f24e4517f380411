---------------------------- MODULE ImpairLemmas ----------------------------
(***************************************************************************)
(* What one call of Delay does, for every profile that validates: lemmas   *)
(* for the proofs about the queue alone and about the conversation.        *)
(***************************************************************************)
EXTENDS Impair, TLAPS

Bps == Profile.BandwidthBps

LEMMA ProfileFacts ==
  /\ Profile.AddedLatencyMs \in Nat /\ Profile.JitterMs \in Nat
  /\ Profile.ReorderDelayMs \in Nat /\ Bps \in Nat
BY ProfileAssumption DEF Bps

LEMMA Division ==
  ASSUME NEW a \in Nat, NEW b \in Nat \ {0}
  PROVE  /\ a \div b \in Nat
         /\ (a \div b) * b <= a
         /\ a < (a \div b) * b + b
OBVIOUS

LEMMA Distributes ==
  ASSUME NEW x \in Int, NEW y \in Int, NEW z \in Int
  PROVE  (x + y) * z = x * z + y * z /\ (x - y) * z = x * z - y * z
OBVIOUS

LEMMA ProductOfNats == ASSUME NEW x \in Nat, NEW y \in Nat PROVE x * y \in Nat
OBVIOUS

(* What one frame is charged: a whole number of milliseconds d, for bits   *)
(* that fit in it, all but less than a millisecond's worth and a bit.      *)
LEMMA Charge ==
  ASSUME NEW q \in Queues, NEW len \in Nat, Limited
  PROVE  LET d == SerializationMs(q, len)
             r == Remainder(q, len) IN
         /\ d \in Nat /\ r \in Nat
         /\ r * 1000 < Bps + 1000
         /\ (Bits(q, len) - r) * 1000 <= d * Bps
         /\ d * Bps < (Bits(q, len) - r + 1) * 1000
<1> DEFINE n == Bits(q, len)
           d == SerializationMs(q, len)
           r == Remainder(q, len)
           c == (d * Bps) \div 1000
<1>1. n \in Nat /\ n = q.bandwidthRemainder + len * 8
  BY DEF Bits, Queues
<1>2. Bps \in Nat \ {0}
  BY ProfileFacts DEF Limited, Bps
<1>3. d \in Nat /\ d * Bps <= n * 1000 /\ n * 1000 < d * Bps + Bps
  <2>1. d = (n * 1000) \div Bps /\ n * 1000 \in Nat
    BY <1>1 DEF SerializationMs, Bps
  <2>. HIDE DEF n, d
  <2>. QED
    BY <2>1, <1>2, Division
<1>4. c \in Nat /\ c * 1000 <= d * Bps /\ d * Bps < c * 1000 + 1000
  <2>1. d * Bps \in Nat
    BY <1>2, <1>3, ProductOfNats
  <2>. HIDE DEF d
  <2>. QED
    BY <2>1, Division
<1>5. r = n - c
  BY DEF Remainder, Bps
<1>. HIDE DEF n, d, r, c
<1>6. /\ d \in Nat /\ r \in Nat
      /\ r * 1000 < Bps + 1000
      /\ (n - r) * 1000 <= d * Bps
      /\ d * Bps < (n - r + 1) * 1000
  <2> DEFINE p == d * Bps
  <2>1. p \in Nat
    BY <1>2, <1>3, ProductOfNats
  <2>2. p <= n * 1000 /\ n * 1000 < p + Bps /\ c * 1000 <= p /\ p < c * 1000 + 1000
    BY <1>3, <1>4
  <2>. HIDE DEF p
  <2>3. /\ r \in Nat /\ r * 1000 < Bps + 1000
        /\ (n - r) * 1000 <= p /\ p < (n - r + 1) * 1000
    BY <2>1, <2>2, <1>1, <1>2, <1>4, <1>5
  <2>. QED
    BY <2>3, <1>3 DEF p
<1>. QED
  BY <1>6 DEF n, d, r

-----------------------------------------------------------------------------
LEMMA LossFacts ==
  ASSUME NEW b \in BOOLEAN, NEW loss \in Loss(b)
  PROVE  loss.burstBad \in BOOLEAN
<1>1. CASE burstLossEnabled
  <2>1. loss \in burstLossDrop(b)
    BY <1>1 DEF Loss
  <2>2. PICK l, flips : loss = [lost |-> l, burstBad |-> b # flips]
    BY <2>1 DEF burstLossDrop
  <2>3. loss.burstBad = (b # flips)
    BY <2>2
  <2>. QED
    BY <2>3
<1>2. CASE ~burstLossEnabled
  <2>1. PICK l : loss = [lost |-> l, burstBad |-> b]
    BY <1>2 DEF Loss
  <2>. QED
    BY <2>1
<1>. QED
  BY <1>1, <1>2

(* What Delay returns for a frame it does not drop.                        *)
LEMMA DelayFacts ==
  ASSUME NEW q \in Queues, NEW len \in Nat, NEW t \in Nat,
         NEW o \in Delay(q, len, t), ~o.drop
  PROVE  /\ o.queue \in Queues
         /\ o.at \in Nat /\ o.at >= t
         /\ Limited =>
              /\ o.queue.hasLast /\ o.queue.lastDelivery = o.at
              /\ o.queue.bandwidthRemainder = Remainder(q, len)
              /\ q.hasLast => o.at >= q.lastDelivery + SerializationMs(q, len)
<1>1. PICK loss \in Loss(q.burstBad), at \in Shaped(t) :
        o = [drop |-> FALSE,
             at |-> Serialized([q EXCEPT !.burstBad = loss.burstBad], len, at).at,
             queue |-> Serialized([q EXCEPT !.burstBad = loss.burstBad], len, at).queue]
  BY DEF Delay
<1>2. loss.burstBad \in BOOLEAN
  BY LossFacts DEF Queues
<1>3. at \in Nat /\ at >= t
  BY ProfileFacts DEF Shaped, ReorderExtra, DefaultReorderDelayMs
<1> DEFINE r == [q EXCEPT !.burstBad = loss.burstBad]
<1>4. /\ r \in Queues
      /\ r.lastDelivery = q.lastDelivery /\ r.hasLast = q.hasLast
      /\ r.bandwidthRemainder = q.bandwidthRemainder
  BY <1>2 DEF Queues
<1>5. /\ SerializationMs(r, len) = SerializationMs(q, len)
      /\ Remainder(r, len) = Remainder(q, len)
  BY <1>4 DEF SerializationMs, Remainder, Bits
<1>6. CASE ~Limited
  <2>1. Serialized(r, len, at) = [at |-> at, queue |-> r]
    BY <1>6, ProfileFacts DEF Serialized, Limited, Bps
  <2>2. o.at = at /\ o.queue = r
    BY <1>1, <2>1
  <2>. QED
    BY <2>2, <1>3, <1>4, <1>6
<1>7. CASE Limited
  <2> DEFINE end == LinkFree(r, at) + SerializationMs(r, len)
  <2>1. /\ o.at = end
        /\ o.queue = [r EXCEPT !.bandwidthRemainder = Remainder(r, len),
                               !.lastDelivery = end, !.hasLast = TRUE]
    BY <1>1, <1>7 DEF Serialized, Limited
  <2>2. /\ LinkFree(r, at) \in Nat /\ LinkFree(r, at) >= at
        /\ q.hasLast => LinkFree(r, at) >= q.lastDelivery
    BY <1>3, <1>4 DEF LinkFree, Queues
  <2>3. SerializationMs(r, len) \in Nat /\ Remainder(r, len) \in Nat
    BY <1>4, <1>7, Charge
  <2>4. end \in Nat /\ end >= t
    BY <1>3, <2>2, <2>3
  <2>5. q.hasLast => end >= q.lastDelivery + SerializationMs(q, len)
    BY <1>5, <2>2, <2>3, <1>4 DEF Queues
  <2>. HIDE DEF end, r
  <2>6. o.queue \in Queues
    BY <2>1, <2>3, <2>4, <1>4 DEF Queues
  <2>7. /\ o.queue.hasLast /\ o.queue.lastDelivery = end
        /\ o.queue.bandwidthRemainder = Remainder(r, len)
    BY <2>1, <1>4 DEF Queues
  <2>. QED
    BY <2>1, <2>4, <2>5, <2>6, <2>7, <1>5
<1>. QED
  BY <1>6, <1>7

LEMMA DropFacts ==
  ASSUME NEW q \in Queues, NEW len \in Nat, NEW t \in Nat,
         NEW o \in Delay(q, len, t), o.drop
  PROVE  /\ o.queue \in Queues
         /\ o.queue.hasLast = q.hasLast /\ o.queue.lastDelivery = q.lastDelivery
         /\ o.queue.bandwidthRemainder = q.bandwidthRemainder
<1>1. PICK loss \in Loss(q.burstBad) : o.queue = [q EXCEPT !.burstBad = loss.burstBad]
  BY DEF Delay
<1>2. loss.burstBad \in BOOLEAN
  BY LossFacts DEF Queues
<1>. QED
  BY <1>1, <1>2 DEF Queues

(* Without a limit on bandwidth a frame is as late as what is added to it. *)
LEMMA DelayBound ==
  ASSUME NEW q \in Queues, NEW len \in Nat, NEW t \in Nat,
         NEW o \in Delay(q, len, t), ~o.drop, Bps = 0
  PROVE  o.at <= t + Profile.AddedLatencyMs + 2 * Profile.JitterMs
                   + (IF Profile.ReorderProb = "zero" THEN 0 ELSE ReorderExtra)
<1>1. PICK loss \in Loss(q.burstBad), at \in Shaped(t) :
        o = [drop |-> FALSE,
             at |-> Serialized([q EXCEPT !.burstBad = loss.burstBad], len, at).at,
             queue |-> Serialized([q EXCEPT !.burstBad = loss.burstBad], len, at).queue]
  BY DEF Delay
<1>2. o.at = at
  BY <1>1 DEF Serialized, Bps
<1>3. PICK jitter \in 0 .. 2 * Profile.JitterMs, late \in Draw(Profile.ReorderProb) :
        at = t + Profile.AddedLatencyMs + jitter + (IF late THEN ReorderExtra ELSE 0)
  BY DEF Shaped
<1> DEFINE extra == IF late THEN ReorderExtra ELSE 0
           most == IF Profile.ReorderProb = "zero" THEN 0 ELSE ReorderExtra
<1>4. ReorderExtra \in Nat
  BY ProfileFacts DEF ReorderExtra, DefaultReorderDelayMs
<1>5. Profile.ReorderProb = "zero" => ~late
  BY DEF Draw
<1>6. extra <= most /\ extra \in Nat /\ most \in Nat
  BY <1>4, <1>5
<1>7. at = t + Profile.AddedLatencyMs + jitter + extra
  BY <1>3
<1>. HIDE DEF extra
<1>8. jitter \in Nat /\ jitter <= 2 * Profile.JitterMs /\ 2 * Profile.JitterMs \in Nat
  BY <1>3, ProfileFacts
<1>9. at <= t + Profile.AddedLatencyMs + 2 * Profile.JitterMs + most
  <2>. HIDE DEF most
  <2>. QED
    BY <1>6, <1>7, <1>8, ProfileFacts
<1>. QED
  BY <1>2, <1>9
=============================================================================
