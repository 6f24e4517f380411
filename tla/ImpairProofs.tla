---------------------------- MODULE ImpairProofs ----------------------------
(***************************************************************************)
(* The downlink queue, for every profile that validates and every traffic: *)
(* no delivery in the past, no overtaking on a limited link, and deliveries *)
(* that never exceed the link's capacity over any stretch of the run.      *)
(***************************************************************************)
EXTENDS ImpairQueue, ImpairLemmas

-----------------------------------------------------------------------------
LEMMA TypeStep == TypeOK /\ [Next]_vars => TypeOK'
<1> SUFFICES ASSUME TypeOK, [Next]_vars PROVE TypeOK'
  OBVIOUS
<1>1. ASSUME NEW len \in Payloads, NEW gap \in Gaps, Loses(len, gap) PROVE TypeOK'
  <2>1. len \in Nat /\ now' \in Nat
    BY <1>1, TrafficAssumption DEF Loses, TypeOK
  <2>2. queue' \in Queues
    BY <1>1, <2>1, DropFacts DEF Loses, TypeOK
  <2>. QED
    BY <1>1, <2>1, <2>2 DEF Loses, TypeOK
<1>2. ASSUME NEW len \in Payloads, NEW gap \in Gaps, Delivers(len, gap) PROVE TypeOK'
  <2>1. len \in Nat /\ now' \in Nat
    BY <1>2, TrafficAssumption DEF Delivers, TypeOK
  <2>2. PICK o \in Delay(queue, len, now') :
          /\ ~o.drop /\ queue' = o.queue
          /\ bits' = bits + len * 8
          /\ busy' = IF Profile.BandwidthBps = 0 THEN busy
                     ELSE busy + SerializationMs(queue, len)
          /\ deliveries' = Append(deliveries, [sentAt |-> now', at |-> o.at, bits |-> bits'])
    BY <1>2 DEF Delivers
  <2>3. o.queue \in Queues /\ o.at \in Nat
    BY <2>1, <2>2, DelayFacts DEF TypeOK
  <2>4. bits' \in Nat
    BY <2>1, <2>2 DEF TypeOK
  <2>5. busy' \in Nat
    <3>1. CASE Limited
      <4>1. SerializationMs(queue, len) \in Nat
        BY <2>1, <3>1, Charge DEF TypeOK
      <4>. QED
        BY <2>2, <4>1 DEF TypeOK
    <3>2. CASE ~Limited
      BY <2>2, <3>2, ProfileFacts DEF TypeOK, Limited, Bps
    <3>. QED
      BY <3>1, <3>2
  <2>6. deliveries' \in Seq(Delivery)
    BY <2>1, <2>2, <2>3, <2>4 DEF TypeOK, Delivery
  <2>. QED
    BY <1>2, <2>1, <2>2, <2>3, <2>4, <2>5, <2>6 DEF Delivers, TypeOK
<1>3. CASE Finished \/ UNCHANGED vars
  BY <1>3 DEF Finished, vars, TypeOK
<1>. QED
  BY <1>1, <1>2, <1>3 DEF Next

THEOREM TypeCorrect == Spec => []TypeOK
<1>1. Init => TypeOK
  BY DEF Init, TypeOK, NewQueue, Queues
<1>. QED
  BY <1>1, TypeStep, PTL DEF Spec

(* No delivery is scheduled before its frame was sent.                     *)
THEOREM NothingDeliveredInThePast == Spec => []NoPastDelivery
<1>1. Init => NoPastDelivery
  BY DEF Init, NoPastDelivery
<1>2. TypeOK /\ NoPastDelivery /\ [Next]_vars => NoPastDelivery'
  <2> SUFFICES ASSUME TypeOK, NoPastDelivery, [Next]_vars PROVE NoPastDelivery'
    OBVIOUS
  <2>1. ASSUME NEW len \in Payloads, NEW gap \in Gaps, Delivers(len, gap)
        PROVE  NoPastDelivery'
    <3>1. len \in Nat /\ now' \in Nat
      BY <2>1, TrafficAssumption DEF Delivers, TypeOK
    <3>2. PICK at \in Nat : /\ at >= now'
                            /\ deliveries' = Append(deliveries, [sentAt |-> now', at |-> at, bits |-> bits'])
      BY <2>1, <3>1, DelayFacts DEF Delivers, TypeOK
    <3>. QED
      BY <3>2 DEF NoPastDelivery, TypeOK
  <2>2. CASE UNCHANGED deliveries
    BY <2>2 DEF NoPastDelivery
  <2>. QED
    BY <2>1, <2>2 DEF Next, Loses, Finished, vars
<1>. QED
  BY <1>1, <1>2, TypeCorrect, PTL DEF Spec

-----------------------------------------------------------------------------
(* The link: its backlog ends with the latest delivery; what it carried    *)
(* since any delivery fits the time since, but for the remainder, which is *)
(* less than a millisecond's worth of bits and one more.                   *)
LinkInv ==
  Limited =>
    /\ deliveries # << >> => queue.hasLast
    /\ queue.bandwidthRemainder * 1000 < Bps + 1000
    /\ \A i \in DOMAIN deliveries :
         /\ deliveries[i].at <= queue.lastDelivery
         /\ deliveries[i].bits <= bits
         /\ (bits - deliveries[i].bits) * 1000
              <= (queue.lastDelivery - deliveries[i].at) * Bps
                 + queue.bandwidthRemainder * 1000

(* One more frame: what fits up to the last delivery fits, with the bits   *)
(* charged since, up to the next one.                                      *)
LEMMA Carry ==
  ASSUME NEW a \in Nat, NEW b \in Nat, NEW last \in Nat, NEW at \in Nat,
         NEW d \in Nat, NEW r \in Nat, NEW rr \in Nat, NEW bps \in Nat,
         NEW given \in Nat, NEW size \in Nat,
         at >= last + d, a <= last, b <= given,
         (given - b) * 1000 <= (last - a) * bps + r * 1000,
         (r + size - rr) * 1000 <= d * bps
  PROVE  (given + size - b) * 1000 <= (at - a) * bps + rr * 1000
<1> DEFINE x == at - (last + d)
           p1 == (last - a) * bps
           p2 == d * bps
           p3 == x * bps
           p == (at - a) * bps
<1>1. x \in Nat /\ last - a \in Nat /\ at - a = (last - a) + (d + x)
  OBVIOUS
<1>2. p1 \in Nat /\ p2 \in Nat /\ p3 \in Nat
  <2>. HIDE DEF x
  <2>. QED
    BY <1>1, ProductOfNats
<1>3. p = p1 + (p2 + p3)
  <2> DEFINE y == last - a
             z == at - a
  <2>1. y \in Int /\ d \in Int /\ x \in Int /\ d + x \in Int /\ bps \in Int /\ z = y + (d + x)
    BY <1>1
  <2>. HIDE DEF x, y, z
  <2>2. z * bps = y * bps + (d + x) * bps
    BY <2>1, Distributes
  <2>3. (d + x) * bps = d * bps + x * bps
    BY <2>1, Distributes
  <2>. QED
    BY <2>2, <2>3 DEF y, z
<1>4. (given - b) * 1000 <= p1 + r * 1000 /\ (r + size - rr) * 1000 <= p2
  OBVIOUS
<1>5. (given + size - b) * 1000 <= p + rr * 1000
  <2>. HIDE DEF p1, p2, p3, p
  <2>. QED
    BY <1>2, <1>3, <1>4
<1>. QED
  BY <1>5

LEMMA LinkStep ==
  TypeOK /\ LinkInv /\ NoOvertaking /\ WithinCapacity /\ [Next]_vars
    => LinkInv' /\ NoOvertaking' /\ WithinCapacity'
<1> SUFFICES ASSUME TypeOK, LinkInv, NoOvertaking, WithinCapacity, [Next]_vars, Limited
             PROVE  LinkInv' /\ NoOvertaking' /\ WithinCapacity'
  BY DEF LinkInv, NoOvertaking, WithinCapacity, Limited
<1>1. ASSUME NEW len \in Payloads, NEW gap \in Gaps, Loses(len, gap)
      PROVE  LinkInv' /\ NoOvertaking' /\ WithinCapacity'
  <2>1. len \in Nat /\ now' \in Nat
    BY <1>1, TrafficAssumption DEF Loses, TypeOK
  <2>2. /\ queue'.hasLast = queue.hasLast
        /\ queue'.lastDelivery = queue.lastDelivery
        /\ queue'.bandwidthRemainder = queue.bandwidthRemainder
    BY <1>1, <2>1, DropFacts DEF Loses, TypeOK
  <2>. QED
    BY <1>1, <2>2 DEF Loses, LinkInv, NoOvertaking, WithinCapacity, Limited
<1>2. ASSUME NEW len \in Payloads, NEW gap \in Gaps, Delivers(len, gap)
      PROVE  LinkInv' /\ NoOvertaking' /\ WithinCapacity'
  <2> DEFINE d == SerializationMs(queue, len)
             r == queue.bandwidthRemainder
             last == queue.lastDelivery
             at == queue'.lastDelivery
             new == [sentAt |-> now', at |-> at, bits |-> bits']
             k == Len(deliveries) + 1
  <2>1. len \in Nat /\ now' \in Nat
    BY <1>2, TrafficAssumption DEF Delivers, TypeOK
  <2>2. /\ queue' \in Queues /\ at \in Nat
        /\ queue'.hasLast
        /\ queue'.bandwidthRemainder = Remainder(queue, len)
        /\ queue.hasLast => at >= last + d
        /\ bits' = bits + len * 8
        /\ deliveries' = Append(deliveries, new)
    BY <1>2, <2>1, DelayFacts DEF Delivers, TypeOK
  <2>3. Bits(queue, len) = r + len * 8
    BY DEF Bits
  <2> DEFINE rr == Remainder(queue, len)
  <2>4. /\ d \in Nat /\ rr \in Nat /\ rr * 1000 < Bps + 1000
        /\ (r + len * 8 - rr) * 1000 <= d * Bps
    <3>1. queue \in Queues
      BY DEF TypeOK
    <3>2. /\ d \in Nat /\ rr \in Nat /\ rr * 1000 < Bps + 1000
          /\ (Bits(queue, len) - rr) * 1000 <= d * Bps
      BY <2>1, <3>1, Charge
    <3>3. r \in Nat
      BY DEF TypeOK, Queues
    <3>. HIDE DEF d, rr, r
    <3>. QED
      BY <2>1, <2>3, <3>2, <3>3
  <2>5. /\ r \in Nat /\ last \in Nat /\ bits \in Nat /\ Bps \in Nat
        /\ deliveries \in Seq(Delivery)
    BY ProfileFacts DEF TypeOK, Queues
  <2>6. ASSUME NEW i \in DOMAIN deliveries
        PROVE  /\ deliveries[i].at \in Nat /\ deliveries[i].bits \in Nat
               /\ deliveries[i].at <= at /\ deliveries[i].bits <= bits'
               /\ (bits' - deliveries[i].bits) * 1000
                    <= (at - deliveries[i].at) * Bps + rr * 1000
    <3> DEFINE a == deliveries[i].at
               b == deliveries[i].bits
               size == len * 8
    <3>1. a \in Nat /\ b \in Nat
      <4>1. deliveries[i] \in Delivery
        BY <2>5
      <4>. QED
        BY <4>1 DEF Delivery
    <3>2. at >= last + d
      <4>1. deliveries # << >>
        OBVIOUS
      <4>2. queue.hasLast
        BY <4>1 DEF LinkInv
      <4>. QED
        BY <4>2, <2>2
    <3>3. a <= last /\ b <= bits
          /\ (bits - b) * 1000 <= (last - a) * Bps + r * 1000
      BY DEF LinkInv
    <3>4. bits' = bits + size /\ at \in Nat /\ size \in Nat
      BY <2>1, <2>2
    <3>5. (r + size - rr) * 1000 <= d * Bps
      BY <2>4
    <3>. HIDE DEF a, b, d, rr, last, at, r, size
    <3>6. (bits + size - b) * 1000 <= (at - a) * Bps + rr * 1000
      BY <2>4, <2>5, <3>1, <3>2, <3>3, <3>4, <3>5, Carry
    <3>7. a <= at /\ b <= bits'
      BY <2>4, <2>5, <3>1, <3>2, <3>3, <3>4
    <3>8. (bits' - b) * 1000 <= (at - a) * Bps + rr * 1000
      BY <2>4, <2>5, <3>1, <3>4, <3>6
    <3>. QED
      BY <3>1, <3>7, <3>8 DEF a, b
  <2>7. /\ deliveries' \in Seq(Delivery) /\ DOMAIN deliveries' = 1 .. k
        /\ DOMAIN deliveries = 1 .. k - 1 /\ k \in Nat \ {0}
        /\ deliveries'[k] = new
        /\ \A i \in 1 .. k - 1 : deliveries'[i] = deliveries[i]
    BY <2>1, <2>2, <2>5 DEF Delivery
  <2>. HIDE DEF d, r, last, at, rr, k
  <2>8. LinkInv'
    <3>1. /\ at <= at /\ bits' <= bits'
          /\ (bits' - bits') * 1000 <= (at - at) * Bps + rr * 1000
      BY <2>1, <2>2, <2>4, <2>5
    <3>2. ASSUME NEW i \in DOMAIN deliveries'
          PROVE  /\ deliveries'[i].at <= at /\ deliveries'[i].bits <= bits'
                 /\ (bits' - deliveries'[i].bits) * 1000
                      <= (at - deliveries'[i].at) * Bps + rr * 1000
      BY <2>6, <2>7, <3>1
    <3>. QED
      BY <3>2, <2>2, <2>4 DEF LinkInv, Limited, Bps, at, rr
  <2>9. NoOvertaking'
    BY <2>6, <2>7 DEF NoOvertaking
  <2>10. WithinCapacity'
    <3> SUFFICES ASSUME NEW i \in DOMAIN deliveries', NEW j \in DOMAIN deliveries', i < j
                 PROVE  (deliveries'[j].bits - deliveries'[i].bits) * 1000
                          < (deliveries'[j].at - deliveries'[i].at) * Bps + Bps + 1000
      BY DEF WithinCapacity, Bps
    <3>1. CASE j = k
      <4> DEFINE a == deliveries[i].at
                 b == deliveries[i].bits
                 x == (at - a) * Bps
                 u == bits'
      <4>1. i \in DOMAIN deliveries /\ deliveries'[i] = deliveries[i]
        BY <2>7, <3>1
      <4>2. /\ a \in Nat /\ b \in Nat /\ a <= at /\ (u - b) * 1000 <= x + rr * 1000
        BY <2>6, <4>1
      <4>3. at \in Nat /\ u \in Nat /\ x \in Int
        <5>1. at \in Nat /\ u \in Nat
          BY <2>1, <2>2, <2>5 DEF at
        <5>. HIDE DEF a, u
        <5>. QED
          BY <5>1, <4>2, <2>5
      <4>4. (u - b) * 1000 < x + Bps + 1000
        <5>. HIDE DEF x, u, b, a
        <5>. QED
          BY <4>2, <4>3, <2>4, <2>5
      <4>. QED
        BY <2>7, <3>1, <4>1, <4>4 DEF at
    <3>2. CASE j # k
      BY <2>7, <3>2 DEF WithinCapacity, Bps
    <3>. QED
      BY <3>1, <3>2
  <2>. QED
    BY <2>8, <2>9, <2>10
<1>3. CASE Finished \/ UNCHANGED vars
  BY <1>3 DEF Finished, vars, LinkInv, NoOvertaking, WithinCapacity, Limited
<1>. QED
  BY <1>1, <1>2, <1>3 DEF Next

LEMMA LinkInvariant == Spec => [](LinkInv /\ NoOvertaking /\ WithinCapacity)
<1>1. Init => LinkInv /\ NoOvertaking /\ WithinCapacity
  BY ProfileFacts DEF Init, LinkInv, NoOvertaking, WithinCapacity, NewQueue, Limited, Bps
<1>. QED
  BY <1>1, LinkStep, TypeCorrect, PTL DEF Spec

(* On a link of limited bandwidth frames are delivered in sending order.   *)
THEOREM LimitedLinkIsFIFO == Spec => []NoOvertaking
BY LinkInvariant, PTL

(* Over every stretch of a run the link stays within its capacity.         *)
THEOREM LinkStaysWithinCapacity == Spec => []WithinCapacity
BY LinkInvariant, PTL

-----------------------------------------------------------------------------
(* The bits the link was charged for, with the remainder it still owes,    *)
(* exceed the bits it was given by less than one per frame.                *)
ChargeInv ==
  Limited => busy * Bps + queue.bandwidthRemainder * 1000 <= (bits + frames) * 1000

LEMMA ChargeStep == TypeOK /\ ChargeInv /\ [Next]_vars => ChargeInv'
<1> SUFFICES ASSUME TypeOK, ChargeInv, [Next]_vars, Limited PROVE ChargeInv'
  BY DEF ChargeInv, Limited
<1>0. /\ busy \in Nat /\ bits \in Nat /\ frames \in Nat /\ queue \in Queues
      /\ queue.bandwidthRemainder \in Nat /\ Bps \in Nat
      /\ busy * Bps + queue.bandwidthRemainder * 1000 <= (bits + frames) * 1000
  BY ProfileFacts DEF TypeOK, Queues, ChargeInv
<1>1. ASSUME NEW len \in Payloads, NEW gap \in Gaps, Loses(len, gap) PROVE ChargeInv'
  <2>1. len \in Nat /\ now' \in Nat
    BY <1>1, TrafficAssumption DEF Loses, TypeOK
  <2>2. queue'.bandwidthRemainder = queue.bandwidthRemainder
    BY <1>0, <1>1, <2>1, DropFacts DEF Loses
  <2>3. busy' = busy /\ bits' = bits /\ frames' = frames + 1 /\ Bps' = Bps
    BY <1>1 DEF Loses, Bps
  <2> DEFINE p == busy * Bps
             r == queue.bandwidthRemainder
  <2>4. p \in Nat
    BY <1>0, ProductOfNats
  <2>5. p + r * 1000 <= (bits + (frames + 1)) * 1000
    <3>1. p + r * 1000 <= (bits + frames) * 1000 /\ r \in Nat
      BY <1>0
    <3>. HIDE DEF p, r
    <3>. QED
      BY <1>0, <2>4, <3>1
  <2>. QED
    BY <2>2, <2>3, <2>5 DEF ChargeInv
<1>2. ASSUME NEW len \in Payloads, NEW gap \in Gaps, Delivers(len, gap) PROVE ChargeInv'
  <2> DEFINE d == SerializationMs(queue, len)
             r == queue.bandwidthRemainder
             rr == Remainder(queue, len)
             size == len * 8
             p == busy * Bps
             p2 == d * Bps
  <2>1. len \in Nat /\ now' \in Nat /\ size \in Nat
    BY <1>2, TrafficAssumption DEF Delivers, TypeOK
  <2>2. /\ busy' = busy + d /\ bits' = bits + size /\ frames' = frames + 1
        /\ queue'.bandwidthRemainder = rr /\ Bps' = Bps
    <3>1. Profile.BandwidthBps # 0
      BY <1>0 DEF Limited, Bps
    <3>. QED
      BY <1>0, <1>2, <2>1, <3>1, DelayFacts DEF Delivers, Bps
  <2>3. d \in Nat /\ rr \in Nat /\ p2 < (Bits(queue, len) - rr + 1) * 1000
    BY <1>0, <2>1, Charge
  <2>4. Bits(queue, len) = r + size
    BY DEF Bits
  <2>5. p \in Nat /\ p2 \in Nat /\ r \in Nat /\ p + r * 1000 <= (bits + frames) * 1000
    BY <1>0, <2>3, ProductOfNats
  <2>6. (busy + d) * Bps = p + p2
    BY <1>0, <2>3, Distributes
  <2>7. p + p2 + rr * 1000 <= (bits + size + (frames + 1)) * 1000
    <3>. HIDE DEF p, p2, d, r, rr, size
    <3>. QED
      BY <1>0, <2>1, <2>3, <2>4, <2>5
  <2>. QED
    BY <2>2, <2>6, <2>7 DEF ChargeInv
<1>3. CASE Finished \/ UNCHANGED vars
  BY <1>3 DEF Finished, vars, ChargeInv, Limited, Bps
<1>. QED
  BY <1>1, <1>2, <1>3 DEF Next

(* However small the frames, the link is charged no more than a bit per    *)
(* frame above what it carried.                                            *)
THEOREM LinkIsNotOvercharged == Spec => []NotOvercharged
<1>1. Init => ChargeInv
  BY ProfileFacts DEF Init, ChargeInv, NewQueue
<1>2. TypeOK /\ ChargeInv => NotOvercharged
  <2> SUFFICES ASSUME TypeOK, ChargeInv, Limited PROVE busy * Bps <= (bits + frames) * 1000
    BY DEF NotOvercharged, Bps
  <2> DEFINE p == busy * Bps
  <2>1. /\ queue.bandwidthRemainder \in Nat /\ bits \in Nat /\ frames \in Nat
        /\ p + queue.bandwidthRemainder * 1000 <= (bits + frames) * 1000
    BY DEF TypeOK, Queues, ChargeInv
  <2>2. p \in Nat
    BY ProfileFacts, ProductOfNats DEF TypeOK
  <2>. HIDE DEF p
  <2>3. p <= (bits + frames) * 1000
    BY <2>1, <2>2
  <2>. QED
    BY <2>3 DEF p
<1>. QED
  BY <1>1, <1>2, ChargeStep, TypeCorrect, PTL DEF Spec
=============================================================================
