------------------------------- MODULE Impair -------------------------------
(***************************************************************************)
(* The constrained delivery queue of internal/impair/impair.go: what one   *)
(* call of Queue.Delay may return, and the queue it leaves behind.  A      *)
(* random draw is a choice: a probability is known only as "zero", "one"   *)
(* or "some", which decides what rng.Float64() < p may be.                 *)
(***************************************************************************)
EXTENDS Integers

CONSTANT Profile        \* impair.Profile

Probabilities == {"zero", "some", "one"}

(* impair.Profile as script.validateProfile admits it. *)
ASSUME ProfileAssumption ==
  Profile \in [AddedLatencyMs : Nat, JitterMs : Nat, ReorderProb : Probabilities,
               LossProb : Probabilities, BandwidthBps : Nat, ReorderDelayMs : Nat,
               BurstLossToBadProb : Probabilities,
               BurstLossToGoodProb : Probabilities]

DefaultReorderDelayMs == 40

(* Queue, without the frames it dropped: whoever calls Delay keeps them. *)
NewQueue == [lastDelivery |-> 0, bandwidthRemainder |-> 0, hasLast |-> FALSE,
             burstBad |-> FALSE]
Queues == [lastDelivery : Nat, bandwidthRemainder : Nat, hasLast : BOOLEAN,
           burstBad : BOOLEAN]

(* The outcomes of rng.Float64() < p. *)
Draw(p) == CASE p = "zero" -> {FALSE} [] p = "one" -> {TRUE} [] OTHER -> BOOLEAN

burstLossEnabled ==
  Profile.BurstLossToBadProb # "zero" \/ Profile.BurstLossToGoodProb # "zero"

(* (1) Loss: whether the frame is lost, and the next Gilbert-Elliott state. *)
burstLossDrop(burstBad) ==
  {[lost |-> l, burstBad |-> burstBad # flips] :
     l \in Draw(IF burstBad THEN "one" ELSE Profile.LossProb),
     flips \in Draw(IF burstBad THEN Profile.BurstLossToGoodProb
                    ELSE Profile.BurstLossToBadProb)}

Loss(burstBad) ==
  IF burstLossEnabled
  THEN burstLossDrop(burstBad)
  ELSE {[lost |-> l, burstBad |-> burstBad] : l \in Draw(Profile.LossProb)}

(* (2), (3) Latency, jitter and reordering.  The two floors at sendNow do  *)
(* nothing for a profile that validates.                                   *)
ReorderExtra ==
  IF Profile.ReorderDelayMs = 0 THEN DefaultReorderDelayMs ELSE Profile.ReorderDelayMs

(* Mutant: jitter to either side of the latency, and no floor. *)
ShapedEitherSide(sendNow) ==
  {sendNow + Profile.AddedLatencyMs + jitter + (IF late THEN ReorderExtra ELSE 0) :
     jitter \in -Profile.JitterMs .. Profile.JitterMs,
     late \in Draw(Profile.ReorderProb)}
Shaped(sendNow) ==
  {sendNow + Profile.AddedLatencyMs + jitter + (IF late THEN ReorderExtra ELSE 0) :
     jitter \in 0 .. 2 * Profile.JitterMs, late \in Draw(Profile.ReorderProb)}

(* (4) Bandwidth: whole milliseconds of serialization for the bits not     *)
(* charged yet, started when the link is free.                             *)
Limited == Profile.BandwidthBps > 0

Bits(q, payloadLen) == q.bandwidthRemainder + payloadLen * 8

SerializationMs(q, payloadLen) ==
  (Bits(q, payloadLen) * 1000) \div Profile.BandwidthBps

(* Mutant: the remainder is what the division leaves, in the wrong unit. *)
RemainderInBitMs(q, payloadLen) ==
  (Bits(q, payloadLen) * 1000) % Profile.BandwidthBps
(* Mutant: milliseconds taken for seconds. *)
RemainderInSeconds(q, payloadLen) ==
  Bits(q, payloadLen) - SerializationMs(q, payloadLen) * Profile.BandwidthBps
Remainder(q, payloadLen) ==
  Bits(q, payloadLen)
    - ((SerializationMs(q, payloadLen) * Profile.BandwidthBps) \div 1000)

LinkFree(q, at) == IF q.hasLast /\ q.lastDelivery > at THEN q.lastDelivery ELSE at

(* Mutant: a frame that takes no time to serialize skips the backlog. *)
SerializedUnlessEmpty(q, payloadLen, at) ==
  IF Profile.BandwidthBps = 0 \/ payloadLen = 0
  THEN [at |-> at, queue |-> q]
  ELSE LET end == LinkFree(q, at) + SerializationMs(q, payloadLen) IN
       [at |-> end,
        queue |-> [q EXCEPT !.bandwidthRemainder = Remainder(q, payloadLen),
                            !.lastDelivery = end, !.hasLast = TRUE]]
(* Mutant: the link is free again when the frame starts serializing. *)
SerializedFromLastStart(q, payloadLen, at) ==
  IF Profile.BandwidthBps = 0
  THEN [at |-> at, queue |-> q]
  ELSE LET end == LinkFree(q, at) + SerializationMs(q, payloadLen) IN
       [at |-> end,
        queue |-> [q EXCEPT !.bandwidthRemainder = Remainder(q, payloadLen),
                            !.lastDelivery = LinkFree(q, at), !.hasLast = TRUE]]
Serialized(q, payloadLen, at) ==
  IF Profile.BandwidthBps = 0
  THEN [at |-> at, queue |-> q]
  ELSE LET end == LinkFree(q, at) + SerializationMs(q, payloadLen) IN
       [at |-> end,
        queue |-> [q EXCEPT !.bandwidthRemainder = Remainder(q, payloadLen),
                            !.lastDelivery = end, !.hasLast = TRUE]]

(* What Delay may do with a frame of payloadLen bytes sent at sendNow. *)
Delay(q, payloadLen, sendNow) ==
  LET After(loss) == [q EXCEPT !.burstBad = loss.burstBad] IN
  {[drop |-> TRUE, at |-> 0, queue |-> After(loss)] :
     loss \in {l \in Loss(q.burstBad) : l.lost}}
  \cup
  {[drop |-> FALSE, at |-> Serialized(After(loss), payloadLen, at).at,
    queue |-> Serialized(After(loss), payloadLen, at).queue] :
     loss \in {l \in Loss(q.burstBad) : ~l.lost}, at \in Shaped(sendNow)}
=============================================================================
