----------------------------- MODULE ImpairQueue ----------------------------
(***************************************************************************)
(* One session's downlink queue over a run: a sender calls Delay for frame *)
(* after frame on a clock that never goes back.  deliveries remembers, in  *)
(* sending order, what became of the frames that were not dropped.         *)
(***************************************************************************)
EXTENDS Impair, Sequences

CONSTANTS
  Payloads,   \* frame sizes in bytes; 0 is a control frame
  Gaps,       \* how far the clock may advance between two sends
  MaxFrames   \* bound on the frames sent

ASSUME TrafficAssumption ==
  Payloads \subseteq Nat /\ Gaps \subseteq Nat /\ MaxFrames \in Nat

VARIABLES
  queue,      \* the Queue
  now,        \* the sender's clock
  frames,     \* frames sent so far
  dropped,    \* of which dropped
  bits,       \* bits the link was given: those of the frames not dropped
  busy,       \* milliseconds the link was charged for them
  deliveries  \* sentAt, deliverAt and bits so far of each of those frames

vars == <<queue, now, frames, dropped, bits, busy, deliveries>>

Delivery == [sentAt : Nat, at : Nat, bits : Nat]

TypeOK ==
  /\ queue \in Queues
  /\ now \in Nat /\ frames \in Nat /\ dropped \in Nat
  /\ bits \in Nat /\ busy \in Nat
  /\ deliveries \in Seq(Delivery)

Init ==
  /\ queue = NewQueue
  /\ now = 0 /\ frames = 0 /\ dropped = 0 /\ bits = 0 /\ busy = 0
  /\ deliveries = << >>

(* Time passes, then a frame of payloadLen bytes is sent and lost... *)
Loses(payloadLen, gap) ==
  /\ frames < MaxFrames
  /\ now' = now + gap
  /\ frames' = frames + 1
  /\ \E o \in Delay(queue, payloadLen, now') :
       o.drop /\ queue' = o.queue
  /\ dropped' = dropped + 1
  /\ UNCHANGED <<bits, busy, deliveries>>

(* ... or given a delivery time. *)
Delivers(payloadLen, gap) ==
  /\ frames < MaxFrames
  /\ now' = now + gap
  /\ frames' = frames + 1
  /\ \E o \in Delay(queue, payloadLen, now') :
       /\ ~o.drop
       /\ queue' = o.queue
       /\ bits' = bits + payloadLen * 8
       /\ busy' = IF Profile.BandwidthBps = 0 THEN busy
                  ELSE busy + SerializationMs(queue, payloadLen)
       /\ deliveries' = Append(deliveries, [sentAt |-> now', at |-> o.at, bits |-> bits'])
  /\ UNCHANGED dropped

(* The run may end at any time; at the bound it has. *)
Finished == frames = MaxFrames /\ UNCHANGED vars

Next ==
  \/ \E payloadLen \in Payloads, gap \in Gaps :
       Loses(payloadLen, gap) \/ Delivers(payloadLen, gap)
  \/ Finished

Spec == Init /\ [][Next]_vars

-----------------------------------------------------------------------------
(* No delivery is scheduled before its frame was sent.                     *)
NoPastDelivery ==
  \A i \in DOMAIN deliveries : deliveries[i].at >= deliveries[i].sentAt

(* On a link of limited bandwidth no frame is delivered before one sent    *)
(* earlier, whatever the jitter and the reordering, and a control frame of *)
(* zero bytes does not overtake the audio it follows.                      *)
NoOvertaking ==
  Limited => \A i, j \in DOMAIN deliveries :
               i < j => deliveries[i].at <= deliveries[j].at

(* Over every stretch of the run the link carries no more than its         *)
(* capacity: what is delivered between two frames fits the time between    *)
(* them, up to what rounding to whole milliseconds and bits leaves over,   *)
(* however small the frames are.                                           *)
WithinCapacity ==
  Limited => \A i, j \in DOMAIN deliveries :
    i < j => (deliveries[j].bits - deliveries[i].bits) * 1000
               < (deliveries[j].at - deliveries[i].at) * Profile.BandwidthBps
                 + Profile.BandwidthBps + 1000

(* Nor is the link slower than its capacity by more than a bit per frame.  *)
NotOvercharged ==
  Limited => busy * Profile.BandwidthBps <= (bits + frames) * 1000
=============================================================================
