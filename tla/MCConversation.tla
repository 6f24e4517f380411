--------------------------- MODULE MCConversation ---------------------------
(***************************************************************************)
(* Scenarios for TLC.  A frame lasts 2 ms here, so that a jitter of 0 to 2 *)
(* ms already meets every alignment of the caller with the agent's timers. *)
(***************************************************************************)
EXTENDS ConversationMetrics

(* Two prompts, both barged into: the rest of the first barge-in is an     *)
(* utterance of its own, and what the agent says to it may be interrupted  *)
(* by the second prompt or by the second barge-in.                         *)
TwoPrompts ==
  <<[AtMs |-> 0, DurMs |-> 4, BargeIn |-> [IntoMs |-> 1, DurMs |-> 6]],
    [AtMs |-> 13, DurMs |-> 2, BargeIn |-> [IntoMs |-> 2, DurMs |-> 0]]>>

(* A barge-in that outlasts the turn it interrupts by several frames, and  *)
(* that the second prompt speaks over.                                     *)
LongWinded ==
  <<[AtMs |-> 0, DurMs |-> 4, BargeIn |-> [IntoMs |-> 1, DurMs |-> 16]],
    [AtMs |-> 13, DurMs |-> 2, BargeIn |-> [IntoMs |-> 2, DurMs |-> 0]]>>

Stopping ==
  [FramesPerTurn |-> 3, FrameMs |-> 2, PayloadLen |-> 2, StopLatencyMs |-> 1,
   IgnoreBargeIn |-> FALSE, StallBeforeFrame |-> 0, StallMs |-> 0, EndpointMs |-> 0]

Jittery ==
  [AddedLatencyMs |-> 0, JitterMs |-> 1, ReorderProb |-> "zero",
   LossProb |-> "zero", BandwidthBps |-> 0, ReorderDelayMs |-> 0,
   BurstLossToBadProb |-> "zero", BurstLossToGoodProb |-> "zero"]

Clean == [Jittery EXCEPT !.JitterMs = 0]
(* A link that loses, and delays some of what it does not lose. *)
LossyReordering == [Clean EXCEPT !.LossProb = "some", !.ReorderProb = "some",
                                 !.ReorderDelayMs = 3]
(* A link that would reorder, were its bandwidth not limited: 16 bits, a   *)
(* frame of audio, take 3 ms.                                              *)
Narrow == [Jittery EXCEPT !.ReorderProb = "some", !.ReorderDelayMs = 3,
                          !.BandwidthBps = 5000]

(* A prompt meets the third frame of the first response, 2 ms in flight.   *)
Meeting == <<TwoPrompts[1], [TwoPrompts[2] EXCEPT !.AtMs = 8]>>
Latent == [Clean EXCEPT !.AddedLatencyMs = 2]

(* Two short prompts, the second while the agent may still be answering    *)
(* the first barge-in, and an agent that pauses in its turns.              *)
Brief ==
  <<[AtMs |-> 0, DurMs |-> 2, BargeIn |-> [IntoMs |-> 3, DurMs |-> 0]],
    [AtMs |-> 13, DurMs |-> 2, BargeIn |-> [IntoMs |-> 1, DurMs |-> 2]]>>
Stalling == [Stopping EXCEPT !.StallBeforeFrame = 1, !.StallMs = 3]
=============================================================================
