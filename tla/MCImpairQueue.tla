---------------------------- MODULE MCImpairQueue ---------------------------
(***************************************************************************)
(* Profiles for TLC.                                                       *)
(***************************************************************************)
EXTENDS ImpairQueue

(* A slow link with jitter, reordering and bursts of loss: a byte takes    *)
(* 0.65 ms, so one-byte frames cost nothing until their fractions add up,  *)
(* and 20 bytes take a fraction over 13 ms.                                *)
SlowProfile ==
  [AddedLatencyMs |-> 0, JitterMs |-> 1, ReorderProb |-> "some",
   LossProb |-> "some", BandwidthBps |-> 12300, ReorderDelayMs |-> 5,
   BurstLossToBadProb |-> "some", BurstLossToGoodProb |-> "some"]
=============================================================================
