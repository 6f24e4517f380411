------------------------ MODULE ConversationMetrics ------------------------
(***************************************************************************)
(* What a run reports of a conversation: the log with the dropped frames   *)
(* folded in (engine.Run), and the metrics of it (internal/metrics).       *)
(***************************************************************************)
EXTENDS Conversation, Metrics

CONSTANT StallThresholdMs   \* the scenario's stall_threshold_ms

ASSUME ThresholdAssumption == StallThresholdMs \in Nat

DefaultStallThresholdMs == 3 * DefaultFrameMs
StallThreshold ==
  IF StallThresholdMs > 0 THEN StallThresholdMs ELSE DefaultStallThresholdMs

(* A drop is logged at its sending time, under no turn. *)
FoldedLog ==
  log \o [k \in DOMAIN dropped |-> Entry("drop", dropped[k].ts, 0, dropped[k])]
SortedLog == Sort(FoldedLog)
Metric == ComputeSession(FoldedLog, FrameMs, StallThreshold)

-----------------------------------------------------------------------------
(* Properties.                                                             *)

Received == {i \in DOMAIN log : log[i].type \in {"recv", "turn_start", "turn_end"}}
Audio == {i \in DOMAIN log : IsAudio(log[i])}

(* reordered_frames is the number of frames that arrived after one the     *)
(* agent had sent later, although the metric sees the log sorted by        *)
(* millisecond and type, not in the order of arrival (metrics.go:233).     *)
ReorderedIsOvertaken ==
  Done => Metric.ReorderedFrames =
            Cardinality({i \in Audio : \E j \in Audio : j < i /\ log[j].f.seq > log[i].f.seq})

(* No TurnStart was lost, and none changed places with audio.              *)
TurnStartsInPlace ==
  /\ \A k \in DOMAIN dropped : dropped[k].kind # "turn_start"
  /\ \A i, j \in Received :
       i < j /\ "turn_start" \in {log[i].type, log[j].type} /\
       "turn_end" \notin {log[i].type, log[j].type}
       => log[i].f.seq < log[j].f.seq

(* The silence between two turns is no stall, even when the TurnEnd        *)
(* between them is lost or late (metrics.go:14).                           *)
StallsWithinTurns ==
  Done /\ TurnStartsInPlace =>
    \A p \in stalls(SortedLog, StallThreshold) :
      SortedLog[p[1]].f.turn = SortedLog[p[2]].f.turn

(* time-to-stop tells what it is meant to tell: an agent that obeys is     *)
(* reported to stop within its latency and what the link adds, whatever    *)
(* audio and TurnEnds the link loses or delays (metrics.go:6).             *)
LinkDelay ==
  Profile.AddedLatencyMs + 2 * Profile.JitterMs
    + (IF Profile.ReorderProb = "zero" THEN 0 ELSE ReorderExtra)
TimeToStopWithinLatency ==
  Done /\ TurnStartsInPlace /\ ~FakeConfig.IgnoreBargeIn /\ Profile.BandwidthBps = 0 =>
    \A k \in DOMAIN Metric.TimeToStopMs :
      Metric.TimeToStopMs[k] <= FakeConfig.StopLatencyMs + LinkDelay

(* double-talk is the time both sides are heard at once (metrics.go:10),   *)
(* whenever no two frames of one side are heard at once.                   *)
Sounds(t) == t .. t + FrameMs - 1
Disjoint(S) == \A i, j \in S : i # j => Sounds(log[i].ts) \cap Sounds(log[j].ts) = {}
DoubleTalkIsSharedTime ==
  LET Sent == {i \in DOMAIN log : log[i].type = "send"}
      SoundOf(S) == UNION {Sounds(log[i].ts) : i \in S} IN
  Done /\ Disjoint(Sent) /\ Disjoint(Audio) =>
    Metric.DoubleTalkMs = Cardinality(SoundOf(Sent) \cap SoundOf(Audio))

=============================================================================
