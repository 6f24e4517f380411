------------------------------ MODULE Metrics ------------------------------
(***************************************************************************)
(* What is measured on a session's event log (internal/metrics), and the   *)
(* canonical order the log is put into first (internal/eventlog).  Pure    *)
(* operators: a log is a sequence of entries [type, ts, turn, f].          *)
(***************************************************************************)
EXTENDS Integers, Sequences, FiniteSets, SequencesExt

-----------------------------------------------------------------------------
(* The canonical order.                                                    *)

EventTypes == <<"send", "recv", "turn_start", "turn_end", "barge_in", "drop">>
TypeOrder(type) == CHOOSE k \in DOMAIN EventTypes : EventTypes[k] = type

(* Turn markers are logged without their frame. *)
IsMarker(e) == e.type \in {"turn_start", "turn_end"}
FrameSeq(e) == IF IsMarker(e) THEN 0 ELSE e.f.seq

(* Mutant: audio is placed at the time it was sent. *)
canonicalLessAsSent(a, b) ==
  LET At(e) == IF e.type = "recv" THEN e.f.ts ELSE e.ts IN
  \/ At(a) < At(b)
  \/ /\ At(a) = At(b)
     /\ \/ TypeOrder(a.type) < TypeOrder(b.type)
        \/ a.type = b.type /\ FrameSeq(a) < FrameSeq(b)
(* Within a session: by time, then type, then frame. *)
canonicalLess(a, b) ==
  \/ a.ts < b.ts
  \/ /\ a.ts = b.ts
     /\ \/ TypeOrder(a.type) < TypeOrder(b.type)
        \/ a.type = b.type /\ FrameSeq(a) < FrameSeq(b)

(* sort.SliceStable: equal keys keep the order they were appended in. *)
Insert(sorted, e) ==
  LET n == Cardinality({i \in DOMAIN sorted : ~canonicalLess(e, sorted[i])})
  IN SubSeq(sorted, 1, n) \o <<e>> \o SubSeq(sorted, n + 1, Len(sorted))
Sort(log) ==
  LET sorted[k \in 0 .. Len(log)] ==
        IF k = 0 THEN << >> ELSE Insert(sorted[k - 1], log[k])
  IN sorted[Len(log)]

-----------------------------------------------------------------------------
(* ComputeSession, over a sorted log.                                      *)

IsAudio(e) == e.type = "recv" /\ e.f.kind = "agent"
TimesOf(log, type, turn) ==
  {log[i].ts : i \in {j \in DOMAIN log : log[j].type = type /\ log[j].turn = turn}}

(* turnSpans: of several markers of one turn, the last one counts. *)
Starts(log, turn) == TimesOf(log, "turn_start", turn)
Ends(log, turn) == TimesOf(log, "turn_end", turn)
Begun(log, turn, ts) == Starts(log, turn) # {} => ts >= Max(Starts(log, turn))
Open(log, turn, ts) == Ends(log, turn) # {} => ts < Max(Ends(log, turn))

(* timeToStop: for each turn with a barge-in, in turn order, from the      *)
(* first barge-in to the last audio that came after it in that turn.       *)
Interrupted(log) == {log[i].turn : i \in {j \in DOMAIN log : log[j].type = "barge_in"}}
BargeAt(log, turn) == Min(TimesOf(log, "barge_in", turn))
(* Mutant: audio of a later turn counts too. *)
StillTalkingAtAll(log, turn) ==
  {log[i].ts : i \in {j \in DOMAIN log :
     /\ IsAudio(log[j])
     /\ log[j].ts >= BargeAt(log, turn) /\ Open(log, turn, log[j].ts)}}
StillTalking(log, turn) ==
  {log[i].ts : i \in {j \in DOMAIN log :
     /\ IsAudio(log[j]) /\ log[j].turn = turn
     /\ log[j].ts >= BargeAt(log, turn) /\ Open(log, turn, log[j].ts)}}
TimeToStop(log, turn) ==
  IF StillTalking(log, turn) = {} THEN 0
  ELSE Max(StillTalking(log, turn)) - BargeAt(log, turn)
Ascending(S) ==
  [k \in 1 .. Cardinality(S) |-> CHOOSE x \in S : Cardinality({y \in S : y < x}) = k - 1]
timeToStop(log) ==
  LET turns == Ascending(Interrupted(log))
  IN [k \in DOMAIN turns |-> TimeToStop(log, turns[k])]

(* OverlapMs of two frames of dur ms that start at a and at b. *)
LaterOf(a, b) == IF a >= b THEN a ELSE b
EarlierOf(a, b) == IF a <= b THEN a ELSE b
OverlapMs(a, b, dur) == LaterOf(0, EarlierOf(a + dur, b + dur) - LaterOf(a, b))

(* Mutant: audio counts from when the agent sent it. *)
doubleTalkAsSent(log, dur) ==
  LET caller == {i \in DOMAIN log : log[i].type = "send"}
      agent == {i \in DOMAIN log : IsAudio(log[i])}
  IN MapThenSumSet(LAMBDA p : OverlapMs(log[p[1]].ts, log[p[2]].f.ts, dur), caller \X agent)
(* doubleTalk: every frame of either side lasts dur. *)
doubleTalk(log, dur) ==
  LET caller == {i \in DOMAIN log : log[i].type = "send"}
      agent == {i \in DOMAIN log : IsAudio(log[i])}
  IN MapThenSumSet(LAMBDA p : OverlapMs(log[p[1]].ts, log[p[2]].ts, dur), caller \X agent)

(* stalls: the gaps above the threshold between neighbouring audio of a    *)
(* turn, both ends within the turn; each is a pair of positions.           *)
(* Mutant: audio is not kept apart by turn. *)
AudioOfSession(log, turn) == {i \in DOMAIN log : IsAudio(log[i])}
AudioOf(log, turn) == {i \in DOMAIN log : IsAudio(log[i]) /\ log[i].turn = turn}
Neighbours(log, turn) ==
  {p \in AudioOf(log, turn) \X AudioOf(log, turn) :
     p[1] < p[2] /\ \A k \in AudioOf(log, turn) : k <= p[1] \/ k >= p[2]}
stalls(log, threshold) ==
  UNION {{p \in Neighbours(log, turn) :
            /\ log[p[2]].ts - log[p[1]].ts > threshold
            /\ Begun(log, turn, log[p[1]].ts) /\ Open(log, turn, log[p[2]].ts)} :
           turn \in {log[i].turn : i \in DOMAIN log}}
StallMs(log, threshold) ==
  MapThenSumSet(LAMBDA p : log[p[2]].ts - log[p[1]].ts, stalls(log, threshold))

droppedFrames(log) == Cardinality({i \in DOMAIN log : log[i].type = "drop"})

(* reorderedFrames: audio below the highest number received so far.        *)
OutOfOrder(seen, seq) ==
  IF seq < seen.top THEN [seen EXCEPT !.count = @ + 1] ELSE [seen EXCEPT !.top = seq]
reorderedFrames(log) ==
  LET seen[k \in 0 .. Len(log)] ==
        IF k = 0 THEN [top |-> 0, count |-> 0]
        ELSE IF IsAudio(log[k]) THEN OutOfOrder(seen[k - 1], log[k].f.seq)
        ELSE seen[k - 1]
  IN seen[Len(log)].count

SessionMetrics == [TimeToStopMs : Seq(Nat), DoubleTalkMs : Nat, StallCount : Nat, StallMs : Nat,
                   DroppedFrames : Nat, ReorderedFrames : Nat]

ComputeSession(log, dur, threshold) ==
  LET sorted == Sort(log) IN
  [TimeToStopMs |-> timeToStop(sorted), DoubleTalkMs |-> doubleTalk(sorted, dur),
   StallCount |-> Cardinality(stalls(sorted, threshold)),
   StallMs |-> StallMs(sorted, threshold),
   DroppedFrames |-> droppedFrames(sorted), ReorderedFrames |-> reorderedFrames(sorted)]

-----------------------------------------------------------------------------
(* Over the sessions of a run.                                             *)

(* ceil(p n / 100), in integers, within 1 .. n.                            *)
(* Mutant: rounded down. *)
RankDown(n, p) == LaterOf(1, (p * n) \div 100)
Rank(n, p) == EarlierOf(n, LaterOf(1, (p * n + 99) \div 100))
nearestRank(sorted, p) == sorted[Rank(Len(sorted), p)]

Total(values) == FoldLeft(+, 0, values)

(* sort.Slice, into ascending order. *)
Ascends(values, p) ==
  \A i, j \in DOMAIN values : i < j => values[p[i]] <= values[p[j]]
Sorted(values) ==
  LET p == CHOOSE q \in Injection(DOMAIN values, DOMAIN values) : Ascends(values, q)
  IN [k \in DOMAIN values |-> values[p[k]]]

summarize(values) ==
  IF values = << >> THEN [Count |-> 0, Sum |-> 0, Mean |-> 0, P50 |-> 0, P95 |-> 0, Max |-> 0]
  ELSE LET sorted == Sorted(values)
           n == Len(sorted)
       IN [Count |-> n, Sum |-> Total(sorted), Mean |-> Total(sorted) \div n,
           P50 |-> nearestRank(sorted, 50), P95 |-> nearestRank(sorted, 95),
           Max |-> sorted[n]]

ComputeAggregate(sessions) ==
  LET Of(field) == [k \in DOMAIN sessions |-> sessions[k][field]] IN
  [Sessions |-> Len(sessions),
   TimeToStop |-> summarize(FlattenSeq(Of("TimeToStopMs"))),
   DoubleTalkMs |-> summarize(Of("DoubleTalkMs")),
   StallCount |-> Total(Of("StallCount")), StallMs |-> Total(Of("StallMs")),
   DroppedFrames |-> Total(Of("DroppedFrames")), ReorderedFrames |-> Total(Of("ReorderedFrames"))]
=============================================================================
