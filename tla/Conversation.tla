---------------------------- MODULE Conversation ----------------------------
(***************************************************************************)
(* One session of an offline run in virtual time: the clock's heap         *)
(* (internal/clock), the synthetic caller (internal/session), the modeled  *)
(* agent (internal/agentproto/fake.go) and its impaired downlink           *)
(* (internal/impair); the uplink is unimpaired.  Sessions share nothing    *)
(* but the clock, so one of them shows all.                                *)
(*                                                                         *)
(* A step is one ManualClock.Advance: it pops the next callback, fires it, *)
(* and, when it delivers a frame, includes the whole reaction of the       *)
(* worker that receives it.  Engine shows that no other step of the run    *)
(* comes between (DriverAlone, OneReaction) while nobody cancels it.       *)
(***************************************************************************)
EXTENDS Impair, Sequences, FiniteSets

CONSTANTS
  Turns,        \* the script: AtMs, DurMs and BargeIn of each caller turn
  NoBargeIn,    \* the BargeIn of a turn that has none
  FakeConfig    \* the agent's behaviour

ASSUME ScriptAssumption ==
  /\ Turns \in Seq([AtMs : Nat, DurMs : Nat,
                    BargeIn : {NoBargeIn} \cup [IntoMs : Nat, DurMs : Nat]])
  /\ Len(Turns) > 0
(* Validate demands FramesPerTurn > 0, and that no time of the script but  *)
(* the length of a barge-in is negative; it leaves the agent's other       *)
(* numbers unchecked.  Negative ones are outside the model.                *)
ASSUME AgentAssumption ==
  FakeConfig \in [FramesPerTurn : Nat \ {0}, FrameMs : Nat, PayloadLen : Nat,
                  StopLatencyMs : Nat, IgnoreBargeIn : BOOLEAN,
                  StallBeforeFrame : Nat, StallMs : Nat, EndpointMs : Nat]

VARIABLES
  now,        \* the ManualClock's virtual time, from the start of the run
  heap,       \* its scheduled callbacks
  callerSeq, obsTurn, log,                           \* the Session
  agent,      \* the FakeAgent
  queue, dropped,                                    \* the downlink's Queue
  heard,      \* history: caller speech as the agent heard it
  air,        \* history: frames the agent sent, in order
  answered    \* history: the speech each turn of the agent responds to

vars == <<now, heap, callerSeq, obsTurn, log, agent, queue, dropped, heard,
          air, answered>>

DefaultFrameMs == 20
FrameMs == IF FakeConfig.FrameMs = 0 THEN DefaultFrameMs ELSE FakeConfig.FrameMs
EndpointMs == IF FakeConfig.EndpointMs = 0 THEN FrameMs ELSE FakeConfig.EndpointMs
FramesPerTurn == FakeConfig.FramesPerTurn

-----------------------------------------------------------------------------
(* Frames and callbacks.  turn and from are history: the agent's turn the  *)
(* frame belongs to, and what the caller was scripted to say.              *)
Frame(kind, seq, ts, turn, from) ==
  [kind |-> kind, seq |-> seq, ts |-> ts, turn |-> turn, from |-> from]
AgentFrame(kind, seq, ts, turn) == Frame(kind, seq, ts, turn, <<"agent", turn>>)

(* act names the function the callback calls; n is its gen or turn.        *)
Event(at, seq, act, n, f) == [at |-> at, seq |-> seq, act |-> act, n |-> n, f |-> f]

(* eventHeap.Less; the session index is the same for all.                  *)
Less(a, b) == a.at < b.at \/ (a.at = b.at /\ a.seq < b.seq)

(* Advance pops a least callback: any of them, for among equal keys        *)
(* container/heap's choice depends on the heap's shape.                    *)
(* Mutant: the heap's order is reversed. *)
PopsGreatest(e, act) ==
  /\ e \in heap /\ e.act = act
  /\ \A x \in heap : ~Less(e, x)
  /\ now' = IF e.at > now THEN e.at ELSE now
Pops(e, act) ==
  /\ e \in heap /\ e.act = act
  /\ \A x \in heap : ~Less(x, e)
  /\ now' = IF e.at > now THEN e.at ELSE now

(* Schedule, from the callback of e: a time in the past is clamped to now. *)
Reschedule(e, events) ==
  heap' = (heap \ {e}) \cup
          {[x EXCEPT !.at = IF @ < now' THEN now' ELSE @] : x \in events}

(* Bound: no stream has more frames. *)
MaxSeq == 1000

(* scheduleAt's sequence numbers: a band above every frame's, from 1 << 40 *)
(* in the code.                                                            *)
(* Mutant: the agent's timers are numbered like frames. *)
NoTimerBand == 0
TimerSeqBase == MaxSeq
TimerSeq(k) == TimerSeqBase + agent.schedSeq + k

-----------------------------------------------------------------------------
(* The caller.                                                             *)

(* scheduleSpeechBurst: at least one frame, at the frame cadence. *)
BurstLen(durMs) == IF durMs \div FrameMs = 0 THEN 1 ELSE durMs \div FrameMs
Burst(firstSeq, startMs, durMs, from) ==
  {Event(startMs + i * FrameMs, firstSeq + i, "speak", i,
         Frame("speech", firstSeq + i, startMs + i * FrameMs, 0, from)) :
     i \in 0 .. BurstLen(durMs) - 1}

Entry(type, ts, turn, f) == [type |-> type, ts |-> ts, turn |-> turn, f |-> f]

(* Prime: every prompt is on the heap before the clock first advances; k   *)
(* of them have PromptSeq[k] frames.                                       *)
PromptSeq[k \in 0 .. Len(Turns)] ==
  IF k = 0 THEN 0 ELSE PromptSeq[k - 1] + BurstLen(Turns[k].DurMs)
Primed == UNION {Burst(PromptSeq[k - 1], Turns[k].AtMs, Turns[k].DurMs, <<"prompt", k>>) :
                   k \in DOMAIN Turns}

(* The frames of the barge-ins that the first k TurnStarts bring about.    *)
BargeSeq[k \in 0 .. Len(Turns)] ==
  IF k = 0 THEN 0
  ELSE BargeSeq[k - 1] + (IF Turns[k].BargeIn = NoBargeIn THEN 0
                          ELSE BurstLen(Turns[k].BargeIn.DurMs))

(* The whole script has fewer frames than the timers' band is away, as any *)
(* script has than 1 << 40.                                                *)
ASSUME BandAssumption == PromptSeq[Len(Turns)] + BargeSeq[Len(Turns)] < MaxSeq

Init ==
  /\ now = 0
  /\ heap = Primed
  /\ callerSeq = PromptSeq[Len(Turns)]
  /\ obsTurn = 0 /\ log = << >>
  /\ agent = [seq |-> 0, schedSeq |-> 0, turn |-> 0, talking |-> FALSE,
              speechGen |-> 0, stopAt |-> 0, interrupted |-> FALSE, ended |-> FALSE]
  /\ queue = NewQueue /\ dropped = << >>
  /\ heard = << >> /\ air = << >> /\ answered = << >>

(* A burst's callback: record the frame, and send it up the unimpaired link. *)
Speak(e) ==
  /\ Pops(e, "speak")
  /\ log' = log \o (IF e.f.from[1] = "barge" /\ e.n = 0
                    THEN <<Entry("barge_in", e.f.ts, obsTurn, e.f)>> ELSE << >>)
                \o <<Entry("send", e.f.ts, obsTurn, e.f)>>
  /\ Reschedule(e, {Event(now', e.f.seq, "hear", 0, e.f)})
  /\ UNCHANGED <<callerSeq, obsTurn, agent, queue, dropped, heard, air, answered>>

(* onRecv of a TurnStart, with maybeScheduleBargeIn. *)
ReceiveTurnStart(e) ==
  LET turn == obsTurn + 1
      barges == turn <= Len(Turns) /\ Turns[turn].BargeIn # NoBargeIn
      bi == Turns[turn].BargeIn IN
  /\ Pops(e, "recv") /\ e.f.kind = "turn_start"
  /\ obsTurn' = turn
  /\ log' = Append(log, Entry("turn_start", now', turn, e.f))
  /\ IF barges
     THEN /\ Reschedule(e, Burst(callerSeq, now' + bi.IntoMs, bi.DurMs, <<"barge", turn>>))
          /\ callerSeq' = callerSeq + BurstLen(bi.DurMs)
     ELSE Reschedule(e, {}) /\ UNCHANGED callerSeq
  /\ UNCHANGED <<agent, queue, dropped, heard, air, answered>>

(* onRecv of anything else. *)
ReceiveOther(e) ==
  /\ Pops(e, "recv") /\ e.f.kind # "turn_start"
  /\ log' = Append(log, Entry(IF e.f.kind = "turn_end" THEN "turn_end" ELSE "recv",
                              now', obsTurn, e.f))
  /\ Reschedule(e, {})
  /\ UNCHANGED <<callerSeq, obsTurn, agent, queue, dropped, heard, air, answered>>

-----------------------------------------------------------------------------
(* The agent hears caller speech: onCallerSpeech.                          *)

Heard(e, as) == heard' = Append(heard, [ts |-> now', as |-> as, turn |-> agent.turn,
                                        from |-> e.f.from])

(* A barge-in stops the turn, once. *)
HearBargeIn(e) ==
  /\ Pops(e, "hear")
  /\ agent.talking /\ ~FakeConfig.IgnoreBargeIn /\ ~agent.interrupted
  /\ LET stopAt == now' + FakeConfig.StopLatencyMs
         endAt == stopAt + FrameMs IN
     /\ agent' = [agent EXCEPT !.interrupted = TRUE, !.stopAt = stopAt, !.schedSeq = @ + 1]
     /\ Reschedule(e, {Event(endAt, TimerSeq(0), "emitTurnEnd", agent.turn,
                             AgentFrame("turn_end", 0, endAt, agent.turn))})
  /\ Heard(e, "barge_in")
  /\ UNCHANGED <<callerSeq, obsTurn, log, queue, dropped, air, answered>>

HearWhileTalking(e) ==
  /\ Pops(e, "hear")
  /\ agent.talking /\ (FakeConfig.IgnoreBargeIn \/ agent.interrupted)
  /\ Reschedule(e, {})
  /\ Heard(e, "ignored")
  /\ UNCHANGED <<callerSeq, obsTurn, log, agent, queue, dropped, air, answered>>

(* Idle: (re)arm endpointing. *)
HearUtterance(e) ==
  /\ Pops(e, "hear") /\ ~agent.talking
  /\ agent' = [agent EXCEPT !.speechGen = @ + 1, !.schedSeq = @ + 1]
  /\ Reschedule(e, {Event(now' + EndpointMs, TimerSeq(0), "maybeRespond",
                          agent.speechGen + 1, e.f)})
  /\ Heard(e, "utterance")
  /\ UNCHANGED <<callerSeq, obsTurn, log, queue, dropped, air, answered>>

-----------------------------------------------------------------------------
(* The agent's timers.                                                     *)

(* The early returns of maybeRespond, emitAgentFrame and emitTurnEnd.      *)

(* Mutant: re-arming the endpointing leaves the earlier timer armed. *)
StaleResponseForgettingGen(e) == agent.talking
(* Mutant: an interrupted agent does not count as idle. *)
StaleResponseOnceInterrupted(e) ==
  agent.talking \/ agent.interrupted \/ agent.speechGen # e.n
StaleResponse(e) == agent.talking \/ agent.speechGen # e.n

(* Mutant: a frame is suppressed only once the turn is closed. *)
StaleFrameOnceClosed(e) == agent.turn # e.n \/ ~agent.talking
StaleFrame(e) ==
  \/ agent.turn # e.n \/ ~agent.talking
  \/ agent.interrupted /\ e.f.ts > agent.stopAt

(* Mutant: a turn may be closed twice. *)
StaleEndForgettingEnded(e) == agent.turn # e.n
StaleEnd(e) == agent.turn # e.n \/ agent.ended

Stale(e) ==
  \/ e.act = "maybeRespond" /\ StaleResponse(e)
  \/ e.act = "emitAgentFrame" /\ StaleFrame(e)
  \/ e.act = "emitTurnEnd" /\ StaleEnd(e)

(* A timer that finds nothing left to do. *)
TimerIsStale(e) ==
  /\ Pops(e, e.act) /\ Stale(e)
  /\ Reschedule(e, {})
  /\ UNCHANGED <<callerSeq, obsTurn, log, agent, queue, dropped, heard, air, answered>>

(* startTurn: TurnStart, the frames and TurnEnd, in the timer band. *)
FrameAt(t0, i) ==
  t0 + i * FrameMs + (IF FakeConfig.StallBeforeFrame > 0 /\ i >= FakeConfig.StallBeforeFrame
                      THEN FakeConfig.StallMs ELSE 0)
TurnEvents(turn, t0) ==
  LET endTS == FrameAt(t0, FramesPerTurn - 1) + FrameMs IN
  {Event(t0, TimerSeq(0), "sendTurnStart", turn,
         AgentFrame("turn_start", agent.seq, t0, turn))}
  \cup {Event(FrameAt(t0, i), TimerSeq(1 + i), "emitAgentFrame", turn,
              AgentFrame("agent", 0, FrameAt(t0, i), turn)) : i \in 0 .. FramesPerTurn - 1}
  \cup {Event(endTS, TimerSeq(FramesPerTurn + 1), "emitTurnEnd", turn,
              AgentFrame("turn_end", 0, endTS, turn))}

(* maybeRespond. *)
Respond(e) ==
  /\ Pops(e, "maybeRespond") /\ ~Stale(e)
  /\ agent' = [agent EXCEPT !.turn = @ + 1, !.talking = TRUE, !.interrupted = FALSE,
                            !.ended = FALSE, !.seq = @ + 1,
                            !.schedSeq = @ + FramesPerTurn + 2]
  /\ Reschedule(e, TurnEvents(agent.turn + 1, e.at))
  /\ answered' = Append(answered, e.f.from)
  /\ UNCHANGED <<callerSeq, obsTurn, log, queue, dropped, heard, air>>

(* Mutant: a dropped frame is recorded, and scheduled all the same. *)
SendDownRegardless(e, f, payloadLen) ==
  /\ \E o \in Delay(queue, payloadLen, now') :
       /\ queue' = o.queue
       /\ dropped' = IF o.drop THEN Append(dropped, f) ELSE dropped
       /\ Reschedule(e, {Event(o.at, f.seq, "recv", 0, f)})
  /\ air' = Append(air, f)
  /\ UNCHANGED <<callerSeq, obsTurn, log, heard, answered>>
(* Send on the agent's end, through the downlink's Delay. *)
SendDown(e, f, payloadLen) ==
  /\ \E o \in Delay(queue, payloadLen, now') :
       /\ queue' = o.queue
       /\ IF o.drop
          THEN dropped' = Append(dropped, f) /\ Reschedule(e, {})
          ELSE UNCHANGED dropped /\ Reschedule(e, {Event(o.at, f.seq, "recv", 0, f)})
  /\ air' = Append(air, f)
  /\ UNCHANGED <<callerSeq, obsTurn, log, heard, answered>>

SendTurnStart(e) ==
  /\ Pops(e, "sendTurnStart")
  /\ SendDown(e, e.f, 0)
  /\ UNCHANGED agent

EmitAgentFrame(e) ==
  /\ Pops(e, "emitAgentFrame") /\ ~Stale(e)
  /\ SendDown(e, [e.f EXCEPT !.seq = agent.seq], FakeConfig.PayloadLen)
  /\ agent' = [agent EXCEPT !.seq = @ + 1]

EmitTurnEnd(e) ==
  /\ Pops(e, "emitTurnEnd") /\ ~Stale(e)
  /\ SendDown(e, [e.f EXCEPT !.seq = agent.seq], 0)
  /\ agent' = [agent EXCEPT !.seq = @ + 1, !.ended = TRUE, !.talking = FALSE]

-----------------------------------------------------------------------------
(* drive stops at the empty heap: the conversation is over. *)
Quiescent == heap = {} /\ UNCHANGED vars

(* Bound: the agent has numbered fewer than MaxSeq frames.                 *)
Fires(e) ==
  /\ agent.seq < MaxSeq
  /\ \/ Speak(e) \/ ReceiveTurnStart(e) \/ ReceiveOther(e)
     \/ HearBargeIn(e) \/ HearWhileTalking(e) \/ HearUtterance(e)
     \/ TimerIsStale(e) \/ Respond(e)
     \/ SendTurnStart(e) \/ EmitAgentFrame(e) \/ EmitTurnEnd(e)

Next == (\E e \in heap : Fires(e)) \/ Quiescent

Spec == Init /\ [][Next]_vars

-----------------------------------------------------------------------------
(* Properties.                                                             *)

Sources == {"prompt", "barge", "agent"} \X Nat
Frames == [kind : {"speech", "agent", "turn_start", "turn_end"}, seq : Nat, ts : Nat,
           turn : Nat, from : Sources]
Events == [at : Nat, seq : Nat, n : Nat, f : Frames,
           act : {"speak", "hear", "recv", "maybeRespond", "sendTurnStart",
                  "emitAgentFrame", "emitTurnEnd"}]
Entries == [type : {"barge_in", "send", "turn_start", "recv", "turn_end"},
            ts : Nat, turn : Nat, f : Frames]
Hearings == [ts : Nat, as : {"barge_in", "ignored", "utterance"}, turn : Nat,
             from : Sources]

TypeOK ==
  /\ now \in Nat
  /\ heap \subseteq Events /\ \A e \in heap : e.at >= now
  /\ callerSeq \in 0 .. MaxSeq - 1 /\ obsTurn \in Nat /\ log \in Seq(Entries)
  /\ agent \in [seq : 0 .. MaxSeq, schedSeq : Nat, turn : Nat,
                talking : BOOLEAN, speechGen : Nat, stopAt : Nat,
                interrupted : BOOLEAN, ended : BOOLEAN]
  /\ queue \in Queues /\ dropped \in Seq(Frames)
  /\ heard \in Seq(Hearings) /\ air \in Seq(Frames) /\ answered \in Seq(Sources)

Done == heap = {}

(* The agent begins to respond only after EndpointMs of silence: nothing   *)
(* was said in that time, and nothing said at this very instant is still   *)
(* on its way (fake.go:228, the timer band).                               *)
AnswersAfterSilence ==
  [][agent'.turn # agent.turn =>
       /\ \A i \in DOMAIN log : log[i].type = "send" => log[i].ts <= now' - EndpointMs
       /\ \A e \in heap : e.act \in {"speak", "hear"} => e.at > now']_vars

(* A burst of speech gets at most one response, however it overlaps the    *)
(* agent's turns, as long as its frames are no further apart than the      *)
(* endpointing silence.                                                    *)
OneResponsePerBurst ==
  EndpointMs >= FrameMs =>
    \A i, j \in DOMAIN answered : answered[i] = answered[j] => i = j

(* Every utterance gets a response: whatever the agent heard while idle is *)
(* followed by a turn that starts once the utterance has settled.          *)
EveryUtteranceAnswered ==
  Done => \A i \in DOMAIN heard : heard[i].as = "utterance" =>
            \E j \in DOMAIN air : /\ air[j].kind = "turn_start"
                                  /\ air[j].ts >= heard[i].ts + EndpointMs

(* After a barge-in the agent sends no frame of that turn later than       *)
(* StopLatencyMs, and closes the turn within a frame of that.              *)
StopsWithinLatency ==
  \A i \in DOMAIN heard : heard[i].as = "barge_in" =>
    /\ \A j \in DOMAIN air :
         air[j].kind = "agent" /\ air[j].turn = heard[i].turn =>
           air[j].ts <= heard[i].ts + FakeConfig.StopLatencyMs
    /\ now > heard[i].ts + FakeConfig.StopLatencyMs + FrameMs \/ Done =>
         \E j \in DOMAIN air :
           /\ air[j].kind = "turn_end" /\ air[j].turn = heard[i].turn
           /\ air[j].ts <= heard[i].ts + FakeConfig.StopLatencyMs + FrameMs

(* What the agent sends is a sequence of turns, each one TurnStart, then   *)
(* audio, then one TurnEnd, never interleaved; no turn is left open.       *)
TurnsAreBracketed ==
  /\ \A i \in DOMAIN air :
       IF i = 1 \/ air[i].kind = "turn_start"
       THEN /\ air[i].kind = "turn_start"
            /\ air[i].turn = (IF i = 1 THEN 1 ELSE air[i - 1].turn + 1)
            /\ i > 1 => air[i - 1].kind = "turn_end"
       ELSE air[i].turn = air[i - 1].turn /\ air[i - 1].kind # "turn_end"
  /\ Done => air = << >> \/ air[Len(air)].kind = "turn_end"

LosslessInOrder ==
  /\ Profile.LossProb = "zero" /\ ~burstLossEnabled
  /\ \/ Profile.BandwidthBps > 0
     \/ Profile.JitterMs = 0 /\ Profile.ReorderProb = "zero"

(* On a link that neither loses nor reorders frames, and one of limited    *)
(* bandwidth never reorders, the caller logs every frame and turn marker   *)
(* under the turn the agent sent it in.                                    *)
LogsTurnsRight ==
  LosslessInOrder =>
    \A i \in DOMAIN log :
      log[i].type \in {"turn_start", "recv", "turn_end"} => log[i].turn = log[i].f.turn

(* Every frame the agent sent is in the log once, or among the dropped     *)
(* ones that the engine folds into it, and never in both.                  *)
EveryFrameLogged ==
  Done => \A i \in DOMAIN air :
    Cardinality({j \in DOMAIN log : log[j].f = air[i]})
      + Cardinality({j \in DOMAIN dropped : dropped[j] = air[i]}) = 1

-----------------------------------------------------------------------------
(* What the repository says and the code does not do.                      *)

(* script.go:29: a turn's barge-in goes "into the agent's response to that *)
(* prompt".                                                                *)
BargeInHitsItsPrompt ==
  \A i, j \in DOMAIN log :
    /\ log[i].type = "barge_in" /\ log[j].type = "turn_start"
    /\ log[i].f.from = <<"barge", log[j].turn>>
    => answered[log[j].f.turn] = <<"prompt", log[j].turn>>

(* clock.go:37: (deliverAt, seq, sessionIndex) is a total order.           *)
KeysAreTotal ==
  \A x, y \in heap : x # y => Less(x, y) \/ Less(y, x)
=============================================================================
