------------------------- MODULE ConversationProofs -------------------------
(***************************************************************************)
(* The modeled agent, for every script, every agent and every profile of   *)
(* the link: types, well-formed turns, an answer to each utterance, after  *)
(* silence and once per burst, and a stop in time.                         *)
(***************************************************************************)
EXTENDS Conversation, ImpairLemmas, DataLemmas

-----------------------------------------------------------------------------
(* The invariants.                                                         *)

CallerActs == {"speak", "hear"}
EmitActs == {"emitAgentFrame", "emitTurnEnd"}

(* The caller's numbering follows the script.                              *)
CallerBand ==
  callerSeq = PromptSeq[Len(Turns)]
                + BargeSeq[IF obsTurn < Len(Turns) THEN obsTurn ELSE Len(Turns)]

(* What is on the heap: a callback's frame, key and time fit its function. *)
Fits(e, cseq, gen, turn) ==
  /\ e.act \in CallerActs =>
       /\ e.f.kind = "speech" /\ e.f.from[1] # "agent"
       /\ e.f.seq = e.seq /\ e.seq < cseq /\ e.f.ts = e.at
  /\ e.act = "recv" => e.f.kind # "speech" /\ e.f.seq = e.seq
  /\ e.act \notin CallerActs \cup {"recv"} => e.seq >= MaxSeq
  /\ e.act = "maybeRespond" =>
       /\ e.f.from[1] # "agent" /\ e.n <= gen
       /\ e.at = e.f.ts + EndpointMs
  /\ e.act = "sendTurnStart" => e.f.kind = "turn_start"
  /\ e.act = "emitAgentFrame" => e.f.kind = "agent"
  /\ e.act = "emitTurnEnd" => e.f.kind = "turn_end"
  /\ e.act \in EmitActs \cup {"sendTurnStart"} =>
       /\ e.n \in 1 .. turn /\ e.f.turn = e.n /\ e.f.ts = e.at

HeapFits ==
  /\ agent.talking => agent.turn > 0
  /\ \A e \in heap : Fits(e, callerSeq, agent.speechGen, agent.turn)

(* The agent talks from the start of a turn to its end, which is on the    *)
(* heap all that time.                                                     *)
Talking ==
  /\ agent.ended <=> agent.turn > 0 /\ ~agent.talking
  /\ agent.talking => \E x \in heap : x.act = "emitTurnEnd" /\ x.n = agent.turn

(* The last frame sent is of this turn, closed unless the agent talks.     *)
SentLast(turn, closed) ==
  IF turn = 0 THEN air = << >>
  ELSE /\ air # << >> /\ air[Len(air)].turn = turn
       /\ air[Len(air)].kind = "turn_end" <=> closed

(* A TurnStart on the heap is due now, before all else of its turn.        *)
Starting ==
  \A s \in heap : s.act = "sendTurnStart" =>
    /\ agent.talking /\ s.n = agent.turn /\ s.at <= now
    /\ \A x \in heap :
         /\ x.act = "sendTurnStart" => x = s
         /\ x.act \in EmitActs /\ x.n = agent.turn => Less(s, x)
    /\ SentLast(agent.turn - 1, TRUE)
Started ==
  (\A s \in heap : s.act # "sendTurnStart") => SentLast(agent.turn, ~agent.talking)

Bracketed ==
  \A i \in DOMAIN air :
    IF i = 1 \/ air[i].kind = "turn_start"
    THEN /\ air[i].kind = "turn_start"
         /\ air[i].turn = (IF i = 1 THEN 1 ELSE air[i - 1].turn + 1)
         /\ i > 1 => air[i - 1].kind = "turn_end"
    ELSE air[i].turn = air[i - 1].turn /\ air[i - 1].kind # "turn_end"

TurnInv == Talking /\ Starting /\ Started /\ Bracketed

(* The endpointing timer that is still current.                            *)
Live(x) == x.act = "maybeRespond" /\ x.n = agent.speechGen

Endpointing ==
  /\ \A x, y \in heap : x.act = "maybeRespond" /\ y.act = "maybeRespond" /\ x.n = y.n => x = y
  /\ agent.talking => \A x \in heap : ~Live(x)
  /\ \A i \in DOMAIN heard :
       /\ heard[i].ts <= now /\ heard[i].turn <= agent.turn
       /\ \A x \in heap : Live(x) => heard[i].ts + EndpointMs <= x.at

(* What was heard at t is answered, or will be.                            *)
AnswerSent(t) ==
  \E j \in DOMAIN air : air[j].kind = "turn_start" /\ air[j].ts >= t + EndpointMs
AnswerStarting(t) ==
  \E s \in heap : s.act = "sendTurnStart" /\ s.f.ts >= t + EndpointMs
AnswerArmed == ~agent.talking /\ \E x \in heap : Live(x)
Answering ==
  \A i \in DOMAIN heard : heard[i].as = "utterance" =>
    AnswerSent(heard[i].ts) \/ AnswerStarting(heard[i].ts) \/ AnswerArmed

UtteranceInv == Endpointing /\ Answering

(* What a barge-in, heard as h, leaves to be done.                         *)
StopAt(h) == h.ts + FakeConfig.StopLatencyMs
Closed(h) ==
  \E j \in DOMAIN air : /\ air[j].kind = "turn_end" /\ air[j].turn = h.turn
                        /\ air[j].ts <= StopAt(h) + FrameMs
Closing(h) ==
  /\ agent.talking /\ h.turn = agent.turn
  /\ \E x \in heap : x.act = "emitTurnEnd" /\ x.n = agent.turn /\ x.at = StopAt(h) + FrameMs
Stops(h) ==
  /\ h.turn = agent.turn => agent.interrupted /\ agent.stopAt = StopAt(h)
  /\ \A j \in DOMAIN air :
       air[j].kind = "agent" /\ air[j].turn = h.turn => air[j].ts <= StopAt(h)
  /\ Closed(h) \/ Closing(h)
AirPast == \A j \in DOMAIN air : air[j].ts <= now
StopInv ==
  /\ AirPast
  /\ \A i \in DOMAIN heard : heard[i].as = "barge_in" => Stops(heard[i])

(* What the caller said has been heard, or is being heard right now.       *)
Voiced(t) ==
  \/ \E x \in heap : x.act = "hear" /\ x.at = t
  \/ \E k \in DOMAIN heard : heard[k].ts = t
SilenceInv ==
  \A i \in DOMAIN log : log[i].type = "send" => log[i].ts <= now /\ Voiced(log[i].ts)

(* The rest of a burst follows what was heard of it frame by frame.        *)
Rest(from) == {x \in heap : x.act \in CallerActs /\ x.f.from = from}

Known(from) == from[1] = "barge" => from[2] <= obsTurn
BurstsKnown ==
  /\ \A x \in heap : x.act \in CallerActs \cup {"maybeRespond"} => Known(x.f.from)
  /\ \A i \in DOMAIN heard : Known(heard[i].from)
  /\ \A i \in DOMAIN answered : Known(answered[i])

(* The first frame of a burst is spoken before any other, and each other   *)
(* frame within FrameMs of the one before it.                              *)
Unbroken ==
  \A x \in heap : x.act = "speak" =>
    IF x.n = 0
    THEN /\ \A y \in Rest(x.f.from) : y = x \/ (y.act = "speak" /\ y.at > x.at)
         /\ \A i \in DOMAIN heard : heard[i].from # x.f.from
    ELSE \/ x.at <= now + FrameMs
         \/ \E y \in Rest(x.f.from) : y.act = "speak" /\ y.at + FrameMs = x.at

(* A burst whose timer is running goes on before that timer is due; once   *)
(* it has been answered, there is neither more of it nor a timer.          *)
GoesOn(x) ==
  Live(x) /\ Rest(x.f.from) # {} => \E y \in Rest(x.f.from) : y.at <= x.at
Settled(from) ==
  /\ Rest(from) = {}
  /\ \A x \in heap : Live(x) => x.f.from # from
AnsweredOnce ==
  /\ \A x \in heap : GoesOn(x)
  /\ \A i \in DOMAIN answered : Settled(answered[i])
  /\ \A i, j \in DOMAIN answered : answered[i] = answered[j] => i = j

(* What is said is heard in the same instant.                              *)
HeardAtOnce == \A x \in heap : x.act = "hear" => x.at <= now

BurstInv ==
  /\ BurstsKnown /\ HeardAtOnce /\ Unbroken
  /\ EndpointMs >= FrameMs => AnsweredOnce

AllInv == CallerBand /\ HeapFits /\ TurnInv /\ UtteranceInv /\ StopInv /\ SilenceInv /\ BurstInv

-----------------------------------------------------------------------------
(* Sums over the script.                                                   *)

IsRunningSum(f, n, c) == f = [k \in 0 .. n |-> IF k = 0 THEN 0 ELSE f[k - 1] + c[k]]

(* The running sums of c exist, which makes the recursive functions of     *)
(* Conversation mean what they say.                                        *)
LEMMA RunningSum ==
  ASSUME NEW n \in Nat, NEW c \in [1 .. n -> Nat]
  PROVE  \E f : IsRunningSum(f, n, c)
<1> DEFINE SumsTo(m) ==
             {f \in [0 .. m -> Nat] :
                \A k \in 0 .. m : f[k] = IF k = 0 THEN 0 ELSE f[k - 1] + c[k]}
           S == {m \in Nat : m <= n => SumsTo(m) # {}}
<1>1. 0 \in S
  <2> DEFINE f == [k \in 0 .. 0 |-> 0]
  <2>1. f \in SumsTo(0)
    OBVIOUS
  <2>. QED
    BY <2>1
<1>2. ASSUME NEW m \in Nat, m \in S PROVE m + 1 \in S
  <2> SUFFICES ASSUME m + 1 <= n PROVE SumsTo(m + 1) # {}
    <3>. HIDE DEF SumsTo
    <3>. QED
      OBVIOUS
  <2>1. PICK f : f \in SumsTo(m)
    <3>1. m <= n
      OBVIOUS
    <3>. HIDE DEF SumsTo
    <3>. QED
      BY <1>2, <3>1
  <2> DEFINE g == [k \in 0 .. m + 1 |-> IF k = m + 1 THEN f[m] + c[k] ELSE f[k]]
  <2>2. g \in [0 .. m + 1 -> Nat]
    <3>1. \A k \in 1 .. m + 1 : c[k] \in Nat
      OBVIOUS
    <3>2. ASSUME NEW k \in 0 .. m + 1 PROVE g[k] \in Nat
      BY <2>1, <3>1
    <3>. QED
      BY <3>2
  <2>3. ASSUME NEW k \in 0 .. m + 1
        PROVE  g[k] = IF k = 0 THEN 0 ELSE g[k - 1] + c[k]
    <3>1. CASE k = m + 1
      BY <3>1
    <3>2. CASE k \in 1 .. m
      BY <3>2, <2>1
    <3>3. CASE k = 0
      BY <3>3, <2>1
    <3>. QED
      BY <3>1, <3>2, <3>3
  <2>4. g \in SumsTo(m + 1)
    BY <2>2, <2>3
  <2>. QED
    BY <2>4
<1>3. n \in S
  <2>. HIDE DEF S
  <2>. QED
    BY <1>1, <1>2, NatInduct
<1>4. PICK f : f \in SumsTo(n)
  <2>. HIDE DEF SumsTo
  <2>. QED
    BY <1>3
<1>5. IsRunningSum(f, n, c)
  BY <1>4 DEF IsRunningSum
<1>. QED
  BY <1>5

LEMMA SumFacts ==
  ASSUME NEW n \in Nat, NEW c \in [1 .. n -> Nat], NEW f, IsRunningSum(f, n, c)
  PROVE  /\ f[0] = 0
         /\ \A k \in 1 .. n : f[k] = f[k - 1] + c[k]
         /\ \A k \in 0 .. n : f[k] \in Nat /\ f[k] <= f[n]
<1>1. f[0] = 0 /\ \A k \in 1 .. n : f[k] = f[k - 1] + c[k]
  BY DEF IsRunningSum
<1>2. \A k \in 0 .. n : f[k] \in Nat
  <2> DEFINE S == {m \in Nat : m <= n => f[m] \in Nat}
  <2>1. 0 \in S
    BY <1>1
  <2>2. ASSUME NEW m \in Nat, m \in S PROVE m + 1 \in S
    <3>1. CASE m + 1 <= n
      <4>1. f[m + 1] = f[m] + c[m + 1] /\ c[m + 1] \in Nat /\ f[m] \in Nat
        BY <1>1, <2>2, <3>1
      <4>. QED
        BY <4>1
    <3>. QED
      BY <3>1
  <2>3. \A m \in Nat : m \in S
    <3>. HIDE DEF S
    <3>. QED
      BY <2>1, <2>2, NatInduct
  <2>4. ASSUME NEW k \in 0 .. n PROVE f[k] \in Nat
    <3>1. k \in S
      <4>. HIDE DEF S
      <4>. QED
        BY <2>3
    <3>. QED
      BY <3>1
  <2>. QED
    BY <2>4
<1>3. \A k \in 0 .. n : f[k] <= f[n]
  <2> DEFINE S == {m \in Nat : m <= n => f[n - m] <= f[n]}
  <2>1. 0 \in S
    BY <1>2
  <2>2. ASSUME NEW m \in Nat, m \in S PROVE m + 1 \in S
    <3>1. CASE m + 1 <= n
      <4>1. n - m \in 1 .. n /\ n - (m + 1) = (n - m) - 1 /\ n - (m + 1) \in 0 .. n
        BY <3>1
      <4>2. f[n - m] = f[n - (m + 1)] + c[n - m] /\ c[n - m] \in Nat
        BY <1>1, <4>1
      <4>3. f[n - m] <= f[n] /\ f[n - m] \in Nat /\ f[n - (m + 1)] \in Nat /\ f[n] \in Nat
        BY <1>2, <2>2, <3>1, <4>1
      <4>. QED
        BY <4>2, <4>3
    <3>. QED
      BY <3>1
  <2>3. \A m \in Nat : m \in S
    <3>. HIDE DEF S
    <3>. QED
      BY <2>1, <2>2, NatInduct
  <2>4. ASSUME NEW k \in 0 .. n PROVE f[k] <= f[n]
    <3>1. n - k \in S
      <4>. HIDE DEF S
      <4>. QED
        BY <2>3
    <3>2. n - k <= n /\ n - (n - k) = k
      OBVIOUS
    <3>. QED
      BY <3>1, <3>2
  <2>. QED
    BY <2>4
<1>. QED
  BY <1>1, <1>2, <1>3

-----------------------------------------------------------------------------
(* The constants.                                                          *)

LEMMA ConfigFacts ==
  /\ FrameMs \in Nat \ {0} /\ EndpointMs \in Nat \ {0} /\ FramesPerTurn \in Nat \ {0}
  /\ FakeConfig.StopLatencyMs \in Nat /\ FakeConfig.PayloadLen \in Nat
  /\ FakeConfig.StallBeforeFrame \in Nat /\ FakeConfig.StallMs \in Nat
  /\ FakeConfig.IgnoreBargeIn \in BOOLEAN
<1>1. FrameMs \in Nat \ {0} /\ FramesPerTurn \in Nat \ {0}
  BY AgentAssumption DEF FrameMs, DefaultFrameMs, FramesPerTurn
<1>. QED
  BY <1>1, AgentAssumption DEF EndpointMs

LEMMA BurstLenFacts == ASSUME NEW durMs \in Nat PROVE BurstLen(durMs) \in Nat \ {0}
<1>1. FrameMs \in Nat \ {0}
  BY ConfigFacts
<1>2. durMs \div FrameMs \in Nat
  <2> DEFINE n == FrameMs
  <2>. HIDE DEF n
  <2>1. n \in Nat \ {0} => durMs \div n \in Nat
    OBVIOUS
  <2>. QED
    BY <1>1, <2>1 DEF n
<1>. QED
  BY <1>2 DEF BurstLen

LEMMA TurnFacts ==
  ASSUME NEW k \in 1 .. Len(Turns)
  PROVE  /\ Turns[k].AtMs \in Nat /\ Turns[k].DurMs \in Nat
         /\ Turns[k].BargeIn # NoBargeIn =>
              Turns[k].BargeIn.IntoMs \in Nat /\ Turns[k].BargeIn.DurMs \in Nat
<1>1. Turns[k] \in [AtMs : Nat, DurMs : Nat,
                    BargeIn : {NoBargeIn} \cup [IntoMs : Nat, DurMs : Nat]]
  BY ScriptAssumption, ElementOfSeq
<1>. QED
  BY <1>1

(* The caller's numbering is two running sums over the script.             *)
LEMMA ScriptSum ==
  ASSUME NEW c \in [1 .. Len(Turns) -> Nat], NEW p,
         \A f : IsRunningSum(f, Len(Turns), c) => IsRunningSum(p, Len(Turns), c)
  PROVE  /\ p[0] = 0
         /\ \A k \in 1 .. Len(Turns) : p[k] = p[k - 1] + c[k]
         /\ \A k \in 0 .. Len(Turns) : p[k] \in Nat /\ p[k] <= p[Len(Turns)]
<1>1. Len(Turns) \in Nat
  BY ScriptAssumption, LenProperties
<1>2. IsRunningSum(p, Len(Turns), c)
  BY <1>1, RunningSum
<1>. QED
  BY <1>1, <1>2, SumFacts

LEMMA PromptFacts ==
  /\ PromptSeq[Len(Turns)] \in Nat
  /\ \A k \in 1 .. Len(Turns) :
       /\ PromptSeq[k - 1] \in Nat
       /\ PromptSeq[k - 1] + BurstLen(Turns[k].DurMs) <= PromptSeq[Len(Turns)]
<1> DEFINE n == Len(Turns)
           c == [k \in 1 .. n |-> BurstLen(Turns[k].DurMs)]
<1>1. n \in Nat
  BY ScriptAssumption, LenProperties
<1>2. c \in [1 .. n -> Nat]
  BY TurnFacts, BurstLenFacts
<1>3. ASSUME NEW f, IsRunningSum(f, n, c) PROVE IsRunningSum(PromptSeq, n, c)
  <2>1. \A g : [k \in 0 .. n |-> IF k = 0 THEN 0 ELSE g[k - 1] + c[k]] =
               [k \in 0 .. n |-> IF k = 0 THEN 0 ELSE g[k - 1] + BurstLen(Turns[k].DurMs)]
    BY <1>1
  <2>2. f = [k \in 0 .. n |-> IF k = 0 THEN 0 ELSE f[k - 1] + BurstLen(Turns[k].DurMs)]
    BY <1>3, <2>1 DEF IsRunningSum
  <2>3. PromptSeq = [k \in 0 .. n |-> IF k = 0 THEN 0
                                      ELSE PromptSeq[k - 1] + BurstLen(Turns[k].DurMs)]
    BY <2>2 DEF PromptSeq
  <2>. QED
    BY <2>1, <2>3 DEF IsRunningSum
<1>4. /\ \A k \in 1 .. n : PromptSeq[k] = PromptSeq[k - 1] + c[k]
      /\ \A k \in 0 .. n : PromptSeq[k] \in Nat /\ PromptSeq[k] <= PromptSeq[n]
  <2>. HIDE DEF c
  <2>. QED
    BY <1>2, <1>3, ScriptSum
<1>5. ASSUME NEW k \in 1 .. n
      PROVE  /\ PromptSeq[k - 1] \in Nat
             /\ PromptSeq[k - 1] + BurstLen(Turns[k].DurMs) <= PromptSeq[n]
  <2>1. k - 1 \in 0 .. n /\ k \in 0 .. n
    BY <1>1
  <2>. QED
    BY <2>1, <1>4
<1>. QED
  BY <1>1, <1>4, <1>5

LEMMA BargeFacts ==
  /\ BargeSeq[0] = 0
  /\ \A k \in 0 .. Len(Turns) : BargeSeq[k] \in Nat /\ BargeSeq[k] <= BargeSeq[Len(Turns)]
  /\ \A k \in 1 .. Len(Turns) :
       BargeSeq[k] = BargeSeq[k - 1] + (IF Turns[k].BargeIn = NoBargeIn THEN 0
                                        ELSE BurstLen(Turns[k].BargeIn.DurMs))
<1> DEFINE n == Len(Turns)
           Own(k) == IF Turns[k].BargeIn = NoBargeIn THEN 0
                     ELSE BurstLen(Turns[k].BargeIn.DurMs)
           c == [k \in 1 .. n |-> Own(k)]
<1>1. n \in Nat
  BY ScriptAssumption, LenProperties
<1>2. c \in [1 .. n -> Nat]
  BY TurnFacts, BurstLenFacts
<1>3. ASSUME NEW f, IsRunningSum(f, n, c) PROVE IsRunningSum(BargeSeq, n, c)
  <2>1. \A g : [k \in 0 .. n |-> IF k = 0 THEN 0 ELSE g[k - 1] + c[k]] =
               [k \in 0 .. n |-> IF k = 0 THEN 0 ELSE g[k - 1] + Own(k)]
    BY <1>1
  <2>2. f = [k \in 0 .. n |-> IF k = 0 THEN 0 ELSE f[k - 1] + Own(k)]
    BY <1>3, <2>1 DEF IsRunningSum
  <2>3. BargeSeq = [k \in 0 .. n |-> IF k = 0 THEN 0 ELSE BargeSeq[k - 1] + Own(k)]
    BY <2>2 DEF BargeSeq
  <2>. QED
    BY <2>1, <2>3 DEF IsRunningSum
<1>4. /\ BargeSeq[0] = 0
      /\ \A k \in 1 .. n : BargeSeq[k] = BargeSeq[k - 1] + c[k]
      /\ \A k \in 0 .. n : BargeSeq[k] \in Nat /\ BargeSeq[k] <= BargeSeq[n]
  <2>. HIDE DEF c
  <2>. QED
    BY <1>2, <1>3, ScriptSum
<1>5. \A k \in 1 .. n : c[k] = Own(k)
  OBVIOUS
<1>. QED
  BY <1>4, <1>5

-----------------------------------------------------------------------------
(* What is put on the heap.                                                *)

LEMMA BurstFacts ==
  ASSUME NEW first \in Nat, NEW start \in Nat, NEW dur \in Nat, NEW from \in Sources,
         NEW x \in Burst(first, start, dur, from)
  PROVE  /\ x \in Events /\ x.act = "speak" /\ x.n < BurstLen(dur)
         /\ x.seq = first + x.n /\ x.at = start + x.n * FrameMs /\ x.at >= start
         /\ x.f.kind = "speech" /\ x.f.seq = x.seq /\ x.f.ts = x.at /\ x.f.from = from
<1>1. PICK i \in 0 .. BurstLen(dur) - 1 :
        x = Event(start + i * FrameMs, first + i, "speak", i,
                  Frame("speech", first + i, start + i * FrameMs, 0, from))
  BY DEF Burst
<1>2. i \in Nat /\ i < BurstLen(dur)
  BY BurstLenFacts
<1> DEFINE d == i * FrameMs
<1>3. d \in Nat
  BY <1>2, ConfigFacts, ProductOfNats
<1>4. x = Event(start + d, first + i, "speak", i, Frame("speech", first + i, start + d, 0, from))
  BY <1>1
<1>. HIDE DEF d
<1>5. /\ x.act = "speak" /\ x.n = i /\ x.seq = first + i /\ x.at = start + d
      /\ x.f = Frame("speech", first + i, start + d, 0, from)
  BY <1>4 DEF Event
<1>6. /\ x.f.kind = "speech" /\ x.f.seq = first + i /\ x.f.ts = start + d
      /\ x.f.from = from
  BY <1>5 DEF Frame
<1>7. Frame("speech", first + i, start + d, 0, from) \in Frames
  BY <1>2, <1>3 DEF Frame, Frames
<1>8. x \in Events
  BY <1>2, <1>3, <1>4, <1>7 DEF Event, Events
<1>9. x.at = start + x.n * FrameMs /\ x.at >= start
  BY <1>5, <1>3 DEF d
<1>. QED
  BY <1>2, <1>5, <1>6, <1>8, <1>9

LEMMA BurstOrder ==
  ASSUME NEW first \in Nat, NEW start \in Nat, NEW dur \in Nat, NEW from \in Sources,
         NEW x \in Burst(first, start, dur, from)
  PROVE  /\ x.n = 0 => \A y \in Burst(first, start, dur, from) : y = x \/ y.at > x.at
         /\ x.n # 0 => \E y \in Burst(first, start, dur, from) : y.at + FrameMs = x.at
<1> DEFINE Nth(i) == Event(start + i * FrameMs, first + i, "speak", i,
                           Frame("speech", first + i, start + i * FrameMs, 0, from))
<1>1. /\ x.n \in 0 .. BurstLen(dur) - 1 /\ x = Nth(x.n)
      /\ \A y \in Burst(first, start, dur, from) :
           y.n \in 0 .. BurstLen(dur) - 1 /\ y = Nth(y.n)
  BY DEF Burst, Event
<1>2. x.at = start + x.n * FrameMs
      /\ \A y \in Burst(first, start, dur, from) : y.at = start + y.n * FrameMs
  BY BurstFacts
<1>3. FrameMs \in Nat \ {0} /\ BurstLen(dur) \in Nat \ {0}
  BY ConfigFacts, BurstLenFacts
<1>4. ASSUME x.n = 0, NEW y \in Burst(first, start, dur, from), y.n # 0
      PROVE  y.at > x.at
  <2>1. y.n \in Nat \ {0} /\ x.at = start + 0 * FrameMs /\ y.at = start + y.n * FrameMs
    BY <1>1, <1>2, <1>3, <1>4
  <2>2. 0 * FrameMs = 0 /\ y.n * FrameMs = (y.n - 1) * FrameMs + FrameMs
    BY <2>1, <1>3
  <2>3. (y.n - 1) * FrameMs \in Nat
    BY <2>1, <1>3, ProductOfNats
  <2>. QED
    BY <2>1, <2>2, <2>3, <1>3
<1>5. ASSUME x.n # 0
      PROVE  \E y \in Burst(first, start, dur, from) : y.at + FrameMs = x.at
  <2> DEFINE i == x.n - 1
  <2>1. i \in 0 .. BurstLen(dur) - 1 /\ x.n = i + 1
    BY <1>1, <1>3, <1>5
  <2>2. Nth(i) \in Burst(first, start, dur, from)
    BY <2>1 DEF Burst
  <2>3. Nth(i).at = start + i * FrameMs
    BY DEF Event
  <2>4. x.n * FrameMs = i * FrameMs + FrameMs /\ i * FrameMs \in Nat
    BY <2>1, <1>3, ProductOfNats
  <2>5. Nth(i).at + FrameMs = x.at
    BY <2>3, <2>4, <1>2, <1>3
  <2>. QED
    BY <2>2, <2>5
<1>. QED
  BY <1>1, <1>4, <1>5

LEMMA FrameAtFacts ==
  ASSUME NEW t0 \in Nat, NEW i \in Nat
  PROVE  FrameAt(t0, i) \in Nat /\ FrameAt(t0, i) >= t0
<1> DEFINE d == i * FrameMs
<1>1. d \in Nat
  BY ConfigFacts, ProductOfNats
<1>2. FrameAt(t0, i) = t0 + d + (IF FakeConfig.StallBeforeFrame > 0 /\ i >= FakeConfig.StallBeforeFrame
                                THEN FakeConfig.StallMs ELSE 0)
  BY DEF FrameAt
<1>. HIDE DEF d
<1>. QED
  BY <1>1, <1>2, ConfigFacts

(* An event that is built is one, and has what it was built from.          *)
LEMMA EventFacts ==
  ASSUME NEW at \in Nat, NEW seq \in Nat, NEW n \in Nat, NEW f \in Frames, NEW act,
         act \in {"speak", "hear", "recv", "maybeRespond", "sendTurnStart",
                  "emitAgentFrame", "emitTurnEnd"}
  PROVE  LET x == Event(at, seq, act, n, f) IN
         /\ x \in Events
         /\ x.at = at /\ x.seq = seq /\ x.act = act /\ x.n = n /\ x.f = f
BY DEF Event, Events

LEMMA AgentFrameFacts ==
  ASSUME NEW kind, kind \in {"agent", "turn_start", "turn_end"},
         NEW seq \in Nat, NEW ts \in Nat, NEW turn \in Nat
  PROVE  LET f == AgentFrame(kind, seq, ts, turn) IN
         /\ f \in Frames /\ f.kind = kind /\ f.seq = seq /\ f.ts = ts /\ f.turn = turn
BY DEF AgentFrame, Frame, Frames, Sources

LEMMA AgentTypes ==
  ASSUME TypeOK
  PROVE  /\ agent.seq \in Nat /\ agent.schedSeq \in Nat /\ agent.turn \in Nat
         /\ agent.speechGen \in Nat /\ agent.stopAt \in Nat
         /\ agent.talking \in BOOLEAN /\ agent.interrupted \in BOOLEAN
         /\ agent.ended \in BOOLEAN
<1>1. agent.seq \in 0 .. MaxSeq
  BY DEF TypeOK
<1>2. agent.seq \in Nat
  BY <1>1 DEF MaxSeq
<1>. QED
  BY <1>2 DEF TypeOK

LEMMA TimerSeqFacts ==
  ASSUME TypeOK
  PROVE  /\ TimerSeq(0) \in Nat
         /\ \A k \in Nat : /\ TimerSeq(k) \in Nat /\ TimerSeq(k) >= MaxSeq
                           /\ k > 0 => TimerSeq(k) > TimerSeq(0)
<1>1. agent.schedSeq \in Nat
  BY AgentTypes
<1>2. ASSUME NEW k \in Nat
      PROVE  TimerSeq(k) = MaxSeq + agent.schedSeq + k
  BY DEF TimerSeq, TimerSeqBase
<1>. QED
  BY <1>1, <1>2 DEF MaxSeq

LEMMA TurnEventFacts ==
  ASSUME TypeOK, NEW turn \in Nat, NEW t0 \in Nat, NEW x \in TurnEvents(turn, t0)
  PROVE  /\ x \in Events /\ x.at >= t0 /\ x.n = turn /\ x.f.turn = turn /\ x.f.ts = x.at
         /\ \/ /\ x.act = "sendTurnStart" /\ x.f.kind = "turn_start"
               /\ x.f.seq = agent.seq /\ x.at = t0 /\ x.seq = TimerSeq(0)
               /\ x = Event(t0, TimerSeq(0), "sendTurnStart", turn,
                            AgentFrame("turn_start", agent.seq, t0, turn))
            \/ x.act = "emitAgentFrame" /\ x.f.kind = "agent" /\ x.seq > TimerSeq(0)
            \/ x.act = "emitTurnEnd" /\ x.f.kind = "turn_end" /\ x.seq > TimerSeq(0)
<1>1. TimerSeq(0) \in Nat
      /\ \A k \in Nat : TimerSeq(k) \in Nat /\ (k > 0 => TimerSeq(k) > TimerSeq(0))
  BY TimerSeqFacts
<1>2. agent.seq \in Nat
  BY AgentTypes
<1> DEFINE endTS == FrameAt(t0, FramesPerTurn - 1) + FrameMs
<1>3. endTS \in Nat /\ endTS >= t0
  <2>1. FramesPerTurn - 1 \in Nat
    BY ConfigFacts
  <2>2. FrameAt(t0, FramesPerTurn - 1) \in Nat /\ FrameAt(t0, FramesPerTurn - 1) >= t0
    BY <2>1, FrameAtFacts
  <2>. QED
    BY <2>2, ConfigFacts
<1>4. CASE x = Event(t0, TimerSeq(0), "sendTurnStart", turn,
                     AgentFrame("turn_start", agent.seq, t0, turn))
  <2> DEFINE f == AgentFrame("turn_start", agent.seq, t0, turn)
  <2>1. /\ f \in Frames /\ f.turn = turn /\ f.ts = t0 /\ f.kind = "turn_start"
        /\ f.seq = agent.seq
    BY <1>2, AgentFrameFacts
  <2>2. x = Event(t0, TimerSeq(0), "sendTurnStart", turn, f)
    BY <1>4
  <2>. HIDE DEF f
  <2>3. /\ x \in Events /\ x.at = t0 /\ x.seq = TimerSeq(0)
        /\ x.act = "sendTurnStart" /\ x.n = turn /\ x.f = f
    BY <1>1, <2>1, <2>2, EventFacts
  <2>. QED
    BY <1>4, <2>1, <2>3
<1>5. ASSUME NEW i \in 0 .. FramesPerTurn - 1,
             x = Event(FrameAt(t0, i), TimerSeq(1 + i), "emitAgentFrame", turn,
                       AgentFrame("agent", 0, FrameAt(t0, i), turn))
      PROVE  /\ x \in Events /\ x.at >= t0 /\ x.n = turn /\ x.f.turn = turn /\ x.f.ts = x.at
             /\ x.act = "emitAgentFrame" /\ x.f.kind = "agent" /\ x.seq > TimerSeq(0)
  <2>1. i \in Nat /\ 1 + i \in Nat /\ 1 + i > 0
    BY ConfigFacts
  <2>2. FrameAt(t0, i) \in Nat /\ FrameAt(t0, i) >= t0
    BY <2>1, FrameAtFacts
  <2> DEFINE f == AgentFrame("agent", 0, FrameAt(t0, i), turn)
  <2>3. f \in Frames /\ f.turn = turn /\ f.ts = FrameAt(t0, i) /\ f.kind = "agent"
    BY <2>2, AgentFrameFacts
  <2>. HIDE DEF f
  <2>4. x = Event(FrameAt(t0, i), TimerSeq(1 + i), "emitAgentFrame", turn, f)
    BY <1>5 DEF f
  <2>5. TimerSeq(1 + i) \in Nat /\ TimerSeq(1 + i) > TimerSeq(0)
    BY <1>1, <2>1
  <2>6. /\ x \in Events /\ x.at = FrameAt(t0, i) /\ x.seq = TimerSeq(1 + i)
        /\ x.act = "emitAgentFrame" /\ x.n = turn /\ x.f = f
    BY <2>2, <2>3, <2>4, <2>5, EventFacts
  <2>. QED
    BY <2>2, <2>3, <2>5, <2>6
<1>6. CASE x = Event(endTS, TimerSeq(FramesPerTurn + 1), "emitTurnEnd", turn,
                     AgentFrame("turn_end", 0, endTS, turn))
  <2>. HIDE DEF endTS
  <2> DEFINE f == AgentFrame("turn_end", 0, endTS, turn)
  <2>1. f \in Frames /\ f.turn = turn /\ f.ts = endTS /\ f.kind = "turn_end"
    BY <1>3, AgentFrameFacts
  <2>2. FramesPerTurn + 1 \in Nat /\ FramesPerTurn + 1 > 0
    BY ConfigFacts
  <2>3. x = Event(endTS, TimerSeq(FramesPerTurn + 1), "emitTurnEnd", turn, f)
    BY <1>6 DEF f
  <2>. HIDE DEF f
  <2>4. TimerSeq(FramesPerTurn + 1) \in Nat /\ TimerSeq(FramesPerTurn + 1) > TimerSeq(0)
    BY <1>1, <2>2
  <2>5. /\ x \in Events /\ x.at = endTS /\ x.seq = TimerSeq(FramesPerTurn + 1)
        /\ x.act = "emitTurnEnd" /\ x.n = turn /\ x.f = f
    BY <1>3, <2>1, <2>3, <2>4, EventFacts
  <2>. QED
    BY <1>3, <2>1, <2>4, <2>5
<1>7. \/ x = Event(t0, TimerSeq(0), "sendTurnStart", turn,
                  AgentFrame("turn_start", agent.seq, t0, turn))
      \/ \E i \in 0 .. FramesPerTurn - 1 :
           x = Event(FrameAt(t0, i), TimerSeq(1 + i), "emitAgentFrame", turn,
                     AgentFrame("agent", 0, FrameAt(t0, i), turn))
      \/ x = Event(endTS, TimerSeq(FramesPerTurn + 1), "emitTurnEnd", turn,
                  AgentFrame("turn_end", 0, endTS, turn))
  BY Zenon DEF TurnEvents
<1>. HIDE DEF endTS
<1>. QED
  BY <1>4, <1>5, <1>6, <1>7

-----------------------------------------------------------------------------
(* The steps, with the heap as they leave it.                              *)

(* A least event leaves the heap, and those in new enter it, none of them  *)
(* in the past.                                                            *)
Fired(e, new) ==
  /\ e \in heap /\ e \in Events /\ now \in Nat /\ now <= e.at /\ now' = e.at
  /\ \A x \in heap : x \in Events /\ e.at <= x.at /\ (x.at = e.at => e.seq <= x.seq)
  /\ heap' = (heap \ {e}) \cup new
  /\ \A x \in new : x \in Events /\ x.at >= e.at

LEMMA Pushed ==
  ASSUME TypeOK, NEW e, NEW act, Pops(e, act), NEW new,
         \A x \in new : x \in Events /\ x.at >= e.at,
         Reschedule(e, new)
  PROVE  Fired(e, new) /\ e.act = act
<1>1. /\ e \in heap /\ e.act = act /\ heap \subseteq Events /\ now \in Nat
      /\ now' = IF e.at > now THEN e.at ELSE now
      /\ \A x \in heap : x.at >= now /\ ~Less(x, e)
  BY DEF Pops, TypeOK
<1>2. \A x \in Events : x.at \in Nat /\ x.seq \in Nat
  BY DEF Events
<1>3. now' = e.at
  BY <1>1, <1>2
<1>4. \A x \in heap : e.at <= x.at /\ (x.at = e.at => e.seq <= x.seq)
  BY <1>1, <1>2 DEF Less
<1>5. ASSUME NEW x \in new
      PROVE  [x EXCEPT !.at = IF @ < now' THEN now' ELSE @] = x
  <2>1. ~(x.at < now') /\ x \in Events
    BY <1>3, <1>1, <1>2
  <2>. QED
    BY <2>1 DEF Events
<1>6. {[x EXCEPT !.at = IF @ < now' THEN now' ELSE @] : x \in new} = new
  BY <1>5
<1>7. heap' = (heap \ {e}) \cup new
  BY <1>6 DEF Reschedule
<1>. QED
  BY <1>1, <1>3, <1>4, <1>7 DEF Fired

LEMMA Popped ==
  ASSUME TypeOK, NEW e, NEW act, Pops(e, act)
  PROVE  /\ e \in heap /\ e \in Events /\ e.act = act /\ now' = e.at
         /\ e.at \in Nat /\ e.seq \in Nat /\ e.n \in Nat /\ e.f \in Frames
         /\ e.f.ts \in Nat /\ e.f.seq \in Nat /\ e.f.turn \in Nat /\ e.f.from \in Sources
<1>1. /\ e \in heap /\ e \in Events /\ e.act = act /\ now \in Nat /\ e.at >= now
      /\ now' = IF e.at > now THEN e.at ELSE now
  BY DEF Pops, TypeOK
<1>2. e.at \in Nat /\ e.seq \in Nat /\ e.n \in Nat /\ e.f \in Frames
  BY <1>1 DEF Events
<1>3. now' = e.at
  BY <1>1, <1>2
<1>. QED
  BY <1>1, <1>2, <1>3 DEF Frames

LEMMA FiredTypes ==
  ASSUME NEW e, NEW new, Fired(e, new)
  PROVE  now' \in Nat /\ heap' \subseteq Events /\ \A x \in heap' : x.at >= now'
<1>1. e.at \in Nat
  BY DEF Fired, Events
<1>. QED
  BY <1>1 DEF Fired

LEMMA Appended ==
  ASSUME NEW S, NEW s \in Seq(S), NEW x \in S, NEW t, t = Append(s, x)
  PROVE  /\ t \in Seq(S) /\ t # << >>
         /\ Len(s) \in Nat /\ DOMAIN s = 1 .. Len(s)
         /\ Len(t) = Len(s) + 1 /\ DOMAIN t = 1 .. Len(s) + 1
         /\ \A i \in 1 .. Len(s) : t[i] = s[i]
         /\ t[Len(s) + 1] = x
<1>1. t \in Seq(S) /\ t # << >> /\ Len(t) = Len(s) + 1
      /\ (\A i \in 1 .. Len(s) : t[i] = s[i]) /\ t[Len(s) + 1] = x
  BY AppendProperties
<1>. QED
  BY <1>1, LenProperties

(* The same, without the positions.                                        *)
LEMMA Grown ==
  ASSUME NEW S, NEW s \in Seq(S), NEW x \in S, NEW t, t = Append(s, x)
  PROVE  /\ \A j \in DOMAIN s : j \in DOMAIN t /\ t[j] = s[j]
         /\ \E j \in DOMAIN t : t[j] = x
         /\ \A j \in DOMAIN t : (j \in DOMAIN s /\ t[j] = s[j]) \/ t[j] = x
<1>1. /\ DOMAIN s = 1 .. Len(s) /\ DOMAIN t = 1 .. Len(s) + 1 /\ Len(s) \in Nat
      /\ \A i \in 1 .. Len(s) : t[i] = s[i]
      /\ t[Len(s) + 1] = x
  BY Appended
<1>2. \A l \in Nat : /\ l + 1 \in 1 .. l + 1
                     /\ \A k \in 1 .. l : k \in 1 .. l + 1
                     /\ \A k \in 1 .. l + 1 : k \in 1 .. l \/ k = l + 1
  OBVIOUS
<1>. QED
  BY <1>1, <1>2, Zenon

(* What Speak records: the speech, after the barge-in that it begins.      *)
LEMMA SpeakLog ==
  ASSUME TypeOK, NEW e \in heap, Speak(e)
  PROVE  /\ log' \in Seq(Entries) /\ Len(log) \in Nat /\ DOMAIN log = 1 .. Len(log)
         /\ Len(log') \in Len(log) + 1 .. Len(log) + 2 /\ DOMAIN log' = 1 .. Len(log')
         /\ \A i \in 1 .. Len(log) : log'[i] = log[i]
         /\ \A i \in Len(log) + 1 .. Len(log') :
              /\ log'[i].f = e.f /\ log'[i].ts = e.f.ts
              /\ log'[i].turn = obsTurn /\ log'[i].type \in {"barge_in", "send"}
<1> DEFINE b == Entry("barge_in", e.f.ts, obsTurn, e.f)
           c == Entry("send", e.f.ts, obsTurn, e.f)
           mid == log \o (IF e.f.from[1] = "barge" /\ e.n = 0 THEN <<b>> ELSE << >>)
<1>1. e.f \in Frames /\ e.f.ts \in Nat /\ obsTurn \in Nat /\ log \in Seq(Entries)
  BY Popped DEF Speak, TypeOK
<1>2. b \in Entries /\ c \in Entries
  BY <1>1 DEF Entry, Entries
<1>3. /\ b.f = e.f /\ b.ts = e.f.ts /\ b.type = "barge_in" /\ b.turn = obsTurn
      /\ c.f = e.f /\ c.ts = e.f.ts /\ c.type = "send" /\ c.turn = obsTurn
  BY DEF Entry
<1>4. log' = mid \o <<c>>
  BY DEF Speak
<1>. HIDE DEF b, c
<1>5. mid = log \/ mid = Append(log, b)
  <2>1. log \o << >> = log /\ log \o <<b>> = Append(log, b)
    BY <1>1, <1>2, ConcatEmptySeq, AppendIsConcat
  <2>. QED
    BY <2>1
<1>. HIDE DEF mid
<1>6. /\ mid \in Seq(Entries) /\ Len(log) \in Nat /\ DOMAIN log = 1 .. Len(log)
      /\ Len(mid) \in Len(log) .. Len(log) + 1
      /\ \A i \in 1 .. Len(log) : mid[i] = log[i]
      /\ \A i \in Len(log) + 1 .. Len(mid) : mid[i] = b
  <2>1. CASE mid = log
    <3>1. Len(log) \in Nat /\ DOMAIN log = 1 .. Len(log)
      BY <1>1, LenProperties
    <3>. QED
      BY <2>1, <3>1, <1>1
  <2>2. CASE mid = Append(log, b)
    <3>1. /\ mid \in Seq(Entries) /\ Len(log) \in Nat /\ DOMAIN log = 1 .. Len(log)
          /\ Len(mid) = Len(log) + 1
          /\ \A i \in 1 .. Len(log) : mid[i] = log[i]
          /\ mid[Len(log) + 1] = b
      BY <2>2, <1>1, <1>2, Appended
    <3>. QED
      BY <3>1
  <2>. QED
    BY <1>5, <2>1, <2>2
<1>7. log' = Append(mid, c)
  BY <1>2, <1>4, <1>6, AppendIsConcat
<1>8. /\ log' \in Seq(Entries) /\ Len(mid) \in Nat /\ DOMAIN mid = 1 .. Len(mid)
      /\ Len(log') = Len(mid) + 1 /\ DOMAIN log' = 1 .. Len(mid) + 1
      /\ \A i \in 1 .. Len(mid) : log'[i] = mid[i]
      /\ log'[Len(mid) + 1] = c
  BY <1>2, <1>6, <1>7, Appended
<1>9. ASSUME NEW i \in Len(log) + 1 .. Len(log')
      PROVE  log'[i] = b \/ log'[i] = c
  <2>1. CASE i = Len(mid) + 1
    BY <2>1, <1>8
  <2>2. CASE i \in Len(log) + 1 .. Len(mid)
    <3>1. i \in 1 .. Len(mid)
      BY <2>2, <1>6, <1>8
    <3>. QED
      BY <2>2, <3>1, <1>6, <1>8
  <2>. QED
    BY <2>1, <2>2, <1>6, <1>8
<1>10. ASSUME NEW i \in 1 .. Len(log) PROVE log'[i] = log[i]
  <2>1. i \in 1 .. Len(mid)
    BY <1>6, <1>8
  <2>. QED
    BY <2>1, <1>6, <1>8
<1>11. Len(log') \in Len(log) + 1 .. Len(log) + 2 /\ DOMAIN log' = 1 .. Len(log')
  BY <1>6, <1>8
<1>12. ASSUME NEW i \in Len(log) + 1 .. Len(log')
       PROVE  /\ log'[i].f = e.f /\ log'[i].ts = e.f.ts
              /\ log'[i].turn = obsTurn /\ log'[i].type \in {"barge_in", "send"}
  BY <1>9, <1>3
<1>. QED
  BY <1>6, <1>8, <1>10, <1>11, <1>12

LEMMA SpeakStep ==
  ASSUME TypeOK, NEW e \in heap, Speak(e)
  PROVE  /\ e.act = "speak" /\ Fired(e, {Event(e.at, e.f.seq, "hear", 0, e.f)})
         /\ LET x == Event(e.at, e.f.seq, "hear", 0, e.f) IN
            x.at = e.at /\ x.seq = e.f.seq /\ x.act = "hear" /\ x.n = 0 /\ x.f = e.f
         /\ UNCHANGED <<callerSeq, obsTurn, agent, queue, dropped, heard, air, answered>>
<1>1. /\ Pops(e, "speak") /\ Reschedule(e, {Event(now', e.f.seq, "hear", 0, e.f)})
      /\ UNCHANGED <<callerSeq, obsTurn, agent, queue, dropped, heard, air, answered>>
  BY DEF Speak
<1>2. now' = e.at /\ e.at \in Nat /\ e.f.seq \in Nat /\ e.f \in Frames
  BY <1>1, Popped
<1> DEFINE x == Event(e.at, e.f.seq, "hear", 0, e.f)
<1>3. /\ x \in Events
      /\ x.at = e.at /\ x.seq = e.f.seq /\ x.act = "hear" /\ x.n = 0 /\ x.f = e.f
  BY <1>2, EventFacts
<1>4. Reschedule(e, {x})
  BY <1>1, <1>2
<1>5. \A y \in {x} : y \in Events /\ y.at >= e.at
  <2>. HIDE DEF x
  <2>. QED
    BY <1>2, <1>3
<1>6. Fired(e, {x}) /\ e.act = "speak"
  <2>. HIDE DEF x
  <2>. QED
    BY <1>1, <1>4, <1>5, Pushed
<1>. QED
  BY <1>1, <1>3, <1>6

(* Nothing or a barge-in burst goes on the heap.                           *)
BargesIn(e, new) ==
  LET turn == obsTurn + 1 IN
  IF turn <= Len(Turns) /\ Turns[turn].BargeIn # NoBargeIn
  THEN /\ new = Burst(callerSeq, e.at + Turns[turn].BargeIn.IntoMs,
                      Turns[turn].BargeIn.DurMs, <<"barge", turn>>)
       /\ callerSeq' = callerSeq + BurstLen(Turns[turn].BargeIn.DurMs)
  ELSE new = {} /\ callerSeq' = callerSeq

LEMMA CallerTypes == TypeOK => callerSeq \in Nat /\ callerSeq < MaxSeq /\ obsTurn \in Nat
BY DEF TypeOK, MaxSeq

LEMMA ReceiveTurnStartStep ==
  ASSUME TypeOK, NEW e \in heap, ReceiveTurnStart(e)
  PROVE  /\ e.act = "recv" /\ e.f.kind = "turn_start"
         /\ obsTurn' = obsTurn + 1
         /\ log' = Append(log, Entry("turn_start", e.at, obsTurn + 1, e.f))
         /\ Entry("turn_start", e.at, obsTurn + 1, e.f) \in Entries
         /\ \E new : Fired(e, new) /\ BargesIn(e, new)
         /\ UNCHANGED <<agent, queue, dropped, heard, air, answered>>
<1> DEFINE turn == obsTurn + 1
           bi == Turns[turn].BargeIn
           barges == turn <= Len(Turns) /\ bi # NoBargeIn
<1>1. /\ Pops(e, "recv") /\ e.f.kind = "turn_start" /\ obsTurn' = turn
      /\ log' = Append(log, Entry("turn_start", now', turn, e.f))
      /\ IF barges
         THEN /\ Reschedule(e, Burst(callerSeq, now' + bi.IntoMs, bi.DurMs, <<"barge", turn>>))
              /\ callerSeq' = callerSeq + BurstLen(bi.DurMs)
         ELSE Reschedule(e, {}) /\ callerSeq' = callerSeq
      /\ UNCHANGED <<agent, queue, dropped, heard, air, answered>>
  BY DEF ReceiveTurnStart
<1>2. now' = e.at /\ e.at \in Nat /\ e.f \in Frames /\ e.act = "recv"
  BY <1>1, Popped
<1>3. turn \in Nat /\ turn > 0 /\ callerSeq \in Nat
  BY CallerTypes
<1>4. Entry("turn_start", e.at, turn, e.f) \in Entries
  BY <1>2, <1>3 DEF Entry, Entries
<1>5. ASSUME barges
      PROVE  Fired(e, Burst(callerSeq, e.at + bi.IntoMs, bi.DurMs, <<"barge", turn>>))
  <2>1. turn \in 1 .. Len(Turns)
    BY <1>3, <1>5, ScriptAssumption, LenProperties
  <2>2. bi.IntoMs \in Nat /\ bi.DurMs \in Nat
    BY <2>1, <1>5, TurnFacts
  <2>3. <<"barge", turn>> \in Sources /\ e.at + bi.IntoMs \in Nat
    BY <1>2, <1>3, <2>2 DEF Sources
  <2> DEFINE new == Burst(callerSeq, e.at + bi.IntoMs, bi.DurMs, <<"barge", turn>>)
  <2>4. ASSUME NEW x \in new PROVE x \in Events /\ x.at >= e.at
    <3>1. x \in Events /\ x.at >= e.at + bi.IntoMs
      BY <2>2, <2>3, <1>3, BurstFacts
    <3>. QED
      BY <3>1, <1>2, <2>2 DEF Events
  <2>5. Reschedule(e, new)
    BY <1>1, <1>2, <1>5
  <2>. HIDE DEF new
  <2>6. Fired(e, new)
    BY <1>1, <2>4, <2>5, Pushed
  <2>. QED
    BY <2>6 DEF new
<1>6. ASSUME ~barges PROVE Fired(e, {})
  BY <1>1, <1>6, Pushed
<1>7. \E new : Fired(e, new) /\ BargesIn(e, new)
  <2>1. CASE barges
    BY <2>1, <1>1, <1>5 DEF BargesIn
  <2>2. CASE ~barges
    BY <2>2, <1>1, <1>6 DEF BargesIn
  <2>. QED
    BY <2>1, <2>2
<1>. QED
  BY <1>1, <1>2, <1>4, <1>7

LEMMA ReceiveOtherStep ==
  ASSUME TypeOK, NEW e \in heap, ReceiveOther(e)
  PROVE  /\ e.act = "recv" /\ e.f.kind # "turn_start" /\ Fired(e, {})
         /\ \E type \in {"turn_end", "recv"} :
              /\ log' = Append(log, Entry(type, e.at, obsTurn, e.f))
              /\ Entry(type, e.at, obsTurn, e.f) \in Entries
         /\ UNCHANGED <<callerSeq, obsTurn, agent, queue, dropped, heard, air, answered>>
<1> DEFINE type == IF e.f.kind = "turn_end" THEN "turn_end" ELSE "recv"
<1>1. /\ Pops(e, "recv") /\ e.f.kind # "turn_start" /\ Reschedule(e, {})
      /\ log' = Append(log, Entry(type, now', obsTurn, e.f))
      /\ UNCHANGED <<callerSeq, obsTurn, agent, queue, dropped, heard, air, answered>>
  BY DEF ReceiveOther
<1>2. now' = e.at /\ e.at \in Nat /\ e.f \in Frames /\ obsTurn \in Nat
  BY <1>1, Popped, CallerTypes
<1>3. type \in {"turn_end", "recv"}
  OBVIOUS
<1>. HIDE DEF type
<1>4. Entry(type, e.at, obsTurn, e.f) \in Entries
  BY <1>2, <1>3 DEF Entry, Entries
<1>5. Fired(e, {}) /\ e.act = "recv"
  BY <1>1, Pushed
<1>. QED
  BY <1>1, <1>2, <1>3, <1>4, <1>5

Hearing(e, as) == [ts |-> e.at, as |-> as, turn |-> agent.turn, from |-> e.f.from]

LEMMA HeardStep ==
  ASSUME TypeOK, NEW e, Pops(e, "hear"), NEW as, as \in {"barge_in", "ignored", "utterance"},
         Heard(e, as)
  PROVE  /\ Hearing(e, as) \in Hearings /\ heard' = Append(heard, Hearing(e, as))
         /\ Hearing(e, as).ts = e.at /\ Hearing(e, as).as = as
         /\ Hearing(e, as).turn = agent.turn /\ Hearing(e, as).from = e.f.from
<1>1. now' = e.at /\ e.at \in Nat /\ e.f.from \in Sources /\ agent.turn \in Nat
  BY Popped, AgentTypes
<1>2. Hearing(e, as) \in Hearings
  BY <1>1 DEF Hearing, Hearings
<1>3. heard' = Append(heard, Hearing(e, as))
  BY <1>1 DEF Heard, Hearing
<1>4. /\ Hearing(e, as).ts = e.at /\ Hearing(e, as).as = as
      /\ Hearing(e, as).turn = agent.turn /\ Hearing(e, as).from = e.f.from
  BY DEF Hearing
<1>. QED
  BY <1>2, <1>3, <1>4

(* The TurnEnd that a barge-in schedules.                                  *)
EarlyEnd(e) ==
  LET endAt == e.at + FakeConfig.StopLatencyMs + FrameMs IN
  Event(endAt, TimerSeq(0), "emitTurnEnd", agent.turn,
        AgentFrame("turn_end", 0, endAt, agent.turn))

LEMMA HearBargeInStep ==
  ASSUME TypeOK, NEW e \in heap, HearBargeIn(e)
  PROVE  /\ e.act = "hear" /\ agent.talking /\ ~agent.interrupted
         /\ Hearing(e, "barge_in") \in Hearings
         /\ heard' = Append(heard, Hearing(e, "barge_in"))
         /\ Fired(e, {EarlyEnd(e)})
         /\ LET x == EarlyEnd(e) IN
            /\ x \in Events /\ x.at = e.at + FakeConfig.StopLatencyMs + FrameMs
            /\ x.seq = TimerSeq(0) /\ x.act = "emitTurnEnd" /\ x.n = agent.turn
            /\ x.f.kind = "turn_end" /\ x.f.turn = agent.turn /\ x.f.ts = x.at
         /\ agent' = [agent EXCEPT !.interrupted = TRUE, !.schedSeq = agent.schedSeq + 1,
                                   !.stopAt = e.at + FakeConfig.StopLatencyMs]
         /\ UNCHANGED <<callerSeq, obsTurn, log, queue, dropped, air, answered>>
<1> DEFINE stopAt == e.at + FakeConfig.StopLatencyMs
           endAt == stopAt + FrameMs
           f == AgentFrame("turn_end", 0, endAt, agent.turn)
           x == Event(endAt, TimerSeq(0), "emitTurnEnd", agent.turn, f)
<1>1. Pops(e, "hear") /\ agent.talking /\ ~agent.interrupted /\ Heard(e, "barge_in")
  BY DEF HearBargeIn
<1>2. now' = e.at /\ e.at \in Nat /\ e.act = "hear"
  BY <1>1, Popped
<1>3. stopAt \in Nat /\ endAt \in Nat /\ endAt >= e.at
  BY <1>2, ConfigFacts
<1>4. /\ Reschedule(e, {x})
      /\ agent' = [agent EXCEPT !.interrupted = TRUE, !.schedSeq = agent.schedSeq + 1,
                                !.stopAt = stopAt]
      /\ UNCHANGED <<callerSeq, obsTurn, log, queue, dropped, air, answered>>
  <2>1. /\ Reschedule(e, {x})
        /\ agent' = [agent EXCEPT !.interrupted = TRUE, !.stopAt = stopAt, !.schedSeq = @ + 1]
        /\ UNCHANGED <<callerSeq, obsTurn, log, queue, dropped, air, answered>>
    BY <1>2 DEF HearBargeIn
  <2>2. [agent EXCEPT !.interrupted = TRUE, !.stopAt = stopAt, !.schedSeq = @ + 1] =
        [agent EXCEPT !.interrupted = TRUE, !.schedSeq = agent.schedSeq + 1, !.stopAt = stopAt]
    BY DEF TypeOK
  <2>. QED
    BY <2>1, <2>2
<1>5. x = EarlyEnd(e)
  BY DEF EarlyEnd
<1>6. f \in Frames /\ f.kind = "turn_end" /\ f.turn = agent.turn /\ f.ts = endAt
  BY <1>3, AgentFrameFacts, AgentTypes
<1>7. /\ x \in Events /\ x.at = endAt /\ x.seq = TimerSeq(0)
      /\ x.act = "emitTurnEnd" /\ x.n = agent.turn /\ x.f = f
  <2>1. TimerSeq(0) \in Nat /\ agent.turn \in Nat
    BY TimerSeqFacts, AgentTypes
  <2>. HIDE DEF f, endAt
  <2>. QED
    BY <1>3, <1>6, <2>1, EventFacts
<1>8. Fired(e, {x})
  <2>1. \A y \in {x} : y \in Events /\ y.at >= e.at
    <3>. HIDE DEF x
    <3>. QED
      BY <1>3, <1>7
  <2>. HIDE DEF x
  <2>. QED
    BY <1>1, <1>4, <2>1, Pushed
<1>9. Hearing(e, "barge_in") \in Hearings /\ heard' = Append(heard, Hearing(e, "barge_in"))
  BY <1>1, HeardStep
<1>. QED
  BY <1>1, <1>2, <1>4, <1>5, <1>6, <1>7, <1>8, <1>9

LEMMA HearWhileTalkingStep ==
  ASSUME TypeOK, NEW e \in heap, HearWhileTalking(e)
  PROVE  /\ e.act = "hear" /\ agent.talking /\ Fired(e, {})
         /\ Hearing(e, "ignored") \in Hearings
         /\ heard' = Append(heard, Hearing(e, "ignored"))
         /\ UNCHANGED <<callerSeq, obsTurn, log, agent, queue, dropped, air, answered>>
<1>1. /\ Pops(e, "hear") /\ agent.talking /\ Reschedule(e, {}) /\ Heard(e, "ignored")
      /\ UNCHANGED <<callerSeq, obsTurn, log, agent, queue, dropped, air, answered>>
  BY DEF HearWhileTalking
<1>2. Fired(e, {}) /\ e.act = "hear"
  BY <1>1, Pushed
<1>3. Hearing(e, "ignored") \in Hearings /\ heard' = Append(heard, Hearing(e, "ignored"))
  BY <1>1, HeardStep
<1>. QED
  BY <1>1, <1>2, <1>3

(* The endpointing timer that an utterance arms.                           *)
Armed(e) == Event(e.at + EndpointMs, TimerSeq(0), "maybeRespond", agent.speechGen + 1, e.f)

LEMMA HearUtteranceStep ==
  ASSUME TypeOK, NEW e \in heap, HearUtterance(e)
  PROVE  /\ e.act = "hear" /\ ~agent.talking /\ Fired(e, {Armed(e)})
         /\ LET x == Armed(e) IN
            /\ x \in Events /\ x.at = e.at + EndpointMs /\ x.seq = TimerSeq(0)
            /\ x.act = "maybeRespond" /\ x.n = agent.speechGen + 1 /\ x.f = e.f
         /\ Hearing(e, "utterance") \in Hearings
         /\ heard' = Append(heard, Hearing(e, "utterance"))
         /\ agent' = [agent EXCEPT !.speechGen = agent.speechGen + 1,
                                   !.schedSeq = agent.schedSeq + 1]
         /\ UNCHANGED <<callerSeq, obsTurn, log, queue, dropped, air, answered>>
<1>1. /\ Pops(e, "hear") /\ ~agent.talking /\ Heard(e, "utterance")
      /\ Reschedule(e, {Event(now' + EndpointMs, TimerSeq(0), "maybeRespond",
                              agent.speechGen + 1, e.f)})
      /\ agent' = [agent EXCEPT !.speechGen = agent.speechGen + 1,
                                !.schedSeq = agent.schedSeq + 1]
      /\ UNCHANGED <<callerSeq, obsTurn, log, queue, dropped, air, answered>>
  BY DEF HearUtterance
<1>2. now' = e.at /\ e.at \in Nat /\ e.act = "hear" /\ e.f \in Frames
  BY <1>1, Popped
<1> DEFINE x == Armed(e)
<1>3. Reschedule(e, {x})
  BY <1>1, <1>2 DEF Armed
<1>4. e.at + EndpointMs \in Nat /\ e.at + EndpointMs >= e.at /\ agent.speechGen + 1 \in Nat
  BY <1>2, ConfigFacts, AgentTypes
<1>5. /\ x \in Events /\ x.at = e.at + EndpointMs /\ x.seq = TimerSeq(0)
      /\ x.act = "maybeRespond" /\ x.n = agent.speechGen + 1 /\ x.f = e.f
  <2>1. TimerSeq(0) \in Nat
    BY TimerSeqFacts
  <2>. QED
    BY <1>2, <1>4, <2>1, EventFacts DEF Armed
<1>6. Fired(e, {x})
  <2>1. \A y \in {x} : y \in Events /\ y.at >= e.at
    <3>. HIDE DEF x
    <3>. QED
      BY <1>4, <1>5
  <2>. HIDE DEF x
  <2>. QED
    BY <1>1, <1>3, <2>1, Pushed
<1>7. Hearing(e, "utterance") \in Hearings /\ heard' = Append(heard, Hearing(e, "utterance"))
  BY <1>1, HeardStep
<1>. QED
  BY <1>1, <1>2, <1>5, <1>6, <1>7

LEMMA TimerIsStaleStep ==
  ASSUME TypeOK, NEW e \in heap, TimerIsStale(e)
  PROVE  /\ Stale(e) /\ Fired(e, {})
         /\ UNCHANGED <<callerSeq, obsTurn, log, agent, queue, dropped, heard, air, answered>>
BY Pushed DEF TimerIsStale

LEMMA RespondStep ==
  ASSUME TypeOK, NEW e \in heap, Respond(e)
  PROVE  /\ e.act = "maybeRespond" /\ ~agent.talking /\ e.n = agent.speechGen
         /\ e.at \in Nat /\ Fired(e, TurnEvents(agent.turn + 1, e.at))
         /\ e.f.from \in Sources /\ answered' = Append(answered, e.f.from)
         /\ agent' = [agent EXCEPT !.turn = agent.turn + 1, !.talking = TRUE,
                                   !.interrupted = FALSE, !.ended = FALSE,
                                   !.seq = agent.seq + 1,
                                   !.schedSeq = agent.schedSeq + FramesPerTurn + 2]
         /\ UNCHANGED <<callerSeq, obsTurn, log, queue, dropped, heard, air>>
<1>1. /\ Pops(e, "maybeRespond") /\ ~Stale(e) /\ Reschedule(e, TurnEvents(agent.turn + 1, e.at))
      /\ answered' = Append(answered, e.f.from)
      /\ agent' = [agent EXCEPT !.turn = agent.turn + 1, !.talking = TRUE,
                                !.interrupted = FALSE, !.ended = FALSE,
                                !.seq = agent.seq + 1,
                                !.schedSeq = agent.schedSeq + FramesPerTurn + 2]
      /\ UNCHANGED <<callerSeq, obsTurn, log, queue, dropped, heard, air>>
  BY DEF Respond
<1>2. e.act = "maybeRespond" /\ e.at \in Nat /\ e.f.from \in Sources
  BY <1>1, Popped
<1>3. ~agent.talking /\ e.n = agent.speechGen
  BY <1>1, <1>2 DEF Stale, StaleResponse
<1>4. agent.turn + 1 \in Nat
  BY AgentTypes
<1>5. \A x \in TurnEvents(agent.turn + 1, e.at) : x \in Events /\ x.at >= e.at
  BY <1>2, <1>4, TurnEventFacts
<1>6. Fired(e, TurnEvents(agent.turn + 1, e.at))
  BY <1>1, <1>5, Pushed
<1>. QED
  BY <1>1, <1>2, <1>3, <1>6

(* One send of the agent: frame f goes on the air, and is dropped or       *)
(* scheduled for the caller.                                               *)
Arrival(o, f) == Event(o.at, f.seq, "recv", 0, f)
Sends(e, f, payloadLen) ==
  \E o \in Delay(queue, payloadLen, e.at) :
    /\ queue' = o.queue
    /\ \/ o.drop /\ dropped' = Append(dropped, f) /\ Fired(e, {})
       \/ ~o.drop /\ dropped' = dropped /\ Fired(e, {Arrival(o, f)})

LEMMA ArrivalFacts ==
  ASSUME TypeOK, NEW t \in Nat, NEW len \in Nat, NEW f \in Frames,
         NEW o \in Delay(queue, len, t), ~o.drop
  PROVE  LET x == Arrival(o, f) IN
         /\ x \in Events /\ x.at = o.at /\ x.at >= t /\ x.seq = f.seq
         /\ x.act = "recv" /\ x.n = 0 /\ x.f = f
<1>1. queue \in Queues
  BY DEF TypeOK
<1>2. o.at \in Nat /\ o.at >= t
  BY <1>1, DelayFacts
<1>3. f.seq \in Nat
  BY DEF Frames
<1>. QED
  BY <1>2, <1>3, EventFacts DEF Arrival

LEMMA SendStep ==
  ASSUME TypeOK, NEW e, NEW act, Pops(e, act), NEW f \in Frames, NEW len \in Nat,
         SendDown(e, f, len)
  PROVE  /\ e.act = act /\ e \in heap /\ e \in Events /\ now' = e.at
         /\ Sends(e, f, len) /\ queue' \in Queues /\ air' = Append(air, f)
         /\ UNCHANGED <<callerSeq, obsTurn, log, heard, answered>>
<1>1. now' = e.at /\ e.at \in Nat /\ e \in heap /\ e \in Events /\ e.act = act
  BY Popped
<1>2. /\ air' = Append(air, f)
      /\ UNCHANGED <<callerSeq, obsTurn, log, heard, answered>>
      /\ \E o \in Delay(queue, len, e.at) :
           /\ queue' = o.queue
           /\ IF o.drop
              THEN dropped' = Append(dropped, f) /\ Reschedule(e, {})
              ELSE dropped' = dropped /\ Reschedule(e, {Event(o.at, f.seq, "recv", 0, f)})
  BY <1>1 DEF SendDown
<1>3. PICK o \in Delay(queue, len, e.at) :
        /\ queue' = o.queue
        /\ IF o.drop
           THEN dropped' = Append(dropped, f) /\ Reschedule(e, {})
           ELSE dropped' = dropped /\ Reschedule(e, {Event(o.at, f.seq, "recv", 0, f)})
  BY <1>2
<1>4. queue' \in Queues
  BY <1>1, <1>3, DelayFacts, DropFacts DEF TypeOK
<1>5. CASE o.drop
  <2>1. Fired(e, {})
    BY <1>3, <1>5, Pushed
  <2>. QED
    BY <1>1, <1>2, <1>3, <1>4, <1>5, <2>1 DEF Sends
<1>6. CASE ~o.drop
  <2>1. Arrival(o, f) \in Events /\ Arrival(o, f).at >= e.at
    BY <1>1, <1>6, ArrivalFacts
  <2>2. Fired(e, {Arrival(o, f)})
    <3>1. Reschedule(e, {Arrival(o, f)})
      BY <1>3, <1>6 DEF Arrival
    <3>. QED
      BY <2>1, <3>1, Pushed
  <2>. QED
    BY <1>1, <1>2, <1>3, <1>4, <1>6, <2>2 DEF Sends
<1>. QED
  BY <1>5, <1>6

(* The frame that an event of the agent sends, and what it costs.          *)
SentBy(e) == IF e.act = "sendTurnStart" THEN e.f ELSE [e.f EXCEPT !.seq = agent.seq]
PayloadOf(e) == IF e.act = "emitAgentFrame" THEN FakeConfig.PayloadLen ELSE 0
SendActs == EmitActs \cup {"sendTurnStart"}
AgentSends(e) == SendTurnStart(e) \/ EmitAgentFrame(e) \/ EmitTurnEnd(e)

LEMMA SentByFacts ==
  ASSUME TypeOK, NEW e \in Events
  PROVE  /\ SentBy(e) \in Frames /\ SentBy(e).kind = e.f.kind
         /\ SentBy(e).turn = e.f.turn /\ SentBy(e).ts = e.f.ts
         /\ e.act = "sendTurnStart" => SentBy(e) = e.f
         /\ e.act # "sendTurnStart" => SentBy(e).seq = agent.seq
         /\ PayloadOf(e) \in Nat
<1>1. e.f \in Frames /\ agent.seq \in Nat
  BY AgentTypes DEF Events
<1>. QED
  BY <1>1, ConfigFacts DEF SentBy, PayloadOf, Frames

LEMMA AgentSendsStep ==
  ASSUME TypeOK, NEW e \in heap, AgentSends(e)
  PROVE  /\ e.act \in SendActs /\ ~Stale(e) /\ e \in Events /\ now' = e.at /\ e.at \in Nat
         /\ Sends(e, SentBy(e), PayloadOf(e)) /\ queue' \in Queues
         /\ air' = Append(air, SentBy(e))
         /\ agent' = [agent EXCEPT
                        !.seq = IF e.act = "sendTurnStart" THEN agent.seq ELSE agent.seq + 1,
                        !.ended = IF e.act = "emitTurnEnd" THEN TRUE ELSE agent.ended,
                        !.talking = IF e.act = "emitTurnEnd" THEN FALSE ELSE agent.talking]
         /\ UNCHANGED <<callerSeq, obsTurn, log, heard, answered>>
<1>1. e \in Events /\ SentBy(e) \in Frames /\ PayloadOf(e) \in Nat
  BY SentByFacts DEF TypeOK
<1>2. CASE SendTurnStart(e)
  <2>1. Pops(e, "sendTurnStart") /\ SendDown(e, e.f, 0) /\ agent' = agent
    BY <1>2 DEF SendTurnStart
  <2>2. e.act = "sendTurnStart" /\ e.at \in Nat
    BY <2>1, Popped
  <2>3. SentBy(e) = e.f /\ PayloadOf(e) = 0
    BY <2>2 DEF SentBy, PayloadOf
  <2>4. ~Stale(e)
    BY <2>2 DEF Stale
  <2>5. agent = [agent EXCEPT !.seq = agent.seq, !.ended = agent.ended, !.talking = agent.talking]
    BY DEF TypeOK
  <2>6. /\ Sends(e, SentBy(e), PayloadOf(e)) /\ queue' \in Queues /\ now' = e.at
        /\ air' = Append(air, SentBy(e)) /\ UNCHANGED <<callerSeq, obsTurn, log, heard, answered>>
    BY <1>1, <2>1, <2>3, SendStep
  <2>. QED
    BY <1>1, <2>1, <2>2, <2>4, <2>5, <2>6 DEF SendActs
<1>3. CASE EmitAgentFrame(e)
  <2>1. /\ Pops(e, "emitAgentFrame") /\ ~Stale(e) /\ agent' = [agent EXCEPT !.seq = agent.seq + 1]
        /\ SendDown(e, [e.f EXCEPT !.seq = agent.seq], FakeConfig.PayloadLen)
    BY <1>3 DEF EmitAgentFrame
  <2>2. e.act = "emitAgentFrame" /\ e.at \in Nat
    BY <2>1, Popped
  <2>3. SentBy(e) = [e.f EXCEPT !.seq = agent.seq] /\ PayloadOf(e) = FakeConfig.PayloadLen
    BY <2>2 DEF SentBy, PayloadOf
  <2>4. agent' = [agent EXCEPT !.seq = agent.seq + 1, !.ended = agent.ended,
                              !.talking = agent.talking]
    BY <2>1 DEF TypeOK
  <2>5. /\ Sends(e, SentBy(e), PayloadOf(e)) /\ queue' \in Queues /\ now' = e.at
        /\ air' = Append(air, SentBy(e)) /\ UNCHANGED <<callerSeq, obsTurn, log, heard, answered>>
    BY <1>1, <2>1, <2>3, SendStep
  <2>. QED
    BY <1>1, <2>1, <2>2, <2>4, <2>5 DEF SendActs, EmitActs
<1>4. CASE EmitTurnEnd(e)
  <2>1. /\ Pops(e, "emitTurnEnd") /\ ~Stale(e)
        /\ agent' = [agent EXCEPT !.seq = agent.seq + 1, !.ended = TRUE, !.talking = FALSE]
        /\ SendDown(e, [e.f EXCEPT !.seq = agent.seq], 0)
    BY <1>4 DEF EmitTurnEnd
  <2>2. e.act = "emitTurnEnd" /\ e.at \in Nat
    BY <2>1, Popped
  <2>3. SentBy(e) = [e.f EXCEPT !.seq = agent.seq] /\ PayloadOf(e) = 0
    BY <2>2 DEF SentBy, PayloadOf
  <2>4. /\ Sends(e, SentBy(e), PayloadOf(e)) /\ queue' \in Queues /\ now' = e.at
        /\ air' = Append(air, SentBy(e)) /\ UNCHANGED <<callerSeq, obsTurn, log, heard, answered>>
    BY <1>1, <2>1, <2>3, SendStep
  <2>. QED
    BY <1>1, <2>1, <2>2, <2>4 DEF SendActs, EmitActs
<1>. QED
  BY <1>2, <1>3, <1>4 DEF AgentSends

LEMMA AgentSendsFired ==
  ASSUME TypeOK, NEW e \in heap, AgentSends(e)
  PROVE  /\ \E new : /\ Fired(e, new)
                     /\ \A x \in new : /\ x.act = "recv" /\ x.n = 0 /\ x.f = SentBy(e)
                                       /\ x.seq = SentBy(e).seq
         /\ dropped' \in Seq(Frames)
<1>1. /\ e \in Events /\ e.at \in Nat /\ SentBy(e) \in Frames /\ PayloadOf(e) \in Nat
      /\ Sends(e, SentBy(e), PayloadOf(e))
  BY AgentSendsStep, SentByFacts
<1>2. PICK o \in Delay(queue, PayloadOf(e), e.at) :
        \/ o.drop /\ dropped' = Append(dropped, SentBy(e)) /\ Fired(e, {})
        \/ ~o.drop /\ dropped' = dropped /\ Fired(e, {Arrival(o, SentBy(e))})
  BY <1>1 DEF Sends
<1>3. dropped \in Seq(Frames)
  BY DEF TypeOK
<1>4. CASE o.drop
  <2>1. dropped' \in Seq(Frames)
    BY <1>1, <1>2, <1>3, <1>4, AppendProperties
  <2>. QED
    BY <1>2, <1>4, <2>1
<1>5. CASE ~o.drop
  <2> DEFINE x == Arrival(o, SentBy(e))
  <2>1. x.act = "recv" /\ x.n = 0 /\ x.f = SentBy(e) /\ x.seq = SentBy(e).seq
    BY <1>1, <1>5, ArrivalFacts
  <2>. HIDE DEF x
  <2>2. Fired(e, {x})
    BY <1>2, <1>5 DEF x
  <2>. QED
    BY <1>2, <1>3, <1>5, <2>1, <2>2
<1>. QED
  BY <1>4, <1>5

(* The case split of every proof below.                                    *)
LEMMA FiresCases ==
  ASSUME NEW e, Fires(e)
  PROVE  /\ agent.seq < MaxSeq
         /\ \/ Speak(e) \/ ReceiveTurnStart(e) \/ ReceiveOther(e)
            \/ HearBargeIn(e) \/ HearWhileTalking(e) \/ HearUtterance(e)
            \/ TimerIsStale(e) \/ Respond(e) \/ AgentSends(e)
BY DEF Fires, AgentSends

-----------------------------------------------------------------------------
(* Types.                                                                  *)

Agents == [seq : 0 .. MaxSeq, schedSeq : Nat, turn : Nat, talking : BOOLEAN,
           speechGen : Nat, stopAt : Nat, interrupted : BOOLEAN, ended : BOOLEAN]

LEMMA AgentStep ==
  ASSUME TypeOK, NEW e \in heap, Fires(e)
  PROVE  agent' \in Agents
<1>1. agent \in Agents /\ agent.seq < MaxSeq /\ agent.seq \in Nat
  BY FiresCases, AgentTypes DEF TypeOK, Agents
<1>2. agent.seq + 1 \in 0 .. MaxSeq
  BY <1>1 DEF MaxSeq
<1>3. CASE HearBargeIn(e)
  <2>1. e.at \in Nat
    BY HearBargeInStep, <1>3 DEF Fired, Events
  <2>2. e.at + FakeConfig.StopLatencyMs \in Nat /\ agent.schedSeq + 1 \in Nat
    BY <2>1, ConfigFacts, AgentTypes
  <2>. QED
    BY <1>1, <1>3, <2>2, HearBargeInStep DEF Agents
<1>4. CASE HearUtterance(e)
  <2>1. agent.speechGen + 1 \in Nat /\ agent.schedSeq + 1 \in Nat
    BY AgentTypes
  <2>. QED
    BY <1>1, <1>4, <2>1, HearUtteranceStep DEF Agents
<1>5. CASE Respond(e)
  <2>1. agent.turn + 1 \in Nat /\ agent.schedSeq + FramesPerTurn + 2 \in Nat
    BY AgentTypes, ConfigFacts
  <2>. QED
    BY <1>1, <1>2, <1>5, <2>1, RespondStep DEF Agents
<1>6. CASE AgentSends(e)
  <2> DEFINE s == IF e.act = "sendTurnStart" THEN agent.seq ELSE agent.seq + 1
             d == IF e.act = "emitTurnEnd" THEN TRUE ELSE agent.ended
             t == IF e.act = "emitTurnEnd" THEN FALSE ELSE agent.talking
  <2>1. s \in 0 .. MaxSeq /\ d \in BOOLEAN /\ t \in BOOLEAN
    BY <1>1, <1>2 DEF Agents
  <2>2. agent' = [agent EXCEPT !.seq = s, !.ended = d, !.talking = t]
    BY <1>6, AgentSendsStep
  <2>. HIDE DEF s, d, t
  <2>. QED
    BY <1>1, <2>1, <2>2 DEF Agents
<1>7. CASE \/ Speak(e) \/ ReceiveTurnStart(e) \/ ReceiveOther(e)
           \/ HearWhileTalking(e) \/ TimerIsStale(e)
  BY <1>1, <1>7, SpeakStep, ReceiveTurnStartStep, ReceiveOtherStep, HearWhileTalkingStep,
     TimerIsStaleStep
<1>. QED
  BY <1>3, <1>4, <1>5, <1>6, <1>7, FiresCases

LEMMA CallerBandBound ==
  ASSUME NEW c, NEW t \in Nat,
         c = PromptSeq[Len(Turns)] + BargeSeq[IF t < Len(Turns) THEN t ELSE Len(Turns)]
  PROVE  c \in 0 .. MaxSeq - 1
<1> DEFINE k == IF t < Len(Turns) THEN t ELSE Len(Turns)
<1>1. Len(Turns) \in Nat
  BY ScriptAssumption, LenProperties
<1>2. k \in 0 .. Len(Turns) /\ Len(Turns) \in 0 .. Len(Turns)
  BY <1>1
<1>3. c = PromptSeq[Len(Turns)] + BargeSeq[k]
  OBVIOUS
<1>. HIDE DEF k
<1>4. /\ PromptSeq[Len(Turns)] \in Nat /\ BargeSeq[k] \in Nat
      /\ BargeSeq[Len(Turns)] \in Nat /\ BargeSeq[k] <= BargeSeq[Len(Turns)]
  BY <1>2, PromptFacts, BargeFacts
<1>5. PromptSeq[Len(Turns)] + BargeSeq[Len(Turns)] < 1000
  BY BandAssumption DEF MaxSeq
<1>6. c \in Nat /\ c < 1000
  BY <1>3, <1>4, <1>5
<1>7. ASSUME NEW x \in Nat, x < 1000 PROVE x \in 0 .. MaxSeq - 1
  BY <1>7 DEF MaxSeq
<1>. QED
  BY <1>6, <1>7

LEMMA CallerBandStep ==
  ASSUME TypeOK, CallerBand, NEW e \in heap, Fires(e)
  PROVE  CallerBand' /\ obsTurn' \in Nat
<1>1. obsTurn \in Nat /\ Len(Turns) \in Nat
  BY CallerTypes, ScriptAssumption, LenProperties
<1>2. CASE ReceiveTurnStart(e)
  <2>1. obsTurn' = obsTurn + 1 /\ \E new : BargesIn(e, new)
    BY <1>2, ReceiveTurnStartStep
  <2>2. CASE obsTurn + 1 <= Len(Turns)
    <3> DEFINE k == obsTurn + 1
    <3>1. /\ k \in 1 .. Len(Turns) /\ k - 1 = obsTurn
          /\ (IF obsTurn < Len(Turns) THEN obsTurn ELSE Len(Turns)) = k - 1
          /\ (IF obsTurn + 1 < Len(Turns) THEN obsTurn + 1 ELSE Len(Turns)) = k
      BY <1>1, <2>2
    <3>2. callerSeq' = callerSeq + (IF Turns[k].BargeIn = NoBargeIn THEN 0
                                    ELSE BurstLen(Turns[k].BargeIn.DurMs))
      <4>1. callerSeq' = IF Turns[k].BargeIn # NoBargeIn
                         THEN callerSeq + BurstLen(Turns[k].BargeIn.DurMs) ELSE callerSeq
        BY <2>1, <2>2 DEF BargesIn
      <4>2. callerSeq \in Nat
        BY CallerTypes
      <4>. QED
        BY <4>1, <4>2
    <3>3. callerSeq = PromptSeq[Len(Turns)] + BargeSeq[k - 1]
      BY <3>1 DEF CallerBand
    <3>4. BargeSeq[k] = BargeSeq[k - 1] + (IF Turns[k].BargeIn = NoBargeIn THEN 0
                                           ELSE BurstLen(Turns[k].BargeIn.DurMs))
      BY <3>1, BargeFacts
    <3>5. PromptSeq[Len(Turns)] \in Nat /\ BargeSeq[k - 1] \in Nat /\ BargeSeq[k] \in Nat
      <4>1. k - 1 \in 0 .. Len(Turns) /\ k \in 0 .. Len(Turns)
        BY <3>1, <1>1
      <4>. QED
        BY <4>1, PromptFacts, BargeFacts
    <3> DEFINE own == IF Turns[k].BargeIn = NoBargeIn THEN 0
                      ELSE BurstLen(Turns[k].BargeIn.DurMs)
    <3>6. own \in Nat
      BY <3>1, TurnFacts, BurstLenFacts
    <3>7. callerSeq' = callerSeq + own /\ BargeSeq[k] = BargeSeq[k - 1] + own
      BY <3>2, <3>4
    <3>. HIDE DEF own, k
    <3>8. callerSeq' = PromptSeq[Len(Turns)] + BargeSeq[k]
      BY <3>3, <3>5, <3>6, <3>7
    <3>. QED
      BY <2>1, <3>1, <3>8, <1>1 DEF CallerBand
  <2>3. CASE ~(obsTurn + 1 <= Len(Turns))
    <3>1. callerSeq' = callerSeq
      BY <2>1, <2>3 DEF BargesIn
    <3>2. /\ (IF obsTurn < Len(Turns) THEN obsTurn ELSE Len(Turns)) = Len(Turns)
          /\ (IF obsTurn' < Len(Turns) THEN obsTurn' ELSE Len(Turns)) = Len(Turns)
      BY <1>1, <2>1, <2>3
    <3>. QED
      BY <1>1, <2>1, <3>1, <3>2 DEF CallerBand
  <2>. QED
    BY <2>2, <2>3
<1>3. CASE ~ReceiveTurnStart(e)
  <2>1. callerSeq' = callerSeq /\ obsTurn' = obsTurn
    BY <1>3, FiresCases, SpeakStep, ReceiveOtherStep, HearBargeInStep, HearWhileTalkingStep,
       HearUtteranceStep, TimerIsStaleStep, RespondStep, AgentSendsStep
  <2>. QED
    BY <1>1, <2>1 DEF CallerBand
<1>. QED
  BY <1>2, <1>3

TypeInv == TypeOK /\ CallerBand

LEMMA TypeStep == TypeInv /\ [Next]_vars => TypeInv'
<1> SUFFICES ASSUME TypeOK, CallerBand, [Next]_vars PROVE TypeInv'
  BY DEF TypeInv
<1>1. ASSUME NEW e \in heap, Fires(e) PROVE TypeInv'
  <2>1. CallerBand' /\ obsTurn' \in Nat
    BY <1>1, CallerBandStep
  <2>2. callerSeq' \in 0 .. MaxSeq - 1
    <3>1. callerSeq' = PromptSeq[Len(Turns)]
                         + BargeSeq[IF obsTurn' < Len(Turns) THEN obsTurn' ELSE Len(Turns)]
      BY <2>1 DEF CallerBand
    <3>. QED
      BY <2>1, <3>1, CallerBandBound
  <2>3. agent' \in Agents
    BY <1>1, AgentStep
  <2>4. now' \in Nat /\ heap' \subseteq Events /\ \A x \in heap' : x.at >= now'
    <3>1. \E new : Fired(e, new)
      BY <1>1, FiresCases, SpeakStep, ReceiveTurnStartStep, ReceiveOtherStep, HearBargeInStep,
         HearWhileTalkingStep, HearUtteranceStep, TimerIsStaleStep, RespondStep, AgentSendsFired
    <3>. QED
      BY <3>1, FiredTypes
  <2>5. log' \in Seq(Entries)
    <3>1. log \in Seq(Entries)
      BY DEF TypeOK
    <3>2. CASE Speak(e)
      BY <3>2, SpeakLog
    <3>3. CASE ReceiveTurnStart(e)
      BY <3>1, <3>3, ReceiveTurnStartStep, AppendProperties
    <3>4. CASE ReceiveOther(e)
      BY <3>1, <3>4, ReceiveOtherStep, AppendProperties
    <3>5. CASE ~Speak(e) /\ ~ReceiveTurnStart(e) /\ ~ReceiveOther(e)
      <4>1. log' = log
        BY <1>1, <3>5, FiresCases, HearBargeInStep, HearWhileTalkingStep, HearUtteranceStep,
           TimerIsStaleStep, RespondStep, AgentSendsStep
      <4>. QED
        BY <3>1, <4>1
    <3>. QED
      BY <3>2, <3>3, <3>4, <3>5
  <2>6. heard' \in Seq(Hearings)
    <3>1. heard \in Seq(Hearings)
      BY DEF TypeOK
    <3>2. CASE HearBargeIn(e)
      <4>1. Hearing(e, "barge_in") \in Hearings /\ heard' = Append(heard, Hearing(e, "barge_in"))
        BY <3>2, HearBargeInStep
      <4>. QED
        BY <3>1, <4>1, AppendProperties
    <3>3. CASE HearWhileTalking(e)
      <4>1. Hearing(e, "ignored") \in Hearings /\ heard' = Append(heard, Hearing(e, "ignored"))
        BY <3>3, HearWhileTalkingStep
      <4>. QED
        BY <3>1, <4>1, AppendProperties
    <3>4. CASE HearUtterance(e)
      <4>1. Hearing(e, "utterance") \in Hearings /\ heard' = Append(heard, Hearing(e, "utterance"))
        BY <3>4, HearUtteranceStep
      <4>. QED
        BY <3>1, <4>1, AppendProperties
    <3>5. CASE ~HearBargeIn(e) /\ ~HearWhileTalking(e) /\ ~HearUtterance(e)
      <4>1. heard' = heard
        BY <1>1, <3>5, FiresCases, SpeakStep, ReceiveTurnStartStep, ReceiveOtherStep,
           TimerIsStaleStep, RespondStep, AgentSendsStep
      <4>. QED
        BY <3>1, <4>1
    <3>. QED
      BY <3>2, <3>3, <3>4, <3>5
  <2>7. answered' \in Seq(Sources)
    <3>1. answered \in Seq(Sources)
      BY DEF TypeOK
    <3>2. CASE Respond(e)
      BY <3>1, <3>2, RespondStep, AppendProperties
    <3>3. CASE ~Respond(e)
      <4>1. answered' = answered
        BY <1>1, <3>3, FiresCases, SpeakStep, ReceiveTurnStartStep, ReceiveOtherStep,
           HearBargeInStep, HearWhileTalkingStep, HearUtteranceStep, TimerIsStaleStep, AgentSendsStep
      <4>. QED
        BY <3>1, <4>1
    <3>. QED
      BY <3>2, <3>3
  <2>8. queue' \in Queues /\ dropped' \in Seq(Frames) /\ air' \in Seq(Frames)
    <3>1. queue \in Queues /\ dropped \in Seq(Frames) /\ air \in Seq(Frames)
      BY DEF TypeOK
    <3>2. CASE AgentSends(e)
      <4>1. e \in Events
        BY <3>2, AgentSendsStep
      <4>2. SentBy(e) \in Frames
        BY <4>1, SentByFacts
      <4>3. queue' \in Queues /\ air' = Append(air, SentBy(e))
        BY <3>2, AgentSendsStep
      <4>4. dropped' \in Seq(Frames)
        BY <3>2, AgentSendsFired
      <4>5. air' \in Seq(Frames)
        BY <3>1, <4>2, <4>3, AppendProperties
      <4>. QED
        BY <4>3, <4>4, <4>5
    <3>3. CASE ~AgentSends(e)
      <4>1. queue' = queue /\ dropped' = dropped /\ air' = air
        BY <1>1, <3>3, FiresCases, SpeakStep, ReceiveTurnStartStep, ReceiveOtherStep,
           HearBargeInStep, HearWhileTalkingStep, HearUtteranceStep, TimerIsStaleStep, RespondStep
      <4>. QED
        BY <3>1, <4>1
    <3>. QED
      BY <3>2, <3>3
  <2>. QED
    BY <2>1, <2>2, <2>3, <2>4, <2>5, <2>6, <2>7, <2>8 DEF TypeInv, TypeOK, Agents
<1>2. CASE UNCHANGED vars
  BY <1>2 DEF vars, TypeInv, TypeOK, CallerBand
<1>. QED
  BY <1>1, <1>2 DEF Next, Quiescent

LEMMA PrimedFacts ==
  ASSUME NEW x \in Primed
  PROVE  \E k \in 1 .. Len(Turns) :
           /\ x \in Burst(PromptSeq[k - 1], Turns[k].AtMs, Turns[k].DurMs, <<"prompt", k>>)
           /\ <<"prompt", k>> \in Sources
           /\ PromptSeq[k - 1] \in Nat /\ Turns[k].AtMs \in Nat /\ Turns[k].DurMs \in Nat
           /\ PromptSeq[k - 1] + BurstLen(Turns[k].DurMs) <= PromptSeq[Len(Turns)]
<1>1. DOMAIN Turns = 1 .. Len(Turns) /\ Len(Turns) \in Nat
  BY ScriptAssumption, LenProperties
<1>2. PICK k \in 1 .. Len(Turns) :
        x \in Burst(PromptSeq[k - 1], Turns[k].AtMs, Turns[k].DurMs, <<"prompt", k>>)
  BY <1>1 DEF Primed
<1>3. <<"prompt", k>> \in Sources
  BY <1>1 DEF Sources
<1>. QED
  BY <1>2, <1>3, PromptFacts, TurnFacts

LEMMA TypeInit == Init => TypeInv
<1> SUFFICES ASSUME Init PROVE TypeInv
  OBVIOUS
<1>1. \A x \in heap : x \in Events /\ x.at >= 0
  <2>1. ASSUME NEW x \in Primed PROVE x \in Events
    BY PrimedFacts, BurstFacts
  <2>2. \A x \in Events : x.at >= 0
    BY DEF Events
  <2>. QED
    BY <2>1, <2>2 DEF Init
<1>2. CallerBand
  <2>1. Len(Turns) \in Nat /\ Len(Turns) > 0 /\ obsTurn = 0
    BY ScriptAssumption, LenProperties DEF Init
  <2>2. PromptSeq[Len(Turns)] + BargeSeq[0] = PromptSeq[Len(Turns)]
    BY PromptFacts, BargeFacts
  <2>3. callerSeq = PromptSeq[Len(Turns)]
    BY DEF Init
  <2>. QED
    BY <2>1, <2>2, <2>3 DEF CallerBand
<1>3. callerSeq \in 0 .. MaxSeq - 1
  <2>1. obsTurn \in Nat
    BY DEF Init
  <2>. QED
    BY <1>2, <2>1, CallerBandBound DEF CallerBand
<1>4. agent \in Agents
  BY DEF Init, Agents, MaxSeq
<1>5. queue \in Queues
  BY DEF Init, NewQueue, Queues
<1>6. /\ log \in Seq(Entries) /\ heard \in Seq(Hearings) /\ answered \in Seq(Sources)
      /\ dropped \in Seq(Frames) /\ air \in Seq(Frames)
  BY EmptySeq DEF Init
<1>. QED
  BY <1>1, <1>2, <1>3, <1>4, <1>5, <1>6 DEF TypeInv, TypeOK, Agents, Init

LEMMA TypeInvariant == Spec => []TypeInv
<1>. QED
  BY TypeInit, TypeStep, PTL DEF Spec

(* Types, a heap with nothing due in the past, and every frame numbered    *)
(* below the timers' band: the caller's because its numbering is two       *)
(* running sums over the script.                                           *)
THEOREM TypeCorrect == Spec => []TypeOK
<1>1. TypeInv => TypeOK
  BY DEF TypeInv
<1>. QED
  BY <1>1, TypeInvariant, PTL

-----------------------------------------------------------------------------
(* What becomes of the agent and of the counters.                          *)

LEMMA HearBargeInAgent ==
  ASSUME TypeOK, NEW e \in heap, HearBargeIn(e)
  PROVE  /\ agent'.turn = agent.turn /\ agent'.talking = agent.talking /\ agent'.seq = agent.seq
         /\ agent'.ended = agent.ended /\ agent'.speechGen = agent.speechGen
         /\ agent'.interrupted = TRUE /\ agent'.stopAt = e.at + FakeConfig.StopLatencyMs
<1>1. agent \in Agents
  BY DEF TypeOK, Agents
<1>. QED
  BY <1>1, HearBargeInStep DEF Agents

LEMMA HearUtteranceAgent ==
  ASSUME TypeOK, NEW e \in heap, HearUtterance(e)
  PROVE  /\ agent'.turn = agent.turn /\ agent'.talking = agent.talking /\ agent'.seq = agent.seq
         /\ agent'.ended = agent.ended /\ agent'.speechGen = agent.speechGen + 1
         /\ agent'.interrupted = agent.interrupted /\ agent'.stopAt = agent.stopAt
<1>1. agent \in Agents
  BY DEF TypeOK, Agents
<1>. QED
  BY <1>1, HearUtteranceStep DEF Agents

LEMMA RespondAgent ==
  ASSUME TypeOK, NEW e \in heap, Respond(e)
  PROVE  /\ agent'.turn = agent.turn + 1 /\ agent'.talking = TRUE
         /\ agent'.seq = agent.seq + 1
         /\ agent'.ended = FALSE /\ agent'.speechGen = agent.speechGen
         /\ agent'.interrupted = FALSE /\ agent'.stopAt = agent.stopAt
<1>1. agent \in Agents
  BY DEF TypeOK, Agents
<1>. QED
  BY <1>1, RespondStep DEF Agents

LEMMA AgentSendsAgent ==
  ASSUME TypeOK, NEW e \in heap, AgentSends(e)
  PROVE  /\ agent'.turn = agent.turn /\ agent'.speechGen = agent.speechGen
         /\ agent'.interrupted = agent.interrupted /\ agent'.stopAt = agent.stopAt
         /\ agent'.seq = IF e.act = "sendTurnStart" THEN agent.seq ELSE agent.seq + 1
         /\ agent'.ended = IF e.act = "emitTurnEnd" THEN TRUE ELSE agent.ended
         /\ agent'.talking = IF e.act = "emitTurnEnd" THEN FALSE ELSE agent.talking
<1>1. agent \in Agents
  BY DEF TypeOK, Agents
<1>. QED
  BY <1>1, AgentSendsStep DEF Agents

LEMMA Grows ==
  ASSUME TypeOK, NEW e \in heap, Fires(e)
  PROVE  /\ callerSeq \in Nat /\ callerSeq' \in Nat /\ callerSeq <= callerSeq'
         /\ agent.speechGen \in Nat /\ agent'.speechGen \in Nat
         /\ agent.speechGen <= agent'.speechGen
         /\ agent.turn \in Nat /\ agent'.turn \in Nat /\ agent.turn <= agent'.turn
<1>1. callerSeq \in Nat /\ callerSeq' \in Nat /\ callerSeq <= callerSeq'
  <2>1. callerSeq \in Nat /\ obsTurn \in Nat
    BY CallerTypes
  <2>2. CASE ReceiveTurnStart(e)
    <3>1. \E new : BargesIn(e, new)
      BY <2>2, ReceiveTurnStartStep
    <3>2. CASE obsTurn + 1 <= Len(Turns) /\ Turns[obsTurn + 1].BargeIn # NoBargeIn
      <4>1. obsTurn + 1 \in 1 .. Len(Turns)
        BY <2>1, <3>2, ScriptAssumption, LenProperties
      <4>2. BurstLen(Turns[obsTurn + 1].BargeIn.DurMs) \in Nat
        BY <3>2, <4>1, TurnFacts, BurstLenFacts
      <4>3. callerSeq' = callerSeq + BurstLen(Turns[obsTurn + 1].BargeIn.DurMs)
        BY <3>1, <3>2 DEF BargesIn
      <4>. QED
        BY <2>1, <4>2, <4>3
    <3>3. CASE ~(obsTurn + 1 <= Len(Turns) /\ Turns[obsTurn + 1].BargeIn # NoBargeIn)
      <4>1. callerSeq' = callerSeq
        BY <3>1, <3>3 DEF BargesIn
      <4>. QED
        BY <2>1, <4>1
    <3>. QED
      BY <3>2, <3>3
  <2>3. CASE ~ReceiveTurnStart(e)
    <3>1. callerSeq' = callerSeq
      BY <2>3, FiresCases, SpeakStep, ReceiveOtherStep, HearBargeInStep, HearWhileTalkingStep,
         HearUtteranceStep, TimerIsStaleStep, RespondStep, AgentSendsStep
    <3>. QED
      BY <2>1, <3>1
  <2>. QED
    BY <2>2, <2>3
<1>2. agent.speechGen \in Nat /\ agent.turn \in Nat
  BY AgentTypes
<1>3. agent'.speechGen \in {agent.speechGen, agent.speechGen + 1}
      /\ agent'.turn \in {agent.turn, agent.turn + 1}
  BY FiresCases, SpeakStep, ReceiveTurnStartStep, ReceiveOtherStep, HearBargeInAgent,
     HearWhileTalkingStep, HearUtteranceAgent, TimerIsStaleStep, RespondAgent, AgentSendsAgent
<1>. QED
  BY <1>1, <1>2, <1>3

-----------------------------------------------------------------------------
(* Every callback fits what it calls.                                      *)

LEMMA FitsGrows ==
  ASSUME NEW x \in Events, NEW c \in Nat, NEW g \in Nat, NEW t \in Nat,
         NEW c2 \in Nat, NEW g2 \in Nat, NEW t2 \in Nat, c <= c2, g <= g2, t <= t2,
         Fits(x, c, g, t)
  PROVE  Fits(x, c2, g2, t2)
<1>1. x.seq \in Nat /\ x.n \in Nat
  BY DEF Events
<1>2. /\ x.seq < c => x.seq < c2
      /\ x.n <= g => x.n <= g2
      /\ x.n \in 1 .. t => x.n \in 1 .. t2
  BY <1>1
<1>. QED
  BY <1>2 DEF Fits

LEMMA SpeechFits ==
  ASSUME NEW x \in Events, NEW c, NEW g, NEW t, x.act \in CallerActs,
         x.f.kind = "speech", x.f.from[1] # "agent", x.f.seq = x.seq, x.seq < c, x.f.ts = x.at
  PROVE  Fits(x, c, g, t)
BY DEF Fits, CallerActs, EmitActs

LEMMA RecvFits ==
  ASSUME NEW x, NEW c, NEW g, NEW t, x.act = "recv", x.f.kind # "speech", x.f.seq = x.seq
  PROVE  Fits(x, c, g, t)
BY DEF Fits, CallerActs, EmitActs

LEMMA ResponseFits ==
  ASSUME NEW x, NEW c, NEW g, NEW t, x.act = "maybeRespond", x.seq >= MaxSeq,
         x.f.from[1] # "agent", x.n <= g, x.at = x.f.ts + EndpointMs
  PROVE  Fits(x, c, g, t)
BY DEF Fits, CallerActs, EmitActs

LEMMA TurnTimerFits ==
  ASSUME NEW x, NEW c, NEW g, NEW t,
         \/ x.act = "sendTurnStart" /\ x.f.kind = "turn_start"
         \/ x.act = "emitAgentFrame" /\ x.f.kind = "agent"
         \/ x.act = "emitTurnEnd" /\ x.f.kind = "turn_end",
         x.seq >= MaxSeq, x.n \in 1 .. t, x.f.turn = x.n, x.f.ts = x.at
  PROVE  Fits(x, c, g, t)
BY DEF Fits, CallerActs, EmitActs

LEMMA FitsStep ==
  ASSUME TypeOK, HeapFits, NEW e \in heap, Fires(e)
  PROVE  HeapFits'
<1> DEFINE Fit(x) == Fits(x, callerSeq', agent'.speechGen, agent'.turn)
<1>1. /\ callerSeq \in Nat /\ callerSeq' \in Nat /\ callerSeq <= callerSeq'
      /\ agent.speechGen \in Nat /\ agent'.speechGen \in Nat
      /\ agent.speechGen <= agent'.speechGen
      /\ agent.turn \in Nat /\ agent'.turn \in Nat /\ agent.turn <= agent'.turn
  BY Grows
<1>2. e \in Events /\ Fits(e, callerSeq, agent.speechGen, agent.turn)
  BY DEF HeapFits, TypeOK
<1>3. ASSUME NEW x \in heap PROVE Fit(x)
  <2>1. x \in Events /\ Fits(x, callerSeq, agent.speechGen, agent.turn)
    BY DEF HeapFits, TypeOK
  <2>. QED
    BY <1>1, <2>1, FitsGrows
<1>4. \E new : Fired(e, new) /\ \A x \in new : Fit(x)
  <2>1. CASE Speak(e)
    <3> DEFINE x == Event(e.at, e.f.seq, "hear", 0, e.f)
    <3>1. /\ e.act = "speak" /\ Fired(e, {x})
          /\ x.at = e.at /\ x.seq = e.f.seq /\ x.act = "hear" /\ x.f = e.f
          /\ callerSeq' = callerSeq
      BY <2>1, SpeakStep
    <3>. HIDE DEF x
    <3>2. /\ e.f.kind = "speech" /\ e.f.from[1] # "agent" /\ e.f.seq = e.seq
          /\ e.seq < callerSeq /\ e.f.ts = e.at
      BY <1>2, <3>1 DEF Fits, CallerActs
    <3>3. x \in Events /\ x.act \in CallerActs
      BY <3>1 DEF Fired, CallerActs
    <3>4. Fit(x)
      BY <3>1, <3>2, <3>3, SpeechFits
    <3>. QED
      BY <3>1, <3>4
  <2>2. CASE ReceiveTurnStart(e)
    <3>1. PICK new : Fired(e, new) /\ BargesIn(e, new)
      BY <2>2, ReceiveTurnStartStep
    <3>2. ASSUME NEW x \in new PROVE Fit(x)
      <4> DEFINE turn == obsTurn + 1
                 bi == Turns[turn].BargeIn
      <4>1. turn <= Len(Turns) /\ bi # NoBargeIn
        BY <3>1 DEF BargesIn
      <4>2. /\ x \in Burst(callerSeq, e.at + bi.IntoMs, bi.DurMs, <<"barge", turn>>)
            /\ callerSeq' = callerSeq + BurstLen(bi.DurMs)
        BY <3>1, <4>1 DEF BargesIn
      <4>3. turn \in 1 .. Len(Turns) /\ turn \in Nat
        BY <4>1, CallerTypes, ScriptAssumption, LenProperties
      <4>4. bi.IntoMs \in Nat /\ bi.DurMs \in Nat
        BY <4>1, <4>3, TurnFacts
      <4>5. e.at + bi.IntoMs \in Nat /\ <<"barge", turn>> \in Sources
        BY <1>2, <4>3, <4>4 DEF Events, Sources
      <4>6. BurstLen(bi.DurMs) \in Nat
        BY <4>4, BurstLenFacts
      <4>7. /\ x \in Events /\ x.act = "speak" /\ x.n < BurstLen(bi.DurMs)
            /\ x.seq = callerSeq + x.n /\ x.f.kind = "speech" /\ x.f.seq = x.seq
            /\ x.f.ts = x.at /\ x.f.from = <<"barge", turn>>
        <5>1. callerSeq \in Nat
          BY <1>1
        <5>. HIDE DEF turn, bi, Fit
        <5>. QED
          BY <5>1, <4>2, <4>4, <4>5, BurstFacts
      <4>8. x.n \in Nat
        BY <4>7 DEF Events
      <4>9. x.seq < callerSeq'
        BY <1>1, <4>2, <4>6, <4>7, <4>8
      <4>10. x.f.from[1] # "agent" /\ x.act \in CallerActs
        BY <4>7 DEF CallerActs
      <4>. QED
        BY <4>7, <4>9, <4>10, SpeechFits
    <3>. QED
      BY <3>1, <3>2
  <2>3. CASE HearBargeIn(e)
    <3> DEFINE x == EarlyEnd(e)
    <3>1. /\ Fired(e, {x}) /\ agent.talking /\ x.seq = TimerSeq(0)
          /\ x.act = "emitTurnEnd" /\ x.n = agent.turn
          /\ x.f.kind = "turn_end" /\ x.f.turn = agent.turn /\ x.f.ts = x.at
      BY <2>3, HearBargeInStep
    <3>. HIDE DEF x
    <3>2. TimerSeq(0) >= MaxSeq
      BY TimerSeqFacts
    <3>3. agent'.turn = agent.turn /\ agent.turn > 0
      BY <2>3, <3>1, HearBargeInAgent DEF HeapFits
    <3>4. x.n \in 1 .. agent'.turn
      BY <1>1, <3>1, <3>3
    <3>5. Fit(x)
      BY <3>1, <3>2, <3>4, TurnTimerFits
    <3>. QED
      BY <3>1, <3>5
  <2>4. CASE HearUtterance(e)
    <3> DEFINE x == Armed(e)
    <3>1. /\ e.act = "hear" /\ Fired(e, {x}) /\ x.at = e.at + EndpointMs
          /\ x.seq = TimerSeq(0) /\ x.act = "maybeRespond"
          /\ x.n = agent.speechGen + 1 /\ x.f = e.f
      BY <2>4, HearUtteranceStep
    <3>. HIDE DEF x
    <3>2. e.f.from[1] # "agent" /\ e.f.ts = e.at
      BY <1>2, <3>1 DEF Fits, CallerActs
    <3>3. TimerSeq(0) >= MaxSeq
      BY TimerSeqFacts
    <3>4. x.n <= agent'.speechGen
      BY <1>1, <2>4, <3>1, HearUtteranceAgent
    <3>5. Fit(x)
      BY <3>1, <3>2, <3>3, <3>4, ResponseFits
    <3>. QED
      BY <3>1, <3>5
  <2>5. CASE Respond(e)
    <3> DEFINE new == TurnEvents(agent.turn + 1, e.at)
    <3>1. Fired(e, new) /\ e.at \in Nat /\ agent'.turn = agent.turn + 1
      BY <2>5, RespondStep, RespondAgent
    <3>2. ASSUME NEW x \in new PROVE Fit(x)
      <4>1. agent.turn + 1 \in Nat /\ TimerSeq(0) \in Nat /\ TimerSeq(0) >= MaxSeq
        BY <1>1, TimerSeqFacts
      <4>2. /\ x \in Events /\ x.n = agent.turn + 1 /\ x.f.turn = x.n /\ x.f.ts = x.at
            /\ \/ x.act = "sendTurnStart" /\ x.f.kind = "turn_start"
               \/ x.act = "emitAgentFrame" /\ x.f.kind = "agent"
               \/ x.act = "emitTurnEnd" /\ x.f.kind = "turn_end"
            /\ x.seq = TimerSeq(0) \/ x.seq > TimerSeq(0)
        BY <3>1, <4>1, TurnEventFacts
      <4>3. x.seq >= MaxSeq
        BY <4>1, <4>2 DEF Events, MaxSeq
      <4>4. x.n \in 1 .. agent'.turn
        BY <1>1, <3>1, <4>2
      <4>. QED
        BY <4>2, <4>3, <4>4, TurnTimerFits
    <3>. QED
      BY <3>1, <3>2
  <2>6. CASE AgentSends(e)
    <3>1. PICK new : /\ Fired(e, new)
                     /\ \A x \in new : /\ x.act = "recv" /\ x.f = SentBy(e)
                                       /\ x.seq = SentBy(e).seq
      BY <2>6, AgentSendsFired
    <3>2. e.act \in SendActs /\ SentBy(e).kind = e.f.kind
      BY <1>2, <2>6, AgentSendsStep, SentByFacts
    <3>3. e.f.kind # "speech"
      BY <1>2, <3>2 DEF Fits, SendActs, EmitActs
    <3>4. ASSUME NEW x \in new PROVE Fit(x)
      BY <3>1, <3>2, <3>3, RecvFits
    <3>. QED
      BY <3>1, <3>4
  <2>7. CASE ReceiveOther(e) \/ HearWhileTalking(e) \/ TimerIsStale(e)
    <3>1. Fired(e, {})
      BY <2>7, ReceiveOtherStep, HearWhileTalkingStep, TimerIsStaleStep
    <3>. QED
      BY <3>1
  <2>. QED
    BY <2>1, <2>2, <2>3, <2>4, <2>5, <2>6, <2>7, FiresCases
<1>5. \A x \in heap' : Fit(x)
  BY <1>3, <1>4 DEF Fired
<1>6. agent'.talking => agent'.turn > 0
  <2>1. agent'.talking => agent.talking \/ agent'.turn = agent.turn + 1
    BY FiresCases, SpeakStep, ReceiveTurnStartStep, ReceiveOtherStep, HearBargeInAgent,
       HearWhileTalkingStep, HearUtteranceAgent, TimerIsStaleStep, RespondAgent, AgentSendsAgent
  <2>2. agent.talking => agent.turn > 0
    BY DEF HeapFits
  <2>. QED
    BY <1>1, <2>1, <2>2
<1>. QED
  BY <1>5, <1>6 DEF HeapFits

-----------------------------------------------------------------------------
(* The turns.                                                              *)

LEMMA Brackets ==
  ASSUME air \in Seq(Frames), Bracketed, NEW f \in Frames, air' = Append(air, f),
         IF air = << >> \/ f.kind = "turn_start"
         THEN /\ f.kind = "turn_start"
              /\ f.turn = (IF air = << >> THEN 1 ELSE air[Len(air)].turn + 1)
              /\ air # << >> => air[Len(air)].kind = "turn_end"
         ELSE f.turn = air[Len(air)].turn /\ air[Len(air)].kind # "turn_end"
  PROVE  Bracketed'
<1>1. /\ Len(air) \in Nat /\ DOMAIN air = 1 .. Len(air) /\ DOMAIN air' = 1 .. Len(air) + 1
      /\ \A i \in 1 .. Len(air) : air'[i] = air[i]
      /\ air'[Len(air) + 1] = f
  BY Appended
<1>2. air = << >> <=> Len(air) = 0
  BY EmptySeq
<1>3. ASSUME NEW i \in 1 .. Len(air)
      PROVE  IF i = 1 \/ air'[i].kind = "turn_start"
             THEN /\ air'[i].kind = "turn_start"
                  /\ air'[i].turn = (IF i = 1 THEN 1 ELSE air'[i - 1].turn + 1)
                  /\ i > 1 => air'[i - 1].kind = "turn_end"
             ELSE air'[i].turn = air'[i - 1].turn /\ air'[i - 1].kind # "turn_end"
  <2>1. air'[i] = air[i] /\ (i # 1 => air'[i - 1] = air[i - 1]) /\ (i > 1 => i # 1)
    BY <1>1
  <2>2. IF i = 1 \/ air[i].kind = "turn_start"
        THEN /\ air[i].kind = "turn_start"
             /\ air[i].turn = (IF i = 1 THEN 1 ELSE air[i - 1].turn + 1)
             /\ i > 1 => air[i - 1].kind = "turn_end"
        ELSE air[i].turn = air[i - 1].turn /\ air[i - 1].kind # "turn_end"
    BY <1>1 DEF Bracketed
  <2>. QED
    BY <2>1, <2>2
<1> DEFINE l == Len(air) + 1
<1>4. IF l = 1 \/ air'[l].kind = "turn_start"
      THEN /\ air'[l].kind = "turn_start"
           /\ air'[l].turn = (IF l = 1 THEN 1 ELSE air'[l - 1].turn + 1)
           /\ l > 1 => air'[l - 1].kind = "turn_end"
      ELSE air'[l].turn = air'[l - 1].turn /\ air'[l - 1].kind # "turn_end"
  <2>1. (l = 1 <=> air = << >>) /\ (l > 1 => air # << >>)
    BY <1>1, <1>2
  <2>2. air # << >> => air'[l - 1] = air[Len(air)]
    <3>1. l - 1 = Len(air)
      BY <1>1
    <3>2. air # << >> => Len(air) \in 1 .. Len(air)
      BY <1>1, <1>2
    <3>. QED
      BY <1>1, <3>1, <3>2
  <2>3. air'[l] = f
    BY <1>1
  <2>. HIDE DEF l
  <2>. QED
    BY <2>1, <2>2, <2>3
<1>5. \A i \in DOMAIN air' : i \in 1 .. Len(air) \/ i = l
  BY <1>1
<1>. HIDE DEF l
<1>. QED
  BY <1>3, <1>4, <1>5 DEF Bracketed

LEMMA NotPast ==
  ASSUME NEW e, NEW new, Fired(e, new)
  PROVE  /\ now \in Nat /\ e.at \in Nat /\ e.seq \in Nat /\ now <= e.at /\ now' = e.at
         /\ \A x \in heap : /\ x \in Events /\ x.at \in Nat /\ x.seq \in Nat /\ x.n \in Nat
                            /\ e.at <= x.at
         /\ \A x \in heap' : x \in Events /\ x.at \in Nat /\ x.at >= now'
         /\ \A x \in heap : ~Less(x, e)
<1>1. \A x \in Events : x.at \in Nat /\ x.seq \in Nat /\ x.n \in Nat
  BY DEF Events
<1>. QED
  BY <1>1 DEF Fired, Less

(* A step that is none of the agent's, but for the TurnEnd that a barge-in *)
(* adds, or a timer that finds nothing to do.                              *)
LEMMA TurnQuiet ==
  ASSUME TypeOK, TurnInv, NEW e, NEW new, Fired(e, new), e.act # "sendTurnStart",
         agent.talking => ~(e.act = "emitTurnEnd" /\ e.n = agent.turn),
         \A x \in new : x.act \in SendActs => x.act = "emitTurnEnd" /\ x.at > now',
         agent'.turn = agent.turn, agent'.talking = agent.talking,
         agent'.ended = agent.ended, air' = air
  PROVE  TurnInv'
<1>1. Talking /\ Starting /\ Started /\ Bracketed
  BY DEF TurnInv
<1>2. heap' = (heap \ {e}) \cup new
  BY DEF Fired
<1>3. /\ now \in Nat /\ e.at \in Nat /\ now <= e.at /\ now' = e.at
      /\ \A x \in heap : x.at \in Nat
      /\ \A x \in heap' : x.at \in Nat
  BY NotPast
<1>4. Talking'
  BY <1>1, <1>2 DEF Talking
<1>5. ASSUME NEW s \in heap', s.act = "sendTurnStart" PROVE s \in heap
  BY <1>2, <1>5 DEF SendActs
<1>6. Starting'
  <2> SUFFICES ASSUME NEW s \in heap', s.act = "sendTurnStart"
               PROVE  /\ agent'.talking /\ s.n = agent'.turn /\ s.at <= now'
                      /\ \A x \in heap' :
                           /\ x.act = "sendTurnStart" => x = s
                           /\ x.act \in EmitActs /\ x.n = agent'.turn => Less(s, x)
                      /\ SentLast(agent.turn - 1, TRUE)'
    BY DEF Starting
  <2>1. /\ s \in heap /\ agent.talking /\ s.n = agent.turn /\ s.at <= now
        /\ \A x \in heap :
             /\ x.act = "sendTurnStart" => x = s
             /\ x.act \in EmitActs /\ x.n = agent.turn => Less(s, x)
        /\ SentLast(agent.turn - 1, TRUE)
    BY <1>1, <1>5 DEF Starting
  <2>2. s.at <= now' /\ s.at \in Nat
    BY <1>3, <2>1
  <2>3. ASSUME NEW x \in heap', x.act \in EmitActs, x.n = agent'.turn PROVE Less(s, x)
    <3>1. CASE x \in heap
      BY <2>1, <2>3, <3>1
    <3>2. CASE x \in new
      <4>1. x.act \in SendActs
        BY <2>3 DEF SendActs
      <4>2. x.at \in Nat
        BY <1>3, <2>3
      <4>3. x.at > now'
        BY <3>2, <4>1
      <4>4. s.at < x.at
        BY <1>3, <2>2, <4>2, <4>3
      <4>. QED
        BY <4>4 DEF Less
    <3>. QED
      BY <1>2, <3>1, <3>2
  <2>4. SentLast(agent.turn - 1, TRUE)'
    BY <2>1 DEF SentLast
  <2>5. \A x \in heap' : x.act = "sendTurnStart" => x = s
    BY <1>5, <2>1
  <2>. QED
    BY <2>1, <2>2, <2>3, <2>4, <2>5
<1>7. Started'
  <2> SUFFICES ASSUME \A s \in heap' : s.act # "sendTurnStart"
               PROVE  SentLast(agent.turn, ~agent.talking)'
    BY DEF Started
  <2>1. \A s \in heap : s.act # "sendTurnStart"
    BY <1>2
  <2>2. SentLast(agent.turn, ~agent.talking)
    BY <1>1, <2>1 DEF Started
  <2>. QED
    BY <2>2 DEF SentLast
<1>8. Bracketed'
  BY <1>1 DEF Bracketed
<1>. QED
  BY <1>4, <1>6, <1>7, <1>8 DEF TurnInv

LEMMA TurnEventsInclude ==
  ASSUME TypeOK, NEW turn \in Nat, NEW t0 \in Nat
  PROVE  \E s, x \in TurnEvents(turn, t0) :
           s.act = "sendTurnStart" /\ x.act = "emitTurnEnd" /\ x.n = turn
<1> DEFINE endTS == FrameAt(t0, FramesPerTurn - 1) + FrameMs
           s == Event(t0, TimerSeq(0), "sendTurnStart", turn,
                      AgentFrame("turn_start", agent.seq, t0, turn))
           x == Event(endTS, TimerSeq(FramesPerTurn + 1), "emitTurnEnd", turn,
                      AgentFrame("turn_end", 0, endTS, turn))
<1>1. s \in TurnEvents(turn, t0) /\ x \in TurnEvents(turn, t0)
  BY DEF TurnEvents
<1>2. s.act = "sendTurnStart" /\ x.act = "emitTurnEnd" /\ x.n = turn
  BY DEF Event
<1>. HIDE DEF s, x
<1>. QED
  BY <1>1, <1>2

LEMMA TurnRespond ==
  ASSUME TypeOK, HeapFits, TurnInv, NEW e \in heap, Respond(e)
  PROVE  TurnInv'
<1> DEFINE new == TurnEvents(agent.turn + 1, e.at)
<1>1. Talking /\ Starting /\ Started /\ Bracketed
  BY DEF TurnInv
<1>2. /\ ~agent.talking /\ e.act = "maybeRespond" /\ Fired(e, new) /\ e.at \in Nat
      /\ air' = air
  BY RespondStep
<1>3. heap' = (heap \ {e}) \cup new /\ now' = e.at
  BY <1>2 DEF Fired
<1>4. agent.turn \in Nat /\ agent'.turn = agent.turn + 1 /\ agent'.turn \in Nat
      /\ agent'.turn - 1 = agent.turn /\ agent'.turn > 0
      /\ agent'.talking /\ ~agent'.ended
  <2>1. agent'.turn = agent.turn + 1 /\ agent'.talking = TRUE /\ agent'.ended = FALSE
    BY RespondAgent
  <2>2. agent.turn \in Nat
    BY AgentTypes
  <2>3. agent'.talking /\ ~agent'.ended
    BY <2>1
  <2>. QED
    BY <2>1, <2>2, <2>3
<1>5. \E s, x \in new : s.act = "sendTurnStart" /\ x.act = "emitTurnEnd" /\ x.n = agent'.turn
  BY <1>2, <1>4, TurnEventsInclude
<1>6. TimerSeq(0) \in Nat
  BY TimerSeqFacts
<1>7. ASSUME NEW x \in new
      PROVE  /\ x \in Events /\ x.at >= e.at /\ x.at \in Nat /\ x.seq \in Nat
             /\ x.n = agent'.turn
             /\ x.act = "sendTurnStart" =>
                  /\ x.at = e.at /\ x.seq = TimerSeq(0)
                  /\ x = Event(e.at, TimerSeq(0), "sendTurnStart", agent'.turn,
                               AgentFrame("turn_start", agent.seq, e.at, agent'.turn))
             /\ x.act # "sendTurnStart" => x.seq > TimerSeq(0)
  <2>1. x \in TurnEvents(agent'.turn, e.at)
    BY <1>4
  <2>2. /\ x \in Events /\ x.at >= e.at /\ x.n = agent'.turn
        /\ \/ /\ x.act = "sendTurnStart" /\ x.at = e.at /\ x.seq = TimerSeq(0)
              /\ x = Event(e.at, TimerSeq(0), "sendTurnStart", agent'.turn,
                           AgentFrame("turn_start", agent.seq, e.at, agent'.turn))
           \/ x.act = "emitAgentFrame" /\ x.seq > TimerSeq(0)
           \/ x.act = "emitTurnEnd" /\ x.seq > TimerSeq(0)
    BY <1>2, <1>4, <2>1, TurnEventFacts
  <2>3. x.at \in Nat /\ x.seq \in Nat
    BY <2>2 DEF Events
  <2>. HIDE DEF new
  <2>. QED
    BY <2>2, <2>3
<1>8. \A x \in heap : x.act # "sendTurnStart"
  BY <1>1, <1>2 DEF Starting
<1>9. \A x \in heap : x.act \in EmitActs => x.n # agent'.turn
  <2>1. \A x \in heap : x.act \in EmitActs => x.n \in 1 .. agent.turn
    BY DEF HeapFits, Fits
  <2>. QED
    BY <1>4, <2>1
<1>10. SentLast(agent.turn, TRUE)
  BY <1>1, <1>2, <1>8 DEF Started
<1>. HIDE DEF new
<1>11. Talking'
  BY <1>3, <1>4, <1>5 DEF Talking
<1>12. Starting'
  <2> SUFFICES ASSUME NEW s \in heap', s.act = "sendTurnStart"
               PROVE  /\ agent'.talking /\ s.n = agent'.turn /\ s.at <= now'
                      /\ \A x \in heap' :
                           /\ x.act = "sendTurnStart" => x = s
                           /\ x.act \in EmitActs /\ x.n = agent'.turn => Less(s, x)
                      /\ SentLast(agent.turn - 1, TRUE)'
    BY DEF Starting
  <2>1. s \in new
    BY <1>3, <1>8
  <2>2. s.n = agent'.turn /\ s.at = e.at /\ s.seq = TimerSeq(0)
    BY <1>7, <2>1
  <2>3. ASSUME NEW x \in heap', x.act = "sendTurnStart" PROVE x = s
    <3>1. x \in new
      BY <1>3, <1>8, <2>3
    <3>. QED
      BY <1>7, <2>1, <2>3, <3>1
  <2>4. ASSUME NEW x \in heap', x.act \in EmitActs, x.n = agent'.turn PROVE Less(s, x)
    <3>1. x \in new /\ x.act # "sendTurnStart"
      BY <1>3, <1>9, <2>4 DEF EmitActs
    <3>2. x.at \in Nat /\ x.at >= e.at /\ x.seq \in Nat /\ x.seq > TimerSeq(0)
      BY <1>7, <3>1
    <3>. QED
      BY <1>2, <1>6, <2>2, <3>2 DEF Less
  <2>5. SentLast(agent.turn - 1, TRUE)'
    BY <1>2, <1>4, <1>10 DEF SentLast
  <2>6. s.at <= now'
    BY <1>2, <1>3, <2>2
  <2>. QED
    BY <1>4, <2>2, <2>3, <2>4, <2>5, <2>6
<1>13. Started'
  BY <1>3, <1>5 DEF Started
<1>14. Bracketed'
  BY <1>1, <1>2 DEF Bracketed
<1>. QED
  BY <1>11, <1>12, <1>13, <1>14 DEF TurnInv

(* What an event that is due may be sent after.                            *)
LEMMA SendContext ==
  ASSUME TypeOK, HeapFits, TurnInv, NEW e \in heap, AgentSends(e)
  PROVE  /\ agent.talking /\ e.n = agent.turn /\ agent.turn > 0
         /\ e.act = "sendTurnStart" => SentLast(agent.turn - 1, TRUE)
         /\ e.act # "sendTurnStart" => SentLast(agent.turn, FALSE)
         /\ \A s \in heap : s.act = "sendTurnStart" => s = e
         /\ SentBy(e).turn = agent.turn /\ SentBy(e) \in Frames /\ SentBy(e).kind = e.f.kind
         /\ SentBy(e).ts = e.at
         /\ e.act = "sendTurnStart" => e.f.kind = "turn_start"
         /\ e.act = "emitAgentFrame" => e.f.kind = "agent"
         /\ e.act = "emitTurnEnd" => e.f.kind = "turn_end"
<1>1. Talking /\ Starting /\ Started
  BY DEF TurnInv
<1>2. e.act \in SendActs /\ ~Stale(e) /\ e \in Events
  BY AgentSendsStep
<1>3. /\ e.n \in 1 .. agent.turn /\ e.f.turn = e.n /\ e.f.ts = e.at
      /\ e.act = "sendTurnStart" => e.f.kind = "turn_start"
      /\ e.act = "emitAgentFrame" => e.f.kind = "agent"
      /\ e.act = "emitTurnEnd" => e.f.kind = "turn_end"
  BY <1>2 DEF HeapFits, Fits, SendActs
<1>4. agent.turn > 0
  BY <1>3, AgentTypes
<1>5. agent.talking /\ e.n = agent.turn
  <2>1. CASE e.act = "sendTurnStart"
    BY <1>1, <2>1 DEF Starting
  <2>2. CASE e.act = "emitAgentFrame"
    BY <1>2, <2>2 DEF Stale, StaleFrame
  <2>3. CASE e.act = "emitTurnEnd"
    <3>1. e.n = agent.turn /\ ~agent.ended
      BY <1>2, <2>3 DEF Stale, StaleEnd
    <3>. QED
      BY <1>1, <1>4, <3>1 DEF Talking
  <2>. QED
    BY <1>2, <2>1, <2>2, <2>3 DEF SendActs, EmitActs
<1>6. \A x \in heap : ~Less(x, e)
  <2>1. \E new : Fired(e, new)
    BY AgentSendsFired
  <2>. QED
    BY <2>1, NotPast
<1>7. ASSUME NEW s \in heap, s.act = "sendTurnStart" PROVE s = e
  <2>1. CASE e.act = "sendTurnStart"
    BY <1>1, <1>7, <2>1 DEF Starting
  <2>2. CASE e.act # "sendTurnStart"
    <3>1. e.act \in EmitActs
      BY <1>2, <2>2 DEF SendActs
    <3>2. Less(s, e)
      BY <1>1, <1>5, <1>7, <3>1 DEF Starting
    <3>. QED
      BY <1>6, <1>7, <3>2
  <2>. QED
    BY <2>1, <2>2
<1>8. e.act = "sendTurnStart" => SentLast(agent.turn - 1, TRUE)
  BY <1>1 DEF Starting
<1>9. e.act # "sendTurnStart" => SentLast(agent.turn, FALSE)
  BY <1>1, <1>5, <1>7 DEF Started
<1>10. /\ SentBy(e).turn = agent.turn /\ SentBy(e) \in Frames /\ SentBy(e).kind = e.f.kind
       /\ SentBy(e).ts = e.at
  BY <1>2, <1>3, <1>5, SentByFacts
<1>. QED
  BY <1>3, <1>4, <1>5, <1>7, <1>8, <1>9, <1>10

LEMMA TurnSends ==
  ASSUME TypeOK, HeapFits, TurnInv, NEW e \in heap, AgentSends(e)
  PROVE  TurnInv'
<1> DEFINE f == SentBy(e)
<1>1. Talking /\ Bracketed
  BY DEF TurnInv
<1>2. /\ agent.talking /\ e.n = agent.turn /\ agent.turn > 0 /\ agent.turn \in Nat
      /\ e.act = "sendTurnStart" => SentLast(agent.turn - 1, TRUE)
      /\ e.act # "sendTurnStart" => SentLast(agent.turn, FALSE)
      /\ \A s \in heap : s.act = "sendTurnStart" => s = e
      /\ f.turn = agent.turn /\ f \in Frames
      /\ e.act = "sendTurnStart" => f.kind = "turn_start"
      /\ e.act = "emitAgentFrame" => f.kind = "agent"
      /\ e.act = "emitTurnEnd" => f.kind = "turn_end"
  BY SendContext, AgentTypes
<1>3. e.act \in SendActs /\ air' = Append(air, f)
  BY AgentSendsStep
<1>4. /\ agent'.turn = agent.turn
      /\ agent'.ended = IF e.act = "emitTurnEnd" THEN TRUE ELSE agent.ended
      /\ agent'.talking = IF e.act = "emitTurnEnd" THEN FALSE ELSE agent.talking
  BY AgentSendsAgent
<1>5. PICK new : Fired(e, new) /\ \A x \in new : x.act = "recv"
  BY AgentSendsFired
<1>6. heap' = (heap \ {e}) \cup new
  BY <1>5 DEF Fired
<1>7. air \in Seq(Frames)
  BY DEF TypeOK
<1>8. \A s \in heap' : s.act # "sendTurnStart"
  BY <1>2, <1>5, <1>6
<1>. HIDE DEF f
<1>9. Talking'
  <2>1. CASE e.act = "emitTurnEnd"
    BY <1>2, <1>4, <2>1 DEF Talking
  <2>2. CASE e.act # "emitTurnEnd"
    <3>1. PICK x \in heap : x.act = "emitTurnEnd" /\ x.n = agent.turn
      BY <1>1, <1>2 DEF Talking
    <3>2. x \in heap'
      BY <1>6, <2>2, <3>1
    <3>. QED
      BY <1>1, <1>2, <1>4, <2>2, <3>1, <3>2 DEF Talking
  <2>. QED
    BY <2>1, <2>2
<1>10. Starting'
  BY <1>8 DEF Starting
<1>11. Started'
  <2>1. /\ air' # << >> /\ Len(air') = Len(air) + 1 /\ air'[Len(air) + 1] = f
    BY <1>2, <1>3, <1>7, Appended
  <2>2. f.kind = "turn_end" <=> ~agent'.talking
    BY <1>2, <1>3, <1>4 DEF SendActs, EmitActs
  <2>3. air'[Len(air')] = f
    BY <2>1
  <2>4. agent.turn # 0
    BY <1>2
  <2>. QED
    BY <1>2, <1>4, <2>1, <2>2, <2>3, <2>4 DEF Started, SentLast
<1>12. Bracketed'
  <2>1. CASE e.act = "sendTurnStart"
    <3>1. IF air = << >> THEN agent.turn = 1
          ELSE agent.turn = air[Len(air)].turn + 1 /\ air[Len(air)].kind = "turn_end"
      <4>1. SentLast(agent.turn - 1, TRUE)
        BY <1>2, <2>1
      <4>2. CASE agent.turn = 1
        BY <4>1, <4>2 DEF SentLast
      <4>3. CASE agent.turn # 1
        <5>1. agent.turn - 1 # 0 /\ agent.turn = (agent.turn - 1) + 1
          BY <1>2, <4>3
        <5>2. /\ air # << >> /\ air[Len(air)].turn = agent.turn - 1
              /\ air[Len(air)].kind = "turn_end"
          BY <4>1, <5>1 DEF SentLast
        <5>. QED
          BY <5>1, <5>2
      <4>. QED
        BY <4>2, <4>3
    <3>. QED
      BY <1>1, <1>2, <1>3, <1>7, <2>1, <3>1, Brackets
  <2>2. CASE e.act # "sendTurnStart"
    <3>1. f.kind # "turn_start"
      BY <1>2, <1>3, <2>2 DEF SendActs, EmitActs
    <3>2. /\ air # << >> /\ air[Len(air)].turn = agent.turn
          /\ air[Len(air)].kind # "turn_end"
      BY <1>2, <2>2 DEF SentLast
    <3>. QED
      BY <1>1, <1>2, <1>3, <1>7, <3>1, <3>2, Brackets
  <2>. QED
    BY <2>1, <2>2
<1>. QED
  BY <1>9, <1>10, <1>11, <1>12 DEF TurnInv

LEMMA TurnStep ==
  ASSUME TypeOK, HeapFits, TurnInv, NEW e \in heap, Fires(e)
  PROVE  TurnInv'
<1>1. CASE Speak(e)
  <2> DEFINE x == Event(e.at, e.f.seq, "hear", 0, e.f)
  <2>1. e.act = "speak" /\ Fired(e, {x}) /\ x.act = "hear" /\ agent' = agent /\ air' = air
    BY <1>1, SpeakStep
  <2>. HIDE DEF x
  <2>2. \A y \in {x} : y.act \notin SendActs
    BY <2>1 DEF SendActs, EmitActs
  <2>. QED
    BY <2>1, <2>2, TurnQuiet
<1>2. CASE ReceiveTurnStart(e)
  <2>1. PICK new : Fired(e, new) /\ BargesIn(e, new)
    BY <1>2, ReceiveTurnStartStep
  <2>2. e.act = "recv" /\ agent' = agent /\ air' = air
    BY <1>2, ReceiveTurnStartStep
  <2>3. \A x \in new : x.act \notin SendActs
    BY <2>1 DEF BargesIn, Burst, Event, SendActs, EmitActs
  <2>. QED
    BY <2>1, <2>2, <2>3, TurnQuiet
<1>3. CASE ReceiveOther(e) \/ HearWhileTalking(e)
  <2>1. e.act \in {"recv", "hear"} /\ Fired(e, {}) /\ agent' = agent /\ air' = air
    BY <1>3, ReceiveOtherStep, HearWhileTalkingStep
  <2>. QED
    BY <2>1, TurnQuiet
<1>4. CASE HearBargeIn(e)
  <2> DEFINE x == EarlyEnd(e)
  <2>1. /\ e.act = "hear" /\ Fired(e, {x}) /\ x.act = "emitTurnEnd" /\ air' = air
        /\ x.at = e.at + FakeConfig.StopLatencyMs + FrameMs
    BY <1>4, HearBargeInStep
  <2>. HIDE DEF x
  <2>2. x.at > now'
    BY <2>1, NotPast, ConfigFacts
  <2>3. /\ agent'.turn = agent.turn /\ agent'.talking = agent.talking
        /\ agent'.ended = agent.ended
    BY <1>4, HearBargeInAgent
  <2>. QED
    BY <2>1, <2>2, <2>3, TurnQuiet
<1>5. CASE HearUtterance(e)
  <2> DEFINE x == Armed(e)
  <2>1. e.act = "hear" /\ Fired(e, {x}) /\ x.act = "maybeRespond" /\ air' = air
    BY <1>5, HearUtteranceStep
  <2>. HIDE DEF x
  <2>2. \A y \in {x} : y.act \notin SendActs
    BY <2>1 DEF SendActs, EmitActs
  <2>3. /\ agent'.turn = agent.turn /\ agent'.talking = agent.talking
        /\ agent'.ended = agent.ended
    BY <1>5, HearUtteranceAgent
  <2>. QED
    BY <2>1, <2>2, <2>3, TurnQuiet
<1>6. CASE TimerIsStale(e)
  <2>1. Stale(e) /\ Fired(e, {}) /\ agent' = agent /\ air' = air
    BY <1>6, TimerIsStaleStep
  <2>2. e.act # "sendTurnStart"
    BY <2>1 DEF Stale
  <2>3. agent.talking => ~(e.act = "emitTurnEnd" /\ e.n = agent.turn)
    BY <2>1 DEF Stale, StaleEnd, TurnInv, Talking
  <2>. QED
    BY <2>1, <2>2, <2>3, TurnQuiet
<1>7. CASE Respond(e)
  BY <1>7, TurnRespond
<1>8. CASE AgentSends(e)
  BY <1>8, TurnSends
<1>. QED
  BY <1>1, <1>2, <1>3, <1>4, <1>5, <1>6, <1>7, <1>8, FiresCases

LEMMA FitsInit == Init => HeapFits
<1> SUFFICES ASSUME Init PROVE HeapFits
  OBVIOUS
<1>1. ASSUME NEW x \in heap PROVE Fits(x, callerSeq, agent.speechGen, agent.turn)
  <2>1. x \in Primed
    BY DEF Init
  <2>2. PICK k \in 1 .. Len(Turns) :
           /\ x \in Burst(PromptSeq[k - 1], Turns[k].AtMs, Turns[k].DurMs, <<"prompt", k>>)
           /\ <<"prompt", k>> \in Sources
           /\ PromptSeq[k - 1] \in Nat /\ Turns[k].AtMs \in Nat /\ Turns[k].DurMs \in Nat
           /\ PromptSeq[k - 1] + BurstLen(Turns[k].DurMs) <= PromptSeq[Len(Turns)]
    BY <2>1, PrimedFacts
  <2>3. /\ x \in Events /\ x.act = "speak" /\ x.n < BurstLen(Turns[k].DurMs)
        /\ x.seq = PromptSeq[k - 1] + x.n
        /\ x.f.kind = "speech" /\ x.f.seq = x.seq /\ x.f.ts = x.at /\ x.f.from = <<"prompt", k>>
    BY <2>2, BurstFacts
  <2>4. x.n \in Nat /\ BurstLen(Turns[k].DurMs) \in Nat /\ PromptSeq[Len(Turns)] \in Nat
    BY <2>2, <2>3, BurstLenFacts, PromptFacts DEF Events
  <2>5. x.seq < PromptSeq[Len(Turns)]
    BY <2>2, <2>3, <2>4
  <2>6. x.f.from[1] # "agent" /\ x.act \in CallerActs /\ callerSeq = PromptSeq[Len(Turns)]
    BY <2>3 DEF CallerActs, Init
  <2>. QED
    BY <2>3, <2>5, <2>6, SpeechFits
<1>. QED
  BY <1>1 DEF HeapFits, Init

LEMMA SpeechOnly == Init => \A x \in heap : x.act = "speak"
<1>1. ASSUME NEW x \in Primed PROVE x.act = "speak"
  <2>1. PICK k \in 1 .. Len(Turns) :
          x \in Burst(PromptSeq[k - 1], Turns[k].AtMs, Turns[k].DurMs, <<"prompt", k>>)
    BY PrimedFacts
  <2>. QED
    BY <2>1 DEF Burst, Event
<1>. QED
  BY <1>1 DEF Init

LEMMA TurnInit == Init => TurnInv
<1> SUFFICES ASSUME Init PROVE TurnInv
  OBVIOUS
<1>1. agent.turn = 0 /\ ~agent.talking /\ ~agent.ended /\ air = << >>
  BY DEF Init
<1>2. Talking /\ Started
  BY <1>1 DEF Talking, Started, SentLast
<1>3. Starting
  BY SpeechOnly DEF Starting
<1>4. Bracketed
  BY <1>1 DEF Bracketed
<1>. QED
  BY <1>2, <1>3, <1>4 DEF TurnInv

LEMMA TurnInvariant == Spec => [](HeapFits /\ TurnInv)
<1>1. Init => HeapFits /\ TurnInv
  BY FitsInit, TurnInit
<1>2. TypeInv /\ HeapFits /\ TurnInv /\ [Next]_vars => HeapFits' /\ TurnInv'
  <2> SUFFICES ASSUME TypeInv, HeapFits, TurnInv, [Next]_vars PROVE HeapFits' /\ TurnInv'
    OBVIOUS
  <2>1. ASSUME NEW e \in heap, Fires(e) PROVE HeapFits' /\ TurnInv'
    BY <2>1, FitsStep, TurnStep DEF TypeInv
  <2>2. ASSUME UNCHANGED vars PROVE HeapFits' /\ TurnInv'
    BY <2>2 DEF vars, HeapFits, TurnInv, Talking, Starting, Started, SentLast, Bracketed
  <2>. QED
    BY <2>1, <2>2 DEF Next, Quiescent
<1>. QED
  BY <1>1, <1>2, TypeInvariant, PTL DEF Spec

(* What the agent sends is a sequence of turns, each one TurnStart, then   *)
(* audio, then one TurnEnd: the turn is open from its TurnStart, which is  *)
(* the least event of its turn, for as long as the agent talks, and its    *)
(* TurnEnd is on the heap all that time.                                   *)
THEOREM TurnsBracketed == Spec => []TurnsAreBracketed
<1>1. TypeInv /\ TurnInv => TurnsAreBracketed
  <2> SUFFICES ASSUME TypeOK, TurnInv PROVE TurnsAreBracketed
    BY DEF TypeInv
  <2>1. Done => air = << >> \/ air[Len(air)].kind = "turn_end"
    BY DEF Done, TurnInv, Talking, Started, SentLast
  <2>. QED
    BY <2>1 DEF TurnsAreBracketed, TurnInv, Bracketed
<1>. QED
  BY <1>1, TypeInvariant, TurnInvariant, PTL

-----------------------------------------------------------------------------
(* The answers.                                                            *)

LEMMA HeardTypes ==
  ASSUME TypeOK
  PROVE  \A i \in DOMAIN heard :
           heard[i].ts \in Nat /\ heard[i].turn \in Nat /\ heard[i].from \in Sources
<1>1. heard \in Seq(Hearings)
  BY DEF TypeOK
<1>2. \A i \in DOMAIN heard : heard[i] \in Hearings
  BY <1>1, ElementOfSeq, LenProperties
<1>. QED
  BY <1>2 DEF Hearings

LEMMA AirTypes ==
  ASSUME TypeOK
  PROVE  \A j \in DOMAIN air : air[j].ts \in Nat /\ air[j].seq \in Nat /\ air[j].turn \in Nat
<1>1. air \in Seq(Frames)
  BY DEF TypeOK
<1>2. \A j \in DOMAIN air : air[j] \in Frames
  BY <1>1, ElementOfSeq, LenProperties
<1>. QED
  BY <1>2 DEF Frames

LEMMA AnswerStays ==
  ASSUME TypeOK, air' = air \/ \E f \in Frames : air' = Append(air, f), NEW t, AnswerSent(t)
  PROVE  AnswerSent(t)'
<1>1. air \in Seq(Frames)
  BY DEF TypeOK
<1>2. CASE air' = air
  BY <1>2 DEF AnswerSent
<1>3. ASSUME NEW f \in Frames, air' = Append(air, f) PROVE AnswerSent(t)'
  <2>1. /\ DOMAIN air = 1 .. Len(air) /\ DOMAIN air' = 1 .. Len(air) + 1 /\ Len(air) \in Nat
        /\ \A i \in 1 .. Len(air) : air'[i] = air[i]
    BY <1>1, <1>3, Appended
  <2>2. \A i \in DOMAIN air : i \in DOMAIN air' /\ air'[i] = air[i]
    BY <2>1
  <2>. QED
    BY <2>2 DEF AnswerSent
<1>. QED
  BY <1>2, <1>3

(* A step that neither hears, responds nor sends.                          *)
LEMMA AnswerQuiet ==
  ASSUME TypeOK, UtteranceInv, NEW e, NEW new, Fired(e, new), e.act # "sendTurnStart",
         Live(e) => agent.talking,
         \A x \in new : x.act # "maybeRespond",
         heard' = heard, air' = air, agent' = agent
  PROVE  UtteranceInv'
<1>1. Endpointing /\ Answering
  BY DEF UtteranceInv
<1>2. heap' = (heap \ {e}) \cup new /\ now \in Nat /\ now' \in Nat /\ now <= now'
  BY NotPast DEF Fired
<1>3. ASSUME NEW x \in heap', x.act = "maybeRespond" PROVE x \in heap /\ x # e
  BY <1>2, <1>3
<1>4. Endpointing'
  <2>1. \A x, y \in heap' : x.act = "maybeRespond" /\ y.act = "maybeRespond" /\ x.n = y.n => x = y
    BY <1>1, <1>3 DEF Endpointing
  <2>2. agent'.talking => \A x \in heap' : ~Live(x)'
    BY <1>1, <1>3 DEF Endpointing, Live
  <2>3. ASSUME NEW i \in DOMAIN heard'
        PROVE  /\ heard'[i].ts <= now' /\ heard'[i].turn <= agent'.turn
               /\ \A x \in heap' : Live(x)' => heard'[i].ts + EndpointMs <= x.at
    <3>1. heard[i].ts <= now /\ heard[i].turn <= agent.turn
      BY <1>1 DEF Endpointing
    <3>2. heard[i].ts \in Nat
      BY HeardTypes
    <3>3. heard[i].ts <= now'
      BY <1>2, <3>1, <3>2
    <3>4. ASSUME NEW x \in heap', Live(x)' PROVE heard[i].ts + EndpointMs <= x.at
      <4>1. x \in heap /\ Live(x)
        BY <1>3, <3>4 DEF Live
      <4>. QED
        BY <1>1, <4>1 DEF Endpointing
    <3>. QED
      BY <3>1, <3>3, <3>4
  <2>. QED
    BY <2>1, <2>2, <2>3 DEF Endpointing
<1>5. Answering'
  <2> SUFFICES ASSUME NEW i \in DOMAIN heard, heard[i].as = "utterance"
               PROVE  (AnswerSent(heard[i].ts) \/ AnswerStarting(heard[i].ts) \/ AnswerArmed)'
    BY DEF Answering
  <2>1. CASE AnswerSent(heard[i].ts)
    BY <2>1 DEF AnswerSent
  <2>2. CASE AnswerStarting(heard[i].ts)
    BY <1>2, <2>2 DEF AnswerStarting
  <2>3. CASE AnswerArmed
    BY <1>2, <2>3 DEF AnswerArmed, Live
  <2>. QED
    BY <1>1, <2>1, <2>2, <2>3 DEF Answering
<1>. QED
  BY <1>4, <1>5 DEF UtteranceInv

(* Speech while the agent talks is not an utterance.                       *)
LEMMA AnswerIgnored ==
  ASSUME TypeOK, UtteranceInv, NEW e, NEW new, Fired(e, new), e.act = "hear",
         agent.talking, agent'.talking, agent'.turn = agent.turn,
         agent'.speechGen = agent.speechGen, air' = air,
         \A x \in new : x.act # "maybeRespond",
         NEW as, as # "utterance", Hearing(e, as) \in Hearings,
         heard' = Append(heard, Hearing(e, as))
  PROVE  UtteranceInv'
<1> DEFINE h == Hearing(e, as)
<1>1. Endpointing /\ Answering
  BY DEF UtteranceInv
<1>2. /\ heap' = (heap \ {e}) \cup new /\ now \in Nat /\ now' \in Nat /\ now <= now'
      /\ now' = e.at
  BY NotPast DEF Fired
<1>3. h.ts = e.at /\ h.as = as /\ h.turn = agent.turn
  BY DEF Hearing
<1>4. heard \in Seq(Hearings) /\ h \in Hearings /\ heard' = Append(heard, h)
  BY DEF TypeOK
<1>. HIDE DEF h
<1>5. /\ DOMAIN heard = 1 .. Len(heard) /\ DOMAIN heard' = 1 .. Len(heard) + 1
      /\ Len(heard) \in Nat
      /\ \A i \in 1 .. Len(heard) : heard'[i] = heard[i]
      /\ heard'[Len(heard) + 1] = h
  BY <1>4, Appended
<1>6. ASSUME NEW i \in DOMAIN heard'
      PROVE  (i \in DOMAIN heard /\ heard'[i] = heard[i]) \/ heard'[i] = h
  <2>1. i \in 1 .. Len(heard) \/ i = Len(heard) + 1
    <3>1. \A l \in Nat : \A k \in 1 .. l + 1 : k \in 1 .. l \/ k = l + 1
      OBVIOUS
    <3>. QED
      BY <1>5, <3>1, Zenon
  <2>. QED
    BY <1>5, <2>1, Zenon
<1>7. \A x \in heap' : ~Live(x)'
  BY <1>1, <1>2 DEF Endpointing, Live
<1>8. Endpointing'
  <2>1. \A x, y \in heap' : x.act = "maybeRespond" /\ y.act = "maybeRespond" /\ x.n = y.n => x = y
    BY <1>1, <1>2 DEF Endpointing
  <2>2. ASSUME NEW i \in DOMAIN heard'
        PROVE  heard'[i].ts <= now' /\ heard'[i].turn <= agent'.turn
    <3>1. CASE heard'[i] = h
      BY <1>2, <1>3, <3>1, AgentTypes
    <3>2. CASE i \in DOMAIN heard /\ heard'[i] = heard[i]
      <4>1. heard[i].ts <= now /\ heard[i].turn <= agent.turn /\ heard[i].ts \in Nat
        BY <1>1, <3>2, HeardTypes DEF Endpointing
      <4>. QED
        BY <1>2, <3>2, <4>1
    <3>. QED
      BY <1>6, <3>1, <3>2
  <2>. QED
    BY <1>7, <2>1, <2>2 DEF Endpointing
<1>9. Answering'
  <2> SUFFICES ASSUME NEW i \in DOMAIN heard', heard'[i].as = "utterance"
               PROVE  (AnswerSent(heard[i].ts) \/ AnswerStarting(heard[i].ts) \/ AnswerArmed)'
    BY DEF Answering
  <2>1. i \in DOMAIN heard /\ heard'[i] = heard[i]
    BY <1>3, <1>6
  <2>2. CASE AnswerSent(heard[i].ts)
    BY <2>1, <2>2 DEF AnswerSent
  <2>3. CASE AnswerStarting(heard[i].ts)
    BY <1>2, <2>1, <2>3 DEF AnswerStarting
  <2>4. ~AnswerArmed
    BY DEF AnswerArmed
  <2>. QED
    BY <1>1, <2>1, <2>2, <2>3, <2>4 DEF Answering
<1>. QED
  BY <1>8, <1>9 DEF UtteranceInv

LEMMA AnswerUtterance ==
  ASSUME TypeOK, HeapFits, UtteranceInv, NEW e \in heap, HearUtterance(e)
  PROVE  UtteranceInv'
<1> DEFINE h == Hearing(e, "utterance")
           a == Armed(e)
<1>1. Endpointing
  BY DEF UtteranceInv
<1>2. /\ e.act = "hear" /\ ~agent.talking /\ Fired(e, {a})
      /\ a.at = e.at + EndpointMs /\ a.act = "maybeRespond" /\ a.n = agent.speechGen + 1
      /\ h \in Hearings /\ heard' = Append(heard, h)
  BY HearUtteranceStep
<1>3. /\ heap' = (heap \ {e}) \cup {a} /\ now \in Nat /\ now' \in Nat /\ now <= now'
      /\ now' = e.at
  BY <1>2, NotPast DEF Fired
<1>4. h.ts = e.at /\ h.turn = agent.turn
  BY DEF Hearing
<1>5. heard \in Seq(Hearings)
  BY DEF TypeOK
<1>. HIDE DEF h, a
<1>6. /\ DOMAIN heard = 1 .. Len(heard) /\ DOMAIN heard' = 1 .. Len(heard) + 1
      /\ Len(heard) \in Nat
      /\ \A i \in 1 .. Len(heard) : heard'[i] = heard[i]
      /\ heard'[Len(heard) + 1] = h
  BY <1>2, <1>5, Appended
<1>7. \A i \in DOMAIN heard' : (i \in DOMAIN heard /\ heard'[i] = heard[i]) \/ heard'[i] = h
  BY <1>6
<1>8. /\ agent'.speechGen = agent.speechGen + 1 /\ agent.speechGen \in Nat
      /\ agent'.talking = agent.talking /\ agent'.turn = agent.turn /\ agent.turn \in Nat
  BY HearUtteranceAgent, AgentTypes
<1>9. ASSUME NEW x \in heap, x.act = "maybeRespond"
      PROVE  x.n \in Nat /\ x.n <= agent.speechGen
  BY <1>9 DEF HeapFits, Fits, TypeOK, Events
<1>10. \A x \in heap' : Live(x)' <=> x = a
  <2>1. ASSUME NEW x \in heap', Live(x)' PROVE x = a
    <3>1. x.act = "maybeRespond" /\ x.n = agent.speechGen + 1
      BY <1>8, <2>1 DEF Live
    <3>2. x \notin heap
      BY <1>8, <1>9, <3>1
    <3>. QED
      BY <1>3, <3>2
  <2>2. ASSUME NEW x \in heap', x = a PROVE Live(x)'
    BY <1>2, <1>8, <2>2 DEF Live
  <2>. QED
    BY <2>1, <2>2
<1>11. Endpointing'
  <2>1. ASSUME NEW x \in heap', NEW y \in heap', x.act = "maybeRespond", y.act = "maybeRespond",
               x.n = y.n
        PROVE  x = y
    <3>1. \A z \in heap' : z.act = "maybeRespond" =>
            z = a \/ (z \in heap /\ z.n # agent.speechGen + 1)
      BY <1>3, <1>8, <1>9
    <3>2. CASE x \in heap /\ y \in heap
      BY <1>1, <2>1, <3>2 DEF Endpointing
    <3>3. CASE x = a \/ y = a
      <4>1. x.n = agent.speechGen + 1 /\ y.n = agent.speechGen + 1
        BY <1>2, <2>1, <3>3
      <4>. QED
        BY <2>1, <3>1, <4>1
    <3>. QED
      BY <2>1, <3>1, <3>2, <3>3
  <2>2. ASSUME NEW i \in DOMAIN heard'
        PROVE  /\ heard'[i].ts <= now' /\ heard'[i].turn <= agent'.turn
               /\ \A x \in heap' : Live(x)' => heard'[i].ts + EndpointMs <= x.at
    <3>1. heard'[i].ts \in Nat /\ heard'[i].ts <= e.at
      <4>1. CASE heard'[i] = h
        BY <1>3, <1>4, <4>1
      <4>2. CASE i \in DOMAIN heard /\ heard'[i] = heard[i]
        <5>1. heard[i].ts <= now /\ heard[i].ts \in Nat
          BY <1>1, <4>2, HeardTypes DEF Endpointing
        <5>. QED
          BY <1>3, <4>2, <5>1
      <4>. QED
        BY <1>7, <4>1, <4>2
    <3>2. heard'[i].turn <= agent'.turn
      <4>1. i \in DOMAIN heard => heard[i].turn <= agent.turn
        BY <1>1 DEF Endpointing
      <4>2. agent.turn <= agent.turn
        BY <1>8
      <4>. QED
        BY <1>4, <1>7, <1>8, <4>1, <4>2
    <3>3. heard'[i].ts + EndpointMs <= a.at
      BY <1>2, <1>3, <3>1, ConfigFacts
    <3>. QED
      BY <1>3, <1>10, <3>1, <3>2, <3>3
  <2>3. agent'.talking => \A x \in heap' : ~Live(x)'
    BY <1>2, <1>8
  <2>. QED
    BY <2>1, <2>2, <2>3 DEF Endpointing
<1>12. AnswerArmed'
  <2>1. a \in heap' /\ a.act = "maybeRespond" /\ a.n = agent'.speechGen
    BY <1>2, <1>3, <1>8
  <2>2. ~agent'.talking
    BY <1>2, <1>8
  <2>. QED
    BY <2>1, <2>2 DEF AnswerArmed, Live
<1>. QED
  BY <1>11, <1>12 DEF UtteranceInv, Answering

LEMMA AnswerRespond ==
  ASSUME TypeOK, UtteranceInv, NEW e \in heap, Respond(e)
  PROVE  UtteranceInv'
<1> DEFINE new == TurnEvents(agent.turn + 1, e.at)
<1>1. Endpointing /\ Answering
  BY DEF UtteranceInv
<1>2. /\ ~agent.talking /\ e.act = "maybeRespond" /\ e.n = agent.speechGen /\ Fired(e, new)
      /\ e.at \in Nat /\ air' = air /\ heard' = heard
  BY RespondStep
<1>3. /\ heap' = (heap \ {e}) \cup new /\ now \in Nat /\ now' \in Nat /\ now <= now'
  BY <1>2, NotPast DEF Fired
<1>4. agent'.turn = agent.turn + 1 /\ agent'.speechGen = agent.speechGen /\ agent.turn \in Nat
  BY RespondAgent, AgentTypes
<1>5. agent.turn + 1 \in Nat
  BY <1>4
<1>6. \A x \in new : x.act # "maybeRespond" /\ x.f.ts >= e.at
  <2>1. ASSUME NEW x \in new PROVE x.act # "maybeRespond" /\ x.f.ts = x.at /\ x.at >= e.at
    BY <1>2, <1>5, TurnEventFacts
  <2>. QED
    BY <2>1
<1>7. PICK s \in new : s.act = "sendTurnStart"
  BY <1>2, <1>5, TurnEventsInclude
<1>8. \A x \in new : x.f.ts \in Nat
  <2>1. \A x \in new : x \in Events
    BY <1>2 DEF Fired
  <2>. QED
    BY <2>1 DEF Events, Frames
<1>. HIDE DEF new
<1>9. Live(e)
  BY <1>2 DEF Live
<1>10. \A x \in heap' : x.act = "maybeRespond" => x \in heap /\ x # e
  BY <1>3, <1>6
<1>11. \A x \in heap' : ~Live(x)'
  BY <1>1, <1>2, <1>4, <1>10 DEF Endpointing, Live
<1>12. Endpointing'
  <2>1. \A x, y \in heap' : x.act = "maybeRespond" /\ y.act = "maybeRespond" /\ x.n = y.n => x = y
    BY <1>1, <1>10 DEF Endpointing
  <2>2. ASSUME NEW i \in DOMAIN heard' PROVE heard'[i].ts <= now' /\ heard'[i].turn <= agent'.turn
    <3>1. /\ heard[i].ts <= now /\ heard[i].turn <= agent.turn
          /\ heard[i].ts \in Nat /\ heard[i].turn \in Nat
      BY <1>1, <1>2, HeardTypes DEF Endpointing
    <3>. QED
      BY <1>2, <1>3, <1>4, <3>1
  <2>. QED
    BY <1>11, <2>1, <2>2 DEF Endpointing
<1>13. Answering'
  <2> SUFFICES ASSUME NEW i \in DOMAIN heard, heard[i].as = "utterance"
               PROVE  (AnswerSent(heard[i].ts) \/ AnswerStarting(heard[i].ts) \/ AnswerArmed)'
    BY <1>2 DEF Answering
  <2>1. CASE AnswerSent(heard[i].ts)
    BY <1>2, <2>1 DEF AnswerSent
  <2>2. CASE AnswerStarting(heard[i].ts)
    BY <1>2, <1>3, <2>2 DEF AnswerStarting
  <2>3. CASE AnswerArmed
    <3>1. heard[i].ts + EndpointMs <= e.at
      BY <1>1, <1>9 DEF Endpointing
    <3>2. heard[i].ts \in Nat /\ s.f.ts \in Nat /\ s.f.ts >= e.at
      BY <1>6, <1>7, <1>8, HeardTypes
    <3>3. s.f.ts >= heard[i].ts + EndpointMs
      BY <1>2, <3>1, <3>2, ConfigFacts
    <3>4. s \in heap'
      BY <1>3, <1>7
    <3>. QED
      BY <1>2, <1>7, <3>3, <3>4 DEF AnswerStarting
  <2>. QED
    BY <1>1, <2>1, <2>2, <2>3 DEF Answering
<1>. QED
  BY <1>12, <1>13 DEF UtteranceInv

LEMMA AnswerSends ==
  ASSUME TypeOK, HeapFits, TurnInv, UtteranceInv, NEW e \in heap, AgentSends(e)
  PROVE  UtteranceInv'
<1> DEFINE f == SentBy(e)
<1>1. Endpointing /\ Answering
  BY DEF UtteranceInv
<1>2. agent.talking /\ f \in Frames
  BY SendContext
<1>3. PICK new : Fired(e, new) /\ \A x \in new : x.act = "recv"
  BY AgentSendsFired
<1>4. heap' = (heap \ {e}) \cup new /\ now \in Nat /\ now' \in Nat /\ now <= now'
  BY <1>3, NotPast DEF Fired
<1>5. heard' = heard /\ air' = Append(air, f) /\ e.act \in SendActs
  BY AgentSendsStep
<1>6. agent'.turn = agent.turn /\ agent'.speechGen = agent.speechGen
  BY AgentSendsAgent
<1>7. e.act = "sendTurnStart" => f = e.f /\ f.kind = "turn_start"
  <2>1. e \in Events
    BY AgentSendsStep
  <2>. QED
    BY <2>1, SendContext, SentByFacts
<1>8. air \in Seq(Frames)
  BY DEF TypeOK
<1>. HIDE DEF f
<1>9. \A x \in heap' : x.act = "maybeRespond" => x \in heap
  BY <1>3, <1>4
<1>10. \A x \in heap' : ~Live(x)'
  BY <1>1, <1>2, <1>6, <1>9 DEF Endpointing, Live
<1>11. Endpointing'
  <2>1. \A x, y \in heap' : x.act = "maybeRespond" /\ y.act = "maybeRespond" /\ x.n = y.n => x = y
    BY <1>1, <1>9 DEF Endpointing
  <2>2. ASSUME NEW i \in DOMAIN heard' PROVE heard'[i].ts <= now' /\ heard'[i].turn <= agent'.turn
    <3>1. heard[i].ts <= now /\ heard[i].turn <= agent.turn /\ heard[i].ts \in Nat
      BY <1>1, <1>5, HeardTypes DEF Endpointing
    <3>. QED
      BY <1>4, <1>5, <1>6, <3>1
  <2>. QED
    BY <1>10, <2>1, <2>2 DEF Endpointing
<1>12. Answering'
  <2> SUFFICES ASSUME NEW i \in DOMAIN heard, heard[i].as = "utterance"
               PROVE  (AnswerSent(heard[i].ts) \/ AnswerStarting(heard[i].ts) \/ AnswerArmed)'
    BY <1>5 DEF Answering
  <2> DEFINE t == heard[i].ts
  <2>1. CASE AnswerSent(t)
    <3>1. \A u : AnswerSent(u) => AnswerSent(u)'
      BY <1>2, <1>5, AnswerStays
    <3>. QED
      BY <1>5, <2>1, <3>1 DEF AnswerSent
  <2>2. CASE AnswerStarting(t)
    <3>1. PICK s \in heap : s.act = "sendTurnStart" /\ s.f.ts >= t + EndpointMs
      BY <2>2 DEF AnswerStarting
    <3>2. CASE s = e
      <4>1. /\ Len(air) + 1 \in DOMAIN air' /\ air'[Len(air) + 1] = f
        <5>1. /\ DOMAIN air' = 1 .. Len(air) + 1 /\ Len(air) \in Nat
              /\ air'[Len(air) + 1] = f
          BY <1>2, <1>5, <1>8, Appended
        <5>. QED
          BY <5>1
      <4>2. f.kind = "turn_start" /\ f.ts >= t + EndpointMs
        BY <1>7, <3>1, <3>2
      <4>. QED
        BY <1>5, <4>1, <4>2 DEF AnswerSent
    <3>3. CASE s # e
      <4>1. s \in heap'
        BY <1>4, <3>1, <3>3
      <4>. QED
        BY <1>5, <3>1, <4>1 DEF AnswerStarting
    <3>. QED
      BY <3>2, <3>3
  <2>3. ~AnswerArmed
    BY <1>2 DEF AnswerArmed
  <2>. QED
    BY <1>1, <2>1, <2>2, <2>3 DEF Answering
<1>. QED
  BY <1>11, <1>12 DEF UtteranceInv

LEMMA UtteranceStep ==
  ASSUME TypeOK, HeapFits, TurnInv, UtteranceInv, NEW e \in heap, Fires(e)
  PROVE  UtteranceInv'
<1>1. CASE Speak(e)
  <2> DEFINE x == Event(e.at, e.f.seq, "hear", 0, e.f)
  <2>1. /\ e.act = "speak" /\ Fired(e, {x}) /\ x.act = "hear"
        /\ agent' = agent /\ air' = air /\ heard' = heard
    BY <1>1, SpeakStep
  <2>2. ~Live(e)
    BY <2>1 DEF Live
  <2>. HIDE DEF x
  <2>. QED
    BY <2>1, <2>2, AnswerQuiet
<1>2. CASE ReceiveTurnStart(e)
  <2>1. PICK new : Fired(e, new) /\ BargesIn(e, new)
    BY <1>2, ReceiveTurnStartStep
  <2>2. e.act = "recv" /\ agent' = agent /\ air' = air /\ heard' = heard
    BY <1>2, ReceiveTurnStartStep
  <2>3. \A x \in new : x.act # "maybeRespond"
    BY <2>1 DEF BargesIn, Burst, Event
  <2>4. ~Live(e)
    BY <2>2 DEF Live
  <2>. QED
    BY <2>1, <2>2, <2>3, <2>4, AnswerQuiet
<1>3. CASE ReceiveOther(e)
  <2>1. e.act = "recv" /\ Fired(e, {}) /\ agent' = agent /\ air' = air /\ heard' = heard
    BY <1>3, ReceiveOtherStep
  <2>2. ~Live(e)
    BY <2>1 DEF Live
  <2>. QED
    BY <2>1, <2>2, AnswerQuiet
<1>4. CASE HearBargeIn(e)
  <2> DEFINE x == EarlyEnd(e)
  <2>1. /\ e.act = "hear" /\ agent.talking /\ Fired(e, {x}) /\ x.act = "emitTurnEnd"
        /\ Hearing(e, "barge_in") \in Hearings
        /\ heard' = Append(heard, Hearing(e, "barge_in")) /\ air' = air
    BY <1>4, HearBargeInStep
  <2>2. /\ agent'.talking = agent.talking /\ agent'.turn = agent.turn
        /\ agent'.speechGen = agent.speechGen
    BY <1>4, HearBargeInAgent
  <2>3. agent'.talking
    BY <2>1, <2>2
  <2>. HIDE DEF x
  <2>4. \A y \in {x} : y.act # "maybeRespond"
    BY <2>1
  <2>. QED
    BY <2>1, <2>2, <2>3, <2>4, AnswerIgnored
<1>5. CASE HearWhileTalking(e)
  <2>1. /\ e.act = "hear" /\ agent.talking /\ Fired(e, {})
        /\ Hearing(e, "ignored") \in Hearings
        /\ heard' = Append(heard, Hearing(e, "ignored")) /\ air' = air /\ agent' = agent
    BY <1>5, HearWhileTalkingStep
  <2>. QED
    BY <2>1, AnswerIgnored
<1>6. CASE HearUtterance(e)
  BY <1>6, AnswerUtterance
<1>7. CASE TimerIsStale(e)
  <2>1. Stale(e) /\ Fired(e, {}) /\ agent' = agent /\ air' = air /\ heard' = heard
    BY <1>7, TimerIsStaleStep
  <2>2. e.act # "sendTurnStart"
    BY <2>1 DEF Stale
  <2>3. Live(e) => agent.talking
    BY <2>1 DEF Stale, StaleResponse, Live
  <2>. QED
    BY <2>1, <2>2, <2>3, AnswerQuiet
<1>8. CASE Respond(e)
  BY <1>8, AnswerRespond
<1>9. CASE AgentSends(e)
  BY <1>9, AnswerSends
<1>. QED
  BY <1>1, <1>2, <1>3, <1>4, <1>5, <1>6, <1>7, <1>8, <1>9, FiresCases

LEMMA UtteranceInit == Init => UtteranceInv
<1> SUFFICES ASSUME Init PROVE UtteranceInv
  OBVIOUS
<1>1. DOMAIN heard = {}
  BY DEF Init
<1>2. \A x \in heap : x.act # "maybeRespond"
  BY SpeechOnly
<1>. QED
  BY <1>1, <1>2 DEF UtteranceInv, Endpointing, Answering, Live

LEMMA UtteranceInvariant == Spec => []UtteranceInv
<1>1. Init => UtteranceInv
  BY UtteranceInit
<1>2. TypeInv /\ HeapFits /\ TurnInv /\ UtteranceInv /\ [Next]_vars => UtteranceInv'
  <2> SUFFICES ASSUME TypeInv, HeapFits, TurnInv, UtteranceInv, [Next]_vars PROVE UtteranceInv'
    OBVIOUS
  <2>1. ASSUME NEW e \in heap, Fires(e) PROVE UtteranceInv'
    BY <2>1, UtteranceStep DEF TypeInv
  <2>2. ASSUME UNCHANGED vars PROVE UtteranceInv'
    BY <2>2 DEF vars, UtteranceInv, Endpointing, Answering, AnswerSent, AnswerStarting,
                AnswerArmed, Live
  <2>. QED
    BY <2>1, <2>2 DEF Next, Quiescent
<1>. QED
  BY <1>1, <1>2, TypeInvariant, TurnInvariant, PTL DEF Spec

(* Whatever the agent heard while idle is answered once nothing is left to *)
(* do: a timer that is still current stands for every utterance so far,    *)
(* and the turn it starts begins EndpointMs or more after each of them.    *)
THEOREM UtterancesAnswered == Spec => []EveryUtteranceAnswered
<1>1. UtteranceInv => EveryUtteranceAnswered
  BY DEF UtteranceInv, Answering, AnswerSent, AnswerStarting, AnswerArmed,
         EveryUtteranceAnswered, Done
<1>. QED
  BY <1>1, UtteranceInvariant, PTL

-----------------------------------------------------------------------------
(* The stop.                                                               *)

LEMMA AirStep ==
  ASSUME TypeOK, NEW f \in Frames, air' = Append(air, f)
  PROVE  /\ \A j \in DOMAIN air : j \in DOMAIN air' /\ air'[j] = air[j]
         /\ \E j \in DOMAIN air' : air'[j] = f
         /\ \A j \in DOMAIN air' : (j \in DOMAIN air /\ air'[j] = air[j]) \/ air'[j] = f
<1>1. air \in Seq(Frames)
  BY DEF TypeOK
<1>. QED
  BY <1>1, Grown

LEMMA HeardAppended ==
  ASSUME TypeOK, NEW h \in Hearings, heard' = Append(heard, h)
  PROVE  /\ \A i \in DOMAIN heard : i \in DOMAIN heard' /\ heard'[i] = heard[i]
         /\ \E i \in DOMAIN heard' : heard'[i] = h
         /\ \A i \in DOMAIN heard' : (i \in DOMAIN heard /\ heard'[i] = heard[i]) \/ heard'[i] = h
<1>1. heard \in Seq(Hearings)
  BY DEF TypeOK
<1>. QED
  BY <1>1, Grown

LEMMA AirPastStep ==
  ASSUME TypeOK, AirPast, NEW e, NEW new, Fired(e, new),
         \/ air' = air
         \/ \E f \in Frames : air' = Append(air, f) /\ f.ts = e.at
  PROVE  AirPast'
<1>1. now \in Nat /\ e.at \in Nat /\ now <= e.at /\ now' = e.at
  BY NotPast
<1>2. ASSUME NEW j \in DOMAIN air PROVE air[j].ts <= now'
  <2>1. air[j].ts \in Nat /\ air[j].ts <= now
    BY AirTypes DEF AirPast
  <2>. QED
    BY <1>1, <2>1
<1>3. CASE air' = air
  BY <1>2, <1>3 DEF AirPast
<1>4. ASSUME NEW f \in Frames, air' = Append(air, f), f.ts = e.at PROVE AirPast'
  <2>1. f.ts <= now'
    BY <1>1, <1>4
  <2>2. \A j \in DOMAIN air' : (j \in DOMAIN air /\ air'[j] = air[j]) \/ air'[j] = f
    BY <1>4, AirStep
  <2>. QED
    BY <1>2, <2>1, <2>2 DEF AirPast
<1>. QED
  BY <1>3, <1>4

LEMMA StopsStay ==
  ASSUME TypeOK, NEW h \in Hearings, Stops(h),
         \/ air' = air
         \/ \E f \in Frames :
              /\ air' = Append(air, f)
              /\ f.kind = "agent" /\ f.turn = h.turn => f.ts <= StopAt(h),
         h.turn = agent'.turn => agent'.interrupted /\ agent'.stopAt = StopAt(h),
         Closing(h) => Closed(h)' \/ Closing(h)'
  PROVE  Stops(h)'
<1>1. CASE air' = air
  BY <1>1 DEF Stops, Closed, StopAt
<1>2. ASSUME NEW f \in Frames, air' = Append(air, f),
             f.kind = "agent" /\ f.turn = h.turn => f.ts <= StopAt(h)
      PROVE  Stops(h)'
  <2>1. /\ \A j \in DOMAIN air : j \in DOMAIN air' /\ air'[j] = air[j]
        /\ \A j \in DOMAIN air' : (j \in DOMAIN air /\ air'[j] = air[j]) \/ air'[j] = f
    BY <1>2, AirStep
  <2>2. Closed(h) => Closed(h)'
    BY <2>1 DEF Closed, StopAt
  <2>3. ASSUME NEW j \in DOMAIN air', air'[j].kind = "agent", air'[j].turn = h.turn
        PROVE  air'[j].ts <= StopAt(h)
    BY <1>2, <2>1, <2>3 DEF Stops
  <2>4. \A j \in DOMAIN air' :
          air'[j].kind = "agent" /\ air'[j].turn = h.turn => air'[j].ts <= StopAt(h)
    BY <2>3
  <2>5. Closed(h)' \/ Closing(h)'
    BY <2>2 DEF Stops
  <2>. QED
    BY <2>4, <2>5 DEF Stops, StopAt
<1>. QED
  BY <1>1, <1>2

LEMMA ClosingStays ==
  ASSUME NEW h, NEW e, NEW new, Fired(e, new),
         agent.talking => ~(e.act = "emitTurnEnd" /\ e.n = agent.turn),
         agent'.turn = agent.turn, agent'.talking = agent.talking, Closing(h)
  PROVE  Closing(h)'
<1>1. heap' = (heap \ {e}) \cup new
  BY DEF Fired
<1>. QED
  BY <1>1 DEF Closing, StopAt

(* A step that neither hears a barge-in, nor starts nor ends a turn, nor   *)
(* sends audio too late.                                                   *)
LEMMA StopQuiet ==
  ASSUME TypeOK, StopInv, NEW e, NEW new, Fired(e, new),
         agent.talking => ~(e.act = "emitTurnEnd" /\ e.n = agent.turn),
         agent'.turn = agent.turn, agent'.talking = agent.talking,
         agent'.interrupted = agent.interrupted, agent'.stopAt = agent.stopAt,
         \/ heard' = heard
         \/ \E h \in Hearings : heard' = Append(heard, h) /\ h.as # "barge_in",
         \/ air' = air
         \/ \E f \in Frames :
              /\ air' = Append(air, f) /\ f.ts = e.at
              /\ f.kind = "agent" =>
                   f.turn = agent.turn /\ (agent.interrupted => f.ts <= agent.stopAt)
  PROVE  StopInv'
<1>1. AirPast'
  <2>1. air' = air \/ \E f \in Frames : air' = Append(air, f) /\ f.ts = e.at
    OBVIOUS
  <2>. QED
    BY <2>1, AirPastStep DEF StopInv
<1>2. ASSUME NEW h \in Hearings, Stops(h) PROVE Stops(h)'
  <2>1. h.turn = agent.turn => agent.interrupted /\ agent.stopAt = StopAt(h)
    BY <1>2 DEF Stops
  <2>2. Closing(h) => Closing(h)'
    BY ClosingStays
  <2>3. \/ air' = air
        \/ \E f \in Frames :
             /\ air' = Append(air, f)
             /\ f.kind = "agent" /\ f.turn = h.turn => f.ts <= StopAt(h)
    BY <2>1
  <2>. QED
    BY <1>2, <2>1, <2>2, <2>3, StopsStay
<1>3. \A i \in DOMAIN heard : heard[i] \in Hearings
  BY ElementOfSeq, LenProperties DEF TypeOK
<1>4. \A i \in DOMAIN heard' : heard'[i].as = "barge_in" => i \in DOMAIN heard /\ heard'[i] = heard[i]
  <2>1. ASSUME NEW h \in Hearings, heard' = Append(heard, h), h.as # "barge_in",
               NEW i \in DOMAIN heard', heard'[i].as = "barge_in"
        PROVE  i \in DOMAIN heard /\ heard'[i] = heard[i]
    BY <2>1, HeardAppended
  <2>. QED
    BY <2>1
<1>5. \A i \in DOMAIN heard' : heard'[i].as = "barge_in" =>
        heard'[i] \in Hearings /\ Stops(heard[i]) /\ heard'[i] = heard[i]
  BY <1>3, <1>4 DEF StopInv
<1>6. ASSUME NEW i \in DOMAIN heard', heard'[i].as = "barge_in" PROVE Stops(heard[i])'
  <2> DEFINE h == heard[i]
  <2>1. \A g \in Hearings : Stops(g) => Stops(g)'
    BY <1>2
  <2>2. h \in Hearings /\ Stops(h) /\ heard'[i] = h
    BY <1>5, <1>6
  <2>. QED
    BY <2>1, <2>2 DEF Stops, Closed, Closing, StopAt
<1>. QED
  BY <1>1, <1>6 DEF StopInv

LEMMA StopAssembled ==
  ASSUME TypeOK, StopInv, AirPast',
         \A i \in DOMAIN heard : \A h \in Hearings : heard[i] = h /\ Stops(h) => Stops(h)',
         \/ heard' = heard
         \/ \E h \in Hearings : heard' = Append(heard, h) /\ (h.as = "barge_in" => Stops(h)')
  PROVE  StopInv'
<1>1. \A i \in DOMAIN heard : heard[i] \in Hearings
  BY ElementOfSeq, LenProperties DEF TypeOK
<1>2. ASSUME NEW i \in DOMAIN heard, heard[i].as = "barge_in", heard'[i] = heard[i]
      PROVE  Stops(heard[i])'
  <2> DEFINE h == heard[i]
  <2>1. \A g \in Hearings : h = g /\ Stops(g) => Stops(g)'
    OBVIOUS
  <2>2. h \in Hearings /\ Stops(h) /\ heard'[i] = h
    BY <1>1, <1>2 DEF StopInv
  <2>. QED
    BY <2>1, <2>2 DEF Stops, Closed, Closing, StopAt
<1>3. CASE heard' = heard
  <2>1. \A i \in DOMAIN heard' : heard'[i].as = "barge_in" => Stops(heard[i])'
    BY <1>2, <1>3
  <2>. QED
    BY <2>1 DEF StopInv
<1>4. ASSUME NEW h \in Hearings, heard' = Append(heard, h), h.as = "barge_in" => Stops(h)'
      PROVE  StopInv'
  <2>1. \A i \in DOMAIN heard' : (i \in DOMAIN heard /\ heard'[i] = heard[i]) \/ heard'[i] = h
    BY <1>4, HeardAppended
  <2>2. ASSUME NEW i \in DOMAIN heard', heard'[i].as = "barge_in" PROVE Stops(heard[i])'
    <3>1. CASE i \in DOMAIN heard /\ heard'[i] = heard[i]
      BY <1>2, <2>2, <3>1
    <3>2. CASE heard'[i] = h
      BY <1>4, <2>2, <3>2 DEF Stops, Closed, Closing, StopAt
    <3>. QED
      BY <2>1, <3>1, <3>2
  <2>. QED
    BY <2>2 DEF StopInv
<1>. QED
  BY <1>3, <1>4

LEMMA StopBargeIn ==
  ASSUME TypeOK, StopInv, NEW e \in heap, HearBargeIn(e)
  PROVE  StopInv'
<1> DEFINE x == EarlyEnd(e)
           g == Hearing(e, "barge_in")
<1>1. /\ agent.talking /\ ~agent.interrupted /\ Fired(e, {x}) /\ x.act = "emitTurnEnd"
      /\ x.n = agent.turn /\ x.at = e.at + FakeConfig.StopLatencyMs + FrameMs
      /\ g \in Hearings /\ heard' = Append(heard, g) /\ air' = air
  BY HearBargeInStep
<1>2. /\ agent'.turn = agent.turn /\ agent'.talking = agent.talking
      /\ agent'.interrupted = TRUE /\ agent'.stopAt = e.at + FakeConfig.StopLatencyMs
  BY HearBargeInAgent
<1>3. g.ts = e.at /\ g.turn = agent.turn
  BY DEF Hearing
<1>. HIDE DEF x, g
<1>4. now \in Nat /\ e.at \in Nat /\ now <= e.at
  BY <1>1, NotPast
<1>5. AirPast'
  BY <1>1, AirPastStep DEF StopInv
<1>6. ASSUME NEW h \in Hearings, Stops(h) PROVE Stops(h)'
  <2>1. h.turn # agent.turn
    BY <1>1, <1>6 DEF Stops
  <2>2. ~Closing(h)
    BY <2>1 DEF Closing
  <2>. QED
    BY <1>1, <1>2, <1>6, <2>1, <2>2, StopsStay
<1>7. ASSUME NEW h \in Hearings, h = g PROVE Stops(h)'
  <2>1. h.ts = e.at /\ h.turn = agent.turn
    BY <1>3, <1>7
  <2>2. agent'.interrupted /\ agent'.stopAt = StopAt(h)
    BY <1>2, <2>1 DEF StopAt
  <2>3. ASSUME NEW j \in DOMAIN air PROVE air[j].ts <= StopAt(h)
    <3>1. air[j].ts \in Nat /\ air[j].ts <= now
      BY AirTypes DEF StopInv, AirPast
    <3>. QED
      BY <1>4, <2>1, <3>1, ConfigFacts DEF StopAt
  <2>4. x \in heap' /\ x.act = "emitTurnEnd" /\ x.n = agent'.turn /\ x.at = StopAt(h) + FrameMs
    BY <1>1, <1>2, <2>1 DEF Fired, StopAt
  <2>5. Closing(h)'
    BY <1>1, <1>2, <2>1, <2>4 DEF Closing, StopAt
  <2>. QED
    BY <1>1, <2>2, <2>3, <2>5 DEF Stops, StopAt
<1>8. \E h \in Hearings : heard' = Append(heard, h) /\ (h.as = "barge_in" => Stops(h)')
  BY <1>1, <1>7
<1>. QED
  BY <1>5, <1>6, <1>8, StopAssembled

LEMMA StopRespond ==
  ASSUME TypeOK, UtteranceInv, StopInv, NEW e \in heap, Respond(e)
  PROVE  StopInv'
<1>1. /\ ~agent.talking /\ Fired(e, TurnEvents(agent.turn + 1, e.at))
      /\ heard' = heard /\ air' = air
  BY RespondStep
<1>2. agent'.turn = agent.turn + 1 /\ agent.turn \in Nat
  BY RespondAgent, AgentTypes
<1>3. AirPast'
  BY <1>1, AirPastStep DEF StopInv
<1>4. ASSUME NEW i \in DOMAIN heard, NEW h \in Hearings, heard[i] = h, Stops(h)
      PROVE  Stops(h)'
  <2>1. h.turn \in Nat /\ h.turn <= agent.turn
    BY <1>4, HeardTypes DEF UtteranceInv, Endpointing
  <2>2. h.turn # agent'.turn
    BY <1>2, <2>1
  <2>3. ~Closing(h)
    BY <1>1 DEF Closing
  <2>. QED
    BY <1>1, <1>4, <2>2, <2>3, StopsStay
<1>. QED
  BY <1>1, <1>3, <1>4, StopAssembled

LEMMA StopEnd ==
  ASSUME TypeOK, HeapFits, TurnInv, StopInv, NEW e \in heap, AgentSends(e),
         e.act = "emitTurnEnd"
  PROVE  StopInv'
<1> DEFINE f == SentBy(e)
<1>1. /\ e.n = agent.turn /\ f.turn = agent.turn /\ f \in Frames /\ f.kind = "turn_end"
      /\ f.ts = e.at
  BY SendContext
<1>2. heard' = heard /\ air' = Append(air, f)
  BY AgentSendsStep
<1>3. /\ agent'.turn = agent.turn /\ agent'.interrupted = agent.interrupted
      /\ agent'.stopAt = agent.stopAt
  BY AgentSendsAgent
<1>4. PICK new : Fired(e, new)
  BY AgentSendsFired
<1>. HIDE DEF f
<1>5. AirPast'
  BY <1>1, <1>2, <1>4, AirPastStep DEF StopInv
<1>6. ASSUME NEW h \in Hearings, Stops(h) PROVE Stops(h)'
  <2>1. ASSUME Closing(h) PROVE Closed(h)'
    <3>1. PICK x \in heap : x.at = StopAt(h) + FrameMs
      BY <2>1 DEF Closing
    <3>2. e.at <= StopAt(h) + FrameMs
      BY <1>4, <3>1, NotPast
    <3>3. \E j \in DOMAIN air' : air'[j] = f
      BY <1>1, <1>2, AirStep
    <3>4. h.turn = agent.turn
      BY <2>1 DEF Closing
    <3>. QED
      BY <1>1, <3>2, <3>3, <3>4 DEF Closed, StopAt
  <2>2. h.turn = agent'.turn => agent'.interrupted /\ agent'.stopAt = StopAt(h)
    BY <1>3, <1>6 DEF Stops
  <2>. QED
    BY <1>1, <1>2, <1>6, <2>1, <2>2, StopsStay
<1>. QED
  BY <1>2, <1>5, <1>6, StopAssembled

LEMMA StopStep ==
  ASSUME TypeOK, HeapFits, TurnInv, UtteranceInv, StopInv, NEW e \in heap, Fires(e)
  PROVE  StopInv'
<1>1. CASE Speak(e)
  BY <1>1, SpeakStep, StopQuiet
<1>2. CASE ReceiveTurnStart(e)
  BY <1>2, ReceiveTurnStartStep, StopQuiet
<1>3. CASE ReceiveOther(e)
  BY <1>3, ReceiveOtherStep, StopQuiet
<1>4. CASE HearBargeIn(e)
  BY <1>4, StopBargeIn
<1>5. CASE HearWhileTalking(e)
  <2>1. /\ e.act = "hear" /\ Fired(e, {}) /\ agent' = agent /\ air' = air
        /\ heard' = Append(heard, Hearing(e, "ignored"))
        /\ Hearing(e, "ignored") \in Hearings
    BY <1>5, HearWhileTalkingStep
  <2>2. Hearing(e, "ignored").as # "barge_in"
    BY DEF Hearing
  <2>. QED
    BY <2>1, <2>2, StopQuiet
<1>6. CASE HearUtterance(e)
  <2>1. /\ e.act = "hear" /\ Fired(e, {Armed(e)}) /\ air' = air
        /\ heard' = Append(heard, Hearing(e, "utterance"))
        /\ Hearing(e, "utterance") \in Hearings
    BY <1>6, HearUtteranceStep
  <2>2. Hearing(e, "utterance").as # "barge_in"
    BY DEF Hearing
  <2>3. /\ agent'.turn = agent.turn /\ agent'.talking = agent.talking
        /\ agent'.interrupted = agent.interrupted /\ agent'.stopAt = agent.stopAt
    BY <1>6, HearUtteranceAgent
  <2>. QED
    BY <2>1, <2>2, <2>3, StopQuiet
<1>7. CASE TimerIsStale(e)
  <2>1. Stale(e) /\ Fired(e, {}) /\ agent' = agent /\ air' = air /\ heard' = heard
    BY <1>7, TimerIsStaleStep
  <2>2. agent.talking => ~(e.act = "emitTurnEnd" /\ e.n = agent.turn)
    BY <2>1 DEF Stale, StaleEnd, TurnInv, Talking
  <2>. QED
    BY <2>1, <2>2, StopQuiet
<1>8. CASE Respond(e)
  BY <1>8, StopRespond
<1>9. CASE AgentSends(e)
  <2>1. CASE e.act = "emitTurnEnd"
    BY <1>9, <2>1, StopEnd
  <2>2. CASE e.act # "emitTurnEnd"
    <3> DEFINE f == SentBy(e)
    <3>1. /\ f.turn = agent.turn /\ f \in Frames /\ f.kind = e.f.kind /\ f.ts = e.at
          /\ e.act = "sendTurnStart" => f.kind = "turn_start"
      BY <1>9, SendContext
    <3>2. e.act \in SendActs /\ ~Stale(e) /\ heard' = heard /\ air' = Append(air, f)
      BY <1>9, AgentSendsStep
    <3>3. f.kind = "agent" => e.act = "emitAgentFrame"
      BY <2>2, <3>1, <3>2 DEF SendActs, EmitActs
    <3>4. e.f.ts = e.at
      BY <3>2 DEF HeapFits, Fits, SendActs
    <3>5. f.kind = "agent" /\ agent.interrupted => f.ts <= agent.stopAt
      <4>1. /\ e.at \in Nat /\ agent.stopAt \in Nat
        BY <1>9, AgentSendsStep, AgentTypes
      <4>2. f.kind = "agent" /\ agent.interrupted => ~(e.f.ts > agent.stopAt)
        BY <3>2, <3>3 DEF Stale, StaleFrame
      <4>. QED
        BY <3>1, <3>4, <4>1, <4>2
    <3>6. /\ agent'.turn = agent.turn /\ agent'.talking = agent.talking
          /\ agent'.interrupted = agent.interrupted /\ agent'.stopAt = agent.stopAt
      BY <1>9, <2>2, AgentSendsAgent
    <3>7. PICK new : Fired(e, new)
      BY <1>9, AgentSendsFired
    <3>. HIDE DEF f
    <3>. QED
      BY <2>2, <3>1, <3>2, <3>5, <3>6, <3>7, StopQuiet
  <2>. QED
    BY <2>1, <2>2
<1>. QED
  BY <1>1, <1>2, <1>3, <1>4, <1>5, <1>6, <1>7, <1>8, <1>9, FiresCases

LEMMA StopInvariant == Spec => []StopInv
<1>1. Init => StopInv
  BY DEF Init, StopInv, AirPast
<1>2. TypeInv /\ HeapFits /\ TurnInv /\ UtteranceInv /\ StopInv /\ [Next]_vars => StopInv'
  <2> SUFFICES ASSUME TypeInv, HeapFits, TurnInv, UtteranceInv, StopInv, [Next]_vars
               PROVE  StopInv'
    OBVIOUS
  <2>1. ASSUME NEW e \in heap, Fires(e) PROVE StopInv'
    BY <2>1, StopStep DEF TypeInv
  <2>2. ASSUME UNCHANGED vars PROVE StopInv'
    BY <2>2 DEF vars, StopInv, AirPast, Stops, Closed, Closing, StopAt
  <2>. QED
    BY <2>1, <2>2 DEF Next, Quiescent
<1>. QED
  BY <1>1, <1>2, TypeInvariant, TurnInvariant, UtteranceInvariant, PTL DEF Spec

(* A barge-in stops the agent: none of the turn's audio is sent later than *)
(* StopLatencyMs, and its TurnEnd a frame later at the latest, because the *)
(* early TurnEnd stays on the heap for as long as the turn is open, and    *)
(* nothing on the heap lies in the past.                                   *)
THEOREM StopsInTime == Spec => []StopsWithinLatency
<1>1. TypeInv /\ StopInv => StopsWithinLatency
  <2> SUFFICES ASSUME TypeOK, StopInv, NEW i \in DOMAIN heard, heard[i].as = "barge_in"
               PROVE  /\ \A j \in DOMAIN air :
                           air[j].kind = "agent" /\ air[j].turn = heard[i].turn =>
                             air[j].ts <= heard[i].ts + FakeConfig.StopLatencyMs
                      /\ now > heard[i].ts + FakeConfig.StopLatencyMs + FrameMs \/ Done =>
                           \E j \in DOMAIN air :
                             /\ air[j].kind = "turn_end" /\ air[j].turn = heard[i].turn
                             /\ air[j].ts <= heard[i].ts + FakeConfig.StopLatencyMs + FrameMs
    BY DEF TypeInv, StopsWithinLatency
  <2>1. Stops(heard[i])
    BY DEF StopInv
  <2>2. ASSUME Closing(heard[i])
        PROVE  ~(now > heard[i].ts + FakeConfig.StopLatencyMs + FrameMs) /\ ~Done
    <3>1. PICK x \in heap : x.at = StopAt(heard[i]) + FrameMs
      BY <2>2 DEF Closing
    <3>2. now \in Nat /\ x.at \in Nat /\ now <= x.at
      BY DEF TypeOK, Events
    <3>3. x.at = heard[i].ts + FakeConfig.StopLatencyMs + FrameMs
      BY <3>1 DEF StopAt
    <3>. QED
      BY <3>2, <3>3 DEF Done
  <2>. QED
    BY <2>1, <2>2 DEF Stops, Closed, StopAt
<1>. QED
  BY <1>1, TypeInvariant, StopInvariant, PTL

-----------------------------------------------------------------------------
(* The silence.                                                            *)

LEMMA LogTypes ==
  ASSUME TypeOK
  PROVE  \A i \in DOMAIN log : log[i] \in Entries /\ log[i].ts \in Nat
<1>1. log \in Seq(Entries)
  BY DEF TypeOK
<1>2. \A i \in DOMAIN log : log[i] \in Entries
  BY <1>1, ElementOfSeq, LenProperties
<1>. QED
  BY <1>2 DEF Entries

(* A step that says nothing; who hears something notes it.                 *)
LEMMA SilenceKept ==
  ASSUME TypeOK, SilenceInv, NEW e, NEW new, Fired(e, new),
         IF e.act = "hear"
         THEN \E h \in Hearings : heard' = Append(heard, h) /\ h.ts = e.at
         ELSE heard' = heard,
         \/ log' = log
         \/ \E y \in Entries : log' = Append(log, y) /\ y.type # "send"
  PROVE  SilenceInv'
<1>1. /\ heap' = (heap \ {e}) \cup new /\ now \in Nat /\ now' \in Nat /\ now <= now'
      /\ now' = e.at
  BY NotPast DEF Fired
<1>2. ASSUME NEW t, Voiced(t) PROVE Voiced(t)'
  <2>1. CASE e.act # "hear"
    BY <1>1, <1>2, <2>1 DEF Voiced
  <2>2. ASSUME e.act = "hear", NEW h \in Hearings, heard' = Append(heard, h), h.ts = e.at
        PROVE  Voiced(t)'
    <3>1. /\ \A i \in DOMAIN heard : i \in DOMAIN heard' /\ heard'[i] = heard[i]
          /\ \E i \in DOMAIN heard' : heard'[i] = h
      BY <2>2, HeardAppended
    <3>2. CASE \E k \in DOMAIN heard : heard[k].ts = t
      BY <3>1, <3>2 DEF Voiced
    <3>3. ASSUME NEW x \in heap, x.act = "hear", x.at = t PROVE Voiced(t)'
      <4>1. CASE x = e
        BY <2>2, <3>1, <3>3, <4>1 DEF Voiced
      <4>2. CASE x # e
        BY <1>1, <3>3, <4>2 DEF Voiced
      <4>. QED
        BY <4>1, <4>2
    <3>. QED
      BY <1>2, <3>2, <3>3 DEF Voiced
  <2>. QED
    BY <2>1, <2>2
<1>3. ASSUME NEW i \in DOMAIN log, log[i].type = "send"
      PROVE  log[i].ts <= now' /\ Voiced(log[i].ts)
  <2>1. log[i].ts \in Nat /\ log[i].ts <= now /\ Voiced(log[i].ts)
    BY <1>3, LogTypes DEF SilenceInv
  <2>. QED
    BY <1>1, <2>1
<1>4. \A i \in DOMAIN log' : log'[i].type = "send" => i \in DOMAIN log /\ log'[i] = log[i]
  <2>1. ASSUME NEW y \in Entries, log' = Append(log, y), y.type # "send",
               NEW i \in DOMAIN log', log'[i].type = "send"
        PROVE  i \in DOMAIN log /\ log'[i] = log[i]
    <3>1. log \in Seq(Entries)
      BY DEF TypeOK
    <3>2. \A j \in DOMAIN log' : (j \in DOMAIN log /\ log'[j] = log[j]) \/ log'[j] = y
      BY <2>1, <3>1, Grown
    <3>. QED
      BY <2>1, <3>2
  <2>. QED
    BY <2>1
<1>5. ASSUME NEW i \in DOMAIN log', log'[i].type = "send"
      PROVE  log'[i].ts <= now' /\ Voiced(log[i].ts)'
  <2>1. i \in DOMAIN log /\ log'[i] = log[i] /\ log[i].ts <= now' /\ Voiced(log[i].ts)
    BY <1>3, <1>4, <1>5
  <2> DEFINE t == log[i].ts
  <2>2. \A u : Voiced(u) => Voiced(u)'
    BY <1>2
  <2>. QED
    BY <2>1, <2>2 DEF Voiced
<1>. QED
  BY <1>5 DEF SilenceInv

LEMMA SilenceSpeak ==
  ASSUME TypeOK, HeapFits, SilenceInv, NEW e \in heap, Speak(e)
  PROVE  SilenceInv'
<1> DEFINE x == Event(e.at, e.f.seq, "hear", 0, e.f)
<1>1. e.act = "speak" /\ Fired(e, {x}) /\ x.at = e.at /\ x.act = "hear" /\ heard' = heard
  BY SpeakStep
<1>. HIDE DEF x
<1>2. /\ heap' = (heap \ {e}) \cup {x} /\ now \in Nat /\ now' \in Nat /\ now <= now'
      /\ now' = e.at
  BY <1>1, NotPast DEF Fired
<1>3. e.f.ts = e.at
  BY <1>1 DEF HeapFits, Fits, CallerActs
<1>4. /\ DOMAIN log = 1 .. Len(log) /\ DOMAIN log' = 1 .. Len(log') /\ Len(log) \in Nat
      /\ Len(log') \in Len(log) + 1 .. Len(log) + 2
      /\ \A i \in 1 .. Len(log) : log'[i] = log[i]
      /\ \A i \in Len(log) + 1 .. Len(log') : log'[i].ts = e.f.ts
  BY SpeakLog
<1>5. ASSUME NEW i \in DOMAIN log', log'[i].type = "send"
      PROVE  log'[i].ts <= now' /\ Voiced(log[i].ts)'
  <2>1. CASE i \in Len(log) + 1 .. Len(log')
    <3>1. log'[i].ts = e.at
      BY <1>3, <1>4, <2>1
    <3>2. x \in heap'
      BY <1>2
    <3>. QED
      BY <1>1, <1>2, <3>1, <3>2 DEF Voiced
  <2>2. CASE i \in 1 .. Len(log)
    <3>1. log'[i] = log[i] /\ i \in DOMAIN log
      BY <1>4, <2>2
    <3>2. log[i].ts \in Nat /\ log[i].ts <= now /\ Voiced(log[i].ts)
      BY <1>5, <3>1, LogTypes DEF SilenceInv
    <3>3. log'[i].ts <= now'
      BY <1>2, <3>1, <3>2
    <3>. QED
      BY <1>1, <1>2, <3>1, <3>2, <3>3 DEF Voiced
  <2>3. i \in 1 .. Len(log) \/ i \in Len(log) + 1 .. Len(log')
    BY <1>4
  <2>. QED
    BY <2>1, <2>2, <2>3
<1>. QED
  BY <1>5 DEF SilenceInv

LEMMA SilenceStep ==
  ASSUME TypeOK, HeapFits, SilenceInv, NEW e \in heap, Fires(e)
  PROVE  SilenceInv'
<1>1. CASE Speak(e)
  BY <1>1, SilenceSpeak
<1>2. CASE ReceiveTurnStart(e)
  <2>1. /\ e.act = "recv" /\ \E new : Fired(e, new) /\ BargesIn(e, new)
        /\ heard' = heard /\ log' = Append(log, Entry("turn_start", e.at, obsTurn + 1, e.f))
        /\ Entry("turn_start", e.at, obsTurn + 1, e.f) \in Entries
    BY <1>2, ReceiveTurnStartStep
  <2>2. Entry("turn_start", e.at, obsTurn + 1, e.f).type # "send"
    BY DEF Entry
  <2>. QED
    BY <2>1, <2>2, SilenceKept
<1>3. CASE ReceiveOther(e)
  <2>1. /\ e.act = "recv" /\ Fired(e, {}) /\ heard' = heard
    BY <1>3, ReceiveOtherStep
  <2>2. PICK type \in {"turn_end", "recv"} :
          /\ log' = Append(log, Entry(type, e.at, obsTurn, e.f))
          /\ Entry(type, e.at, obsTurn, e.f) \in Entries
    BY <1>3, ReceiveOtherStep
  <2>3. Entry(type, e.at, obsTurn, e.f).type # "send"
    BY DEF Entry
  <2>. QED
    BY <2>1, <2>2, <2>3, SilenceKept
<1>4. CASE HearBargeIn(e) \/ HearWhileTalking(e) \/ HearUtterance(e)
  <2>1. /\ e.act = "hear" /\ log' = log /\ \E new : Fired(e, new)
        /\ \E as : Hearing(e, as) \in Hearings /\ heard' = Append(heard, Hearing(e, as))
    BY <1>4, HearBargeInStep, HearWhileTalkingStep, HearUtteranceStep
  <2>2. \A as : Hearing(e, as).ts = e.at
    BY DEF Hearing
  <2>. QED
    BY <2>1, <2>2, SilenceKept
<1>5. CASE TimerIsStale(e)
  <2>1. Stale(e) /\ Fired(e, {}) /\ log' = log /\ heard' = heard
    BY <1>5, TimerIsStaleStep
  <2>2. e.act # "hear"
    BY <2>1 DEF Stale
  <2>. QED
    BY <2>1, <2>2, SilenceKept
<1>6. CASE Respond(e)
  <2>1. /\ e.act = "maybeRespond" /\ log' = log /\ heard' = heard
        /\ Fired(e, TurnEvents(agent.turn + 1, e.at))
    BY <1>6, RespondStep
  <2>. QED
    BY <2>1, SilenceKept
<1>7. CASE AgentSends(e)
  <2>1. e.act \in SendActs /\ log' = log /\ heard' = heard
    BY <1>7, AgentSendsStep
  <2>2. \E new : Fired(e, new)
    BY <1>7, AgentSendsFired
  <2>3. e.act # "hear"
    BY <2>1 DEF SendActs, EmitActs
  <2>. QED
    BY <2>1, <2>2, <2>3, SilenceKept
<1>. QED
  BY <1>1, <1>2, <1>3, <1>4, <1>5, <1>6, <1>7, FiresCases

LEMMA SilenceInvariant == Spec => []SilenceInv
<1>1. Init => SilenceInv
  BY DEF Init, SilenceInv
<1>2. TypeInv /\ HeapFits /\ TurnInv /\ SilenceInv /\ [Next]_vars => SilenceInv'
  <2> SUFFICES ASSUME TypeInv, HeapFits, SilenceInv, [Next]_vars PROVE SilenceInv'
    OBVIOUS
  <2>1. ASSUME NEW e \in heap, Fires(e) PROVE SilenceInv'
    BY <2>1, SilenceStep DEF TypeInv
  <2>2. ASSUME UNCHANGED vars PROVE SilenceInv'
    BY <2>2 DEF vars, SilenceInv, Voiced
  <2>. QED
    BY <2>1, <2>2 DEF Next, Quiescent
<1>. QED
  BY <1>1, <1>2, TypeInvariant, TurnInvariant, PTL DEF Spec

(* All that the caller will still say, or that is on its way, comes later  *)
(* than the timer that fires: at the same instant speech would have gone   *)
(* first, being numbered below the timers' band.                           *)
LEMMA SpeechBeforeTimers ==
  ASSUME TypeOK, HeapFits, NEW e, NEW new, Fired(e, new), e.act = "maybeRespond",
         NEW x \in heap, x.act \in CallerActs
  PROVE  x.at > e.at
<1>1. /\ e.at \in Nat /\ e.seq \in Nat /\ x.at \in Nat /\ x.seq \in Nat /\ e.at <= x.at
      /\ x.at = e.at => e.seq <= x.seq
  <2>1. x.at = e.at => e.seq <= x.seq
    BY DEF Fired
  <2>. QED
    BY <2>1, NotPast
<1>2. e.seq >= MaxSeq
  <2>1. Fits(e, callerSeq, agent.speechGen, agent.turn)
    BY DEF HeapFits, Fired
  <2>. QED
    BY <2>1 DEF Fits, CallerActs
<1>3. x.seq < callerSeq
  BY DEF HeapFits, Fits
<1>4. callerSeq \in Nat /\ callerSeq < MaxSeq
  BY CallerTypes
<1>5. \A a, b, c, m \in Nat : a >= m /\ b < c /\ c < m => ~(a <= b)
  OBVIOUS
<1>6. MaxSeq \in Nat
  BY DEF MaxSeq
<1>7. ~(e.seq <= x.seq)
  BY <1>1, <1>2, <1>3, <1>4, <1>5, <1>6
<1>. QED
  BY <1>1, <1>7

(* The agent answers only after silence: whatever was said before has been *)
(* heard, and armed the timer anew, and nothing said at this instant is    *)
(* still on its way.                                                       *)
THEOREM AnswersFollowSilence == Spec => AnswersAfterSilence
<1> DEFINE Answers ==
      agent'.turn # agent.turn =>
        /\ \A i \in DOMAIN log : log[i].type = "send" => log[i].ts <= now' - EndpointMs
        /\ \A e \in heap : e.act \in {"speak", "hear"} => e.at > now'
<1>1. TypeInv /\ HeapFits /\ TurnInv /\ UtteranceInv /\ SilenceInv /\ [Next]_vars
        => [Answers]_vars
  <2> SUFFICES ASSUME TypeOK, HeapFits, UtteranceInv, SilenceInv, NEW e \in heap, Fires(e),
                      agent'.turn # agent.turn
               PROVE  /\ \A i \in DOMAIN log :
                           log[i].type = "send" => log[i].ts <= now' - EndpointMs
                      /\ \A x \in heap : x.act \in {"speak", "hear"} => x.at > now'
    BY DEF TypeInv, Next, Quiescent
  <2>1. Respond(e)
    BY FiresCases, SpeakStep, ReceiveTurnStartStep, ReceiveOtherStep, HearBargeInAgent,
       HearWhileTalkingStep, HearUtteranceAgent, TimerIsStaleStep, AgentSendsAgent
  <2>2. /\ e.act = "maybeRespond" /\ e.n = agent.speechGen
        /\ Fired(e, TurnEvents(agent.turn + 1, e.at))
    BY <2>1, RespondStep
  <2>3. now \in Nat /\ e.at \in Nat /\ now <= e.at /\ now' = e.at
    BY <2>2, NotPast
  <2>4. ASSUME NEW x \in heap, x.act \in CallerActs PROVE x.at > e.at
    BY <2>2, <2>4, SpeechBeforeTimers
  <2>5. ASSUME NEW i \in DOMAIN log, log[i].type = "send"
        PROVE  log[i].ts <= now' - EndpointMs
    <3>1. log[i].ts \in Nat /\ log[i].ts <= now /\ Voiced(log[i].ts)
      BY <2>5, LogTypes DEF SilenceInv
    <3>2. ASSUME NEW x \in heap, x.act = "hear", x.at = log[i].ts PROVE FALSE
      <4>1. x.at > e.at
        BY <2>4, <3>2 DEF CallerActs
      <4>. QED
        BY <2>3, <3>1, <3>2, <4>1
    <3>3. PICK k \in DOMAIN heard : heard[k].ts = log[i].ts
      BY <3>1, <3>2 DEF Voiced
    <3>4. heard[k].ts + EndpointMs <= e.at
      BY <2>2 DEF UtteranceInv, Endpointing, Live
    <3>. QED
      BY <2>3, <3>1, <3>3, <3>4, ConfigFacts
  <2>. QED
    BY <2>3, <2>4, <2>5 DEF CallerActs
<1>2. AnswersAfterSilence <=> [][Answers]_vars
  BY DEF AnswersAfterSilence
<1>. QED
  BY <1>1, <1>2, TypeInvariant, TurnInvariant, UtteranceInvariant, SilenceInvariant, PTL DEF Spec

-----------------------------------------------------------------------------
(* One response per burst.                                                 *)

LEMMA SourceFacts ==
  ASSUME NEW from \in Sources
  PROVE  from[2] \in Nat
BY DEF Sources

LEMMA AnsweredTypes ==
  ASSUME TypeOK
  PROVE  \A i \in DOMAIN answered : answered[i] \in Sources
BY ElementOfSeq, LenProperties DEF TypeOK

LEMMA HeapSources ==
  ASSUME TypeOK
  PROVE  \A x \in heap : x.f.from \in Sources /\ x.at \in Nat
BY DEF TypeOK, Events, Frames

(* The frames of a barge-in are those of the turn that has begun.          *)
LEMMA BargeBurst ==
  ASSUME TypeOK, NEW e, NEW new, Fired(e, new), BargesIn(e, new)
  PROVE  \/ new = {}
         \/ \E first, start, dur \in Nat :
              /\ new = Burst(first, start, dur, <<"barge", obsTurn + 1>>)
              /\ <<"barge", obsTurn + 1>> \in Sources
<1> DEFINE turn == obsTurn + 1
           bi == Turns[turn].BargeIn
<1>1. ASSUME turn <= Len(Turns), bi # NoBargeIn
      PROVE  \E first, start, dur \in Nat :
               new = Burst(first, start, dur, <<"barge", turn>>) /\ <<"barge", turn>> \in Sources
  <2>1. turn \in Nat /\ turn > 0 /\ callerSeq \in Nat
    BY CallerTypes
  <2>2. turn \in 1 .. Len(Turns)
    BY <1>1, <2>1, ScriptAssumption, LenProperties
  <2>3. bi.IntoMs \in Nat /\ bi.DurMs \in Nat
    BY <1>1, <2>2, TurnFacts
  <2>4. e.at + bi.IntoMs \in Nat
    BY <2>3, NotPast
  <2>5. new = Burst(callerSeq, e.at + bi.IntoMs, bi.DurMs, <<"barge", turn>>)
    BY <1>1 DEF BargesIn
  <2>6. <<"barge", turn>> \in Sources
    BY <2>1 DEF Sources
  <2>. HIDE DEF turn, bi
  <2>. QED
    BY <2>1, <2>3, <2>4, <2>5, <2>6
<1>2. ~(turn <= Len(Turns) /\ bi # NoBargeIn) => new = {}
  BY DEF BargesIn
<1>. QED
  BY <1>1, <1>2

LEMMA KnownStep ==
  ASSUME TypeOK, BurstsKnown, NEW e \in heap, Fires(e)
  PROVE  BurstsKnown'
<1>1. obsTurn \in Nat /\ (obsTurn' = obsTurn \/ obsTurn' = obsTurn + 1)
  BY CallerTypes, FiresCases, SpeakStep, ReceiveTurnStartStep, ReceiveOtherStep,
     HearBargeInStep, HearWhileTalkingStep, HearUtteranceStep, TimerIsStaleStep, RespondStep,
     AgentSendsStep
<1>2. ASSUME NEW from \in Sources, Known(from) PROVE Known(from)'
  <2>1. from[2] \in Nat
    BY SourceFacts
  <2>2. from[1] = "barge" => from[2] <= obsTurn'
    BY <1>1, <1>2, <2>1 DEF Known
  <2>. QED
    BY <2>2 DEF Known
<1>3. ASSUME NEW x \in heap, x.act \in CallerActs \cup {"maybeRespond"}
      PROVE  Known(x.f.from) /\ Known(x.f.from)'
  <2>1. x.f.from \in Sources /\ Known(x.f.from)
    BY <1>3, HeapSources DEF BurstsKnown
  <2>2. \A from \in Sources : Known(from) => Known(from)'
    BY <1>2
  <2>. QED
    BY <2>1, <2>2 DEF Known
<1>4. \E new : Fired(e, new) /\ \A x \in new : x.act \in CallerActs \cup {"maybeRespond"} =>
                                               Known(x.f.from)'
  <2>1. CASE Speak(e)
    <3> DEFINE x == Event(e.at, e.f.seq, "hear", 0, e.f)
    <3>1. e.act \in CallerActs /\ Fired(e, {x}) /\ x.f = e.f
      BY <2>1, SpeakStep DEF CallerActs
    <3>. HIDE DEF x
    <3>. QED
      BY <1>3, <3>1
  <2>2. CASE ReceiveTurnStart(e)
    <3>1. PICK new : Fired(e, new) /\ BargesIn(e, new)
      BY <2>2, ReceiveTurnStartStep
    <3>2. obsTurn' = obsTurn + 1
      BY <2>2, ReceiveTurnStartStep
    <3>3. ASSUME NEW x \in new PROVE Known(x.f.from)'
      <4>1. PICK first, start, dur \in Nat :
              /\ x \in Burst(first, start, dur, <<"barge", obsTurn + 1>>)
              /\ <<"barge", obsTurn + 1>> \in Sources
        BY <3>1, BargeBurst
      <4>2. x.f.from = <<"barge", obsTurn + 1>>
        BY <4>1, BurstFacts
      <4>3. x.f.from[2] = obsTurn' /\ obsTurn' <= obsTurn'
        BY <1>1, <3>2, <4>2
      <4>. QED
        BY <4>3 DEF Known
    <3>. QED
      BY <3>1, <3>3
  <2>3. CASE HearBargeIn(e)
    <3>1. Fired(e, {EarlyEnd(e)}) /\ EarlyEnd(e).act = "emitTurnEnd"
      BY <2>3, HearBargeInStep
    <3>2. \A x \in {EarlyEnd(e)} : x.act \notin CallerActs \cup {"maybeRespond"}
      BY <3>1 DEF CallerActs
    <3>. QED
      BY <3>1, <3>2
  <2>4. CASE HearUtterance(e)
    <3>1. e.act \in CallerActs /\ Fired(e, {Armed(e)}) /\ Armed(e).f = e.f
      BY <2>4, HearUtteranceStep DEF CallerActs
    <3>. QED
      BY <1>3, <3>1
  <2>5. CASE Respond(e)
    <3>1. Fired(e, TurnEvents(agent.turn + 1, e.at)) /\ e.at \in Nat /\ agent.turn + 1 \in Nat
      BY <2>5, RespondStep, AgentTypes
    <3>2. \A x \in TurnEvents(agent.turn + 1, e.at) : x.act \notin CallerActs \cup {"maybeRespond"}
      BY <3>1, TurnEventFacts DEF CallerActs
    <3>. QED
      BY <3>1, <3>2
  <2>6. CASE AgentSends(e)
    <3>1. PICK new : Fired(e, new) /\ \A x \in new : x.act = "recv"
      BY <2>6, AgentSendsFired
    <3>. QED
      BY <3>1 DEF CallerActs
  <2>7. CASE ReceiveOther(e) \/ HearWhileTalking(e) \/ TimerIsStale(e)
    <3>1. Fired(e, {})
      BY <2>7, ReceiveOtherStep, HearWhileTalkingStep, TimerIsStaleStep
    <3>. QED
      BY <3>1
  <2>. QED
    BY <2>1, <2>2, <2>3, <2>4, <2>5, <2>6, <2>7, FiresCases
<1>5. ASSUME NEW x \in heap', x.act \in CallerActs \cup {"maybeRespond"} PROVE Known(x.f.from)'
  BY <1>3, <1>4, <1>5 DEF Fired
<1>6. ASSUME NEW i \in DOMAIN heard' PROVE heard'[i].from[1] = "barge" => heard'[i].from[2] <= obsTurn'
  <2>1. ASSUME i \in DOMAIN heard
        PROVE  heard[i].from[1] = "barge" => heard[i].from[2] <= obsTurn'
    <3>1. heard[i].from \in Sources /\ Known(heard[i].from)
      BY <2>1, HeardTypes DEF BurstsKnown
    <3>2. \A from \in Sources : Known(from) => Known(from)'
      BY <1>2
    <3>. QED
      BY <3>1, <3>2 DEF Known
  <2>2. CASE HearBargeIn(e) \/ HearWhileTalking(e) \/ HearUtterance(e)
    <3>1. PICK as : /\ e.act = "hear" /\ Hearing(e, as) \in Hearings
                    /\ heard' = Append(heard, Hearing(e, as))
      BY <2>2, HearBargeInStep, HearWhileTalkingStep, HearUtteranceStep
    <3>2. (i \in DOMAIN heard /\ heard'[i] = heard[i]) \/ heard'[i] = Hearing(e, as)
      BY <3>1, HeardAppended
    <3>3. Hearing(e, as).from = e.f.from
      BY DEF Hearing
    <3>4. Known(e.f.from)'
      BY <1>3, <3>1 DEF CallerActs
    <3>5. e.f.from[1] = "barge" => e.f.from[2] <= obsTurn'
      BY <1>1, <1>3, <3>1, HeapSources, SourceFacts DEF Known, CallerActs
    <3>. QED
      BY <2>1, <3>2, <3>3, <3>5
  <2>3. CASE ~(HearBargeIn(e) \/ HearWhileTalking(e) \/ HearUtterance(e))
    <3>1. heard' = heard
      BY <2>3, FiresCases, SpeakStep, ReceiveTurnStartStep, ReceiveOtherStep,
         TimerIsStaleStep, RespondStep, AgentSendsStep
    <3>. QED
      BY <2>1, <3>1
  <2>. QED
    BY <2>2, <2>3
<1>7. ASSUME NEW i \in DOMAIN answered'
      PROVE  answered'[i][1] = "barge" => answered'[i][2] <= obsTurn'
  <2>1. ASSUME i \in DOMAIN answered
        PROVE  answered[i][1] = "barge" => answered[i][2] <= obsTurn'
    <3>1. answered[i] \in Sources /\ Known(answered[i])
      BY <2>1, AnsweredTypes DEF BurstsKnown
    <3>2. \A from \in Sources : Known(from) => Known(from)'
      BY <1>2
    <3>. QED
      BY <3>1, <3>2 DEF Known
  <2>2. CASE Respond(e)
    <3>1. e.act = "maybeRespond" /\ e.f.from \in Sources /\ answered' = Append(answered, e.f.from)
          /\ obsTurn' = obsTurn
      BY <2>2, RespondStep
    <3>2. answered \in Seq(Sources)
      BY DEF TypeOK
    <3>3. (i \in DOMAIN answered /\ answered'[i] = answered[i]) \/ answered'[i] = e.f.from
      BY <3>1, <3>2, Grown
    <3>4. e.f.from[1] = "barge" => e.f.from[2] <= obsTurn'
      BY <1>3, <3>1 DEF Known
    <3>. QED
      BY <2>1, <3>3, <3>4
  <2>3. CASE ~Respond(e)
    <3>1. answered' = answered
      BY <2>3, FiresCases, SpeakStep, ReceiveTurnStartStep, ReceiveOtherStep, HearBargeInStep,
         HearWhileTalkingStep, HearUtteranceStep, TimerIsStaleStep, AgentSendsStep
    <3>. QED
      BY <2>1, <3>1
  <2>. QED
    BY <2>2, <2>3
<1>. QED
  BY <1>5, <1>6, <1>7 DEF BurstsKnown, Known

LEMMA HeardAtOnceStep ==
  ASSUME TypeOK, HeardAtOnce, NEW e, NEW new, Fired(e, new),
         \A x \in new : x.act = "hear" => x.at = e.at
  PROVE  HeardAtOnce'
<1>1. /\ heap' = (heap \ {e}) \cup new /\ now \in Nat /\ e.at \in Nat /\ now <= e.at
      /\ now' = e.at
      /\ \A x \in heap : x.at \in Nat
  BY NotPast DEF Fired
<1>2. ASSUME NEW x \in heap', x.act = "hear" PROVE x.at <= now'
  <2>1. CASE x \in heap
    <3>1. x.at <= now /\ x.at \in Nat
      BY <1>1, <1>2, <2>1 DEF HeardAtOnce
    <3>. QED
      BY <1>1, <3>1
  <2>2. CASE x \in new
    BY <1>1, <1>2, <2>2
  <2>. QED
    BY <1>1, <2>1, <2>2
<1>. QED
  BY <1>2 DEF HeardAtOnce

(* A step in which the caller says nothing and plans nothing.              *)
LEMMA UnbrokenKept ==
  ASSUME TypeOK, Unbroken, NEW e, NEW new, Fired(e, new), e.act # "speak",
         \A x \in new : x.act \notin CallerActs,
         \/ heard' = heard
         \/ e.act = "hear" /\ \E h \in Hearings : heard' = Append(heard, h) /\ h.from = e.f.from
  PROVE  Unbroken'
<1>1. /\ heap' = (heap \ {e}) \cup new /\ now \in Nat /\ now' \in Nat /\ now <= now'
      /\ e \in heap
  BY NotPast DEF Fired
<1>2. ASSUME NEW x \in heap', x.act = "speak", x.n = 0
      PROVE  /\ \A y \in Rest(x.f.from)' : y = x \/ (y.act = "speak" /\ y.at > x.at)
             /\ \A i \in DOMAIN heard' : heard'[i].from # x.f.from
  <2>1. x \in heap
    BY <1>1, <1>2 DEF CallerActs
  <2>2. /\ \A y \in Rest(x.f.from) : y = x \/ (y.act = "speak" /\ y.at > x.at)
        /\ \A i \in DOMAIN heard : heard[i].from # x.f.from
    BY <1>2, <2>1 DEF Unbroken
  <2>3. \A y \in Rest(x.f.from)' : y \in Rest(x.f.from)
    BY <1>1 DEF Rest
  <2>4. ASSUME e.act = "hear", NEW h \in Hearings, heard' = Append(heard, h),
               h.from = e.f.from, NEW i \in DOMAIN heard'
        PROVE  heard'[i].from # x.f.from
    <3>1. (i \in DOMAIN heard /\ heard'[i] = heard[i]) \/ heard'[i] = h
      BY <2>4, HeardAppended
    <3>2. e.f.from # x.f.from
      <4>1. e.f.from = x.f.from => e \in Rest(x.f.from)
        BY <1>1, <2>4 DEF Rest, CallerActs
      <4>. QED
        BY <1>2, <2>2, <2>4, <4>1
    <3>. QED
      BY <2>2, <2>4, <3>1, <3>2
  <2>. QED
    BY <2>2, <2>3, <2>4
<1>3. ASSUME NEW x \in heap', x.act = "speak", x.n # 0
      PROVE  \/ x.at <= now' + FrameMs
             \/ \E y \in Rest(x.f.from)' : y.act = "speak" /\ y.at + FrameMs = x.at
  <2>1. x \in heap /\ x.at \in Nat
    BY <1>1, <1>3, NotPast DEF CallerActs
  <2>2. \/ x.at <= now + FrameMs
        \/ \E y \in Rest(x.f.from) : y.act = "speak" /\ y.at + FrameMs = x.at
    BY <1>3, <2>1 DEF Unbroken
  <2>3. x.at <= now + FrameMs => x.at <= now' + FrameMs
    BY <1>1, <2>1, ConfigFacts
  <2>4. ASSUME NEW y \in Rest(x.f.from), y.act = "speak" PROVE y \in Rest(x.f.from)'
    BY <1>1, <2>4 DEF Rest
  <2>. QED
    BY <2>2, <2>3, <2>4
<1>. QED
  BY <1>2, <1>3 DEF Unbroken

LEMMA UnbrokenSpeak ==
  ASSUME TypeOK, Unbroken, NEW e \in heap, Speak(e)
  PROVE  Unbroken'
<1> DEFINE z == Event(e.at, e.f.seq, "hear", 0, e.f)
<1>1. e.act = "speak" /\ Fired(e, {z}) /\ z.act = "hear" /\ z.f = e.f /\ heard' = heard
  BY SpeakStep
<1>. HIDE DEF z
<1>2. /\ heap' = (heap \ {e}) \cup {z} /\ now \in Nat /\ now' \in Nat /\ now <= now'
      /\ now' = e.at
      /\ \A x \in heap : x.at \in Nat /\ e.at <= x.at
  BY <1>1, NotPast DEF Fired
<1>3. ASSUME NEW x \in heap', x.act = "speak" PROVE x \in heap /\ x # e /\ x.at \in Nat
  BY <1>1, <1>2, <1>3
<1>4. ASSUME NEW x \in heap', x.act = "speak", x.n = 0
      PROVE  /\ \A y \in Rest(x.f.from)' : y = x \/ (y.act = "speak" /\ y.at > x.at)
             /\ \A i \in DOMAIN heard' : heard'[i].from # x.f.from
  <2>1. /\ \A y \in Rest(x.f.from) : y = x \/ (y.act = "speak" /\ y.at > x.at)
        /\ \A i \in DOMAIN heard : heard[i].from # x.f.from
    BY <1>3, <1>4 DEF Unbroken
  <2>2. e.f.from # x.f.from
    <3>1. ASSUME e.f.from = x.f.from PROVE e \in Rest(x.f.from)
      BY <1>1, <3>1 DEF Rest, CallerActs
    <3>2. ~(e.at > x.at)
      <4>1. e.at \in Nat /\ x.at \in Nat /\ e.at <= x.at
        BY <1>2, <1>3, <1>4
      <4>. QED
        BY <4>1
    <3>. QED
      BY <1>3, <1>4, <2>1, <3>1, <3>2
  <2>3. \A y \in Rest(x.f.from)' : y \in Rest(x.f.from)
    BY <1>1, <1>2, <2>2 DEF Rest
  <2>. QED
    BY <1>1, <2>1, <2>3
<1>5. ASSUME NEW x \in heap', x.act = "speak", x.n # 0
      PROVE  \/ x.at <= now' + FrameMs
             \/ \E y \in Rest(x.f.from)' : y.act = "speak" /\ y.at + FrameMs = x.at
  <2>1. \/ x.at <= now + FrameMs
        \/ \E y \in Rest(x.f.from) : y.act = "speak" /\ y.at + FrameMs = x.at
    BY <1>3, <1>5 DEF Unbroken
  <2>2. x.at <= now + FrameMs => x.at <= now' + FrameMs
    BY <1>2, <1>3, <1>5, ConfigFacts
  <2>3. ASSUME NEW y \in Rest(x.f.from), y.act = "speak", y.at + FrameMs = x.at
        PROVE  \/ x.at <= now' + FrameMs
               \/ y \in Rest(x.f.from)'
    <3>1. CASE y = e
      <4>1. x.at = now' + FrameMs /\ x.at <= x.at
        BY <1>2, <1>3, <1>5, <2>3, <3>1
      <4>. QED
        BY <4>1
    <3>2. CASE y # e
      BY <1>2, <2>3, <3>2 DEF Rest
    <3>. QED
      BY <3>1, <3>2
  <2>. QED
    BY <2>1, <2>2, <2>3
<1>. QED
  BY <1>4, <1>5 DEF Unbroken

(* No speech of a turn that has not begun yet.                             *)
LEMMA FreshBarge ==
  ASSUME TypeOK, BurstsKnown
  PROVE  /\ \A x \in heap : x.act \in CallerActs \cup {"maybeRespond"} =>
              x.f.from # <<"barge", obsTurn + 1>>
         /\ \A i \in DOMAIN heard : heard[i].from # <<"barge", obsTurn + 1>>
         /\ \A i \in DOMAIN answered : answered[i] # <<"barge", obsTurn + 1>>
<1>1. obsTurn \in Nat
  BY CallerTypes
<1>2. ASSUME NEW from, from = <<"barge", obsTurn + 1>> PROVE ~Known(from)
  <2>1. from[1] = "barge" /\ from[2] = obsTurn + 1
    BY <1>2
  <2>2. ~(obsTurn + 1 <= obsTurn)
    BY <1>1
  <2>. QED
    BY <2>1, <2>2 DEF Known
<1>. QED
  BY <1>2 DEF BurstsKnown

LEMMA UnbrokenBarge ==
  ASSUME TypeOK, BurstsKnown, Unbroken, NEW e \in heap, ReceiveTurnStart(e)
  PROVE  Unbroken'
<1>1. e.act = "recv" /\ heard' = heard
  BY ReceiveTurnStartStep
<1>2. PICK new : Fired(e, new) /\ BargesIn(e, new)
  BY ReceiveTurnStartStep
<1>3. CASE new = {}
  BY <1>1, <1>2, <1>3, UnbrokenKept
<1>4. ASSUME NEW first \in Nat, NEW start \in Nat, NEW dur \in Nat, NEW b \in Sources,
             b = <<"barge", obsTurn + 1>>, new = Burst(first, start, dur, b)
      PROVE  Unbroken'
  <2>1. /\ heap' = (heap \ {e}) \cup new /\ now \in Nat /\ now' \in Nat /\ now <= now'
    BY <1>2, NotPast DEF Fired
  <2>2. /\ \A x \in heap : x.act \in CallerActs => x.f.from # b
        /\ \A i \in DOMAIN heard : heard[i].from # b
    BY <1>4, FreshBarge
  <2>3. \A x \in new : x.act = "speak" /\ x.f.from = b /\ x.at \in Nat
    <3>1. ASSUME NEW x \in new PROVE x.act = "speak" /\ x.f.from = b /\ x \in Events
      BY <1>4, BurstFacts
    <3>. QED
      BY <3>1 DEF Events
  <2>4. ASSUME NEW x \in heap, x \in heap', x.act = "speak" PROVE Rest(x.f.from)' = Rest(x.f.from)
    <3>1. x.f.from # b
      BY <2>2, <2>4 DEF CallerActs
    <3>. QED
      BY <1>1, <2>1, <2>3, <3>1 DEF Rest, CallerActs
  <2>5. Rest(b)' = new
    BY <2>1, <2>2, <2>3 DEF Rest, CallerActs
  <2>6. ASSUME NEW x \in heap', x.act = "speak", x \in heap
        PROVE  IF x.n = 0
               THEN /\ \A y \in Rest(x.f.from)' : y = x \/ (y.act = "speak" /\ y.at > x.at)
                    /\ \A i \in DOMAIN heard' : heard'[i].from # x.f.from
               ELSE \/ x.at <= now' + FrameMs
                    \/ \E y \in Rest(x.f.from)' : y.act = "speak" /\ y.at + FrameMs = x.at
    <3>1. IF x.n = 0
          THEN /\ \A y \in Rest(x.f.from) : y = x \/ (y.act = "speak" /\ y.at > x.at)
               /\ \A i \in DOMAIN heard : heard[i].from # x.f.from
          ELSE \/ x.at <= now + FrameMs
               \/ \E y \in Rest(x.f.from) : y.act = "speak" /\ y.at + FrameMs = x.at
      BY <2>6 DEF Unbroken
    <3>2. x.at <= now + FrameMs => x.at <= now' + FrameMs
      <4>1. x.at \in Nat
        BY <2>6, HeapSources
      <4>. QED
        BY <2>1, <4>1, ConfigFacts
    <3>3. Rest(x.f.from)' = Rest(x.f.from)
      BY <2>4, <2>6
    <3>. QED
      BY <1>1, <3>1, <3>2, <3>3
  <2>7. ASSUME NEW x \in new
        PROVE  IF x.n = 0
               THEN /\ \A y \in Rest(b)' : y = x \/ (y.act = "speak" /\ y.at > x.at)
                    /\ \A i \in DOMAIN heard' : heard'[i].from # b
               ELSE \E y \in Rest(b)' : y.act = "speak" /\ y.at + FrameMs = x.at
    <3>1. /\ x.n = 0 => \A y \in new : y = x \/ y.at > x.at
          /\ x.n # 0 => \E y \in new : y.at + FrameMs = x.at
      <4>1. x \in Burst(first, start, dur, b)
        BY <1>4
      <4>2. /\ x.n = 0 => \A y \in Burst(first, start, dur, b) : y = x \/ y.at > x.at
            /\ x.n # 0 => \E y \in Burst(first, start, dur, b) : y.at + FrameMs = x.at
        BY <4>1, BurstOrder
      <4>. QED
        BY <1>4, <4>2
    <3>. QED
      BY <1>1, <2>2, <2>3, <2>5, <3>1
  <2>8. ASSUME NEW x \in heap', x.act = "speak"
        PROVE  IF x.n = 0
               THEN /\ \A y \in Rest(x.f.from)' : y = x \/ (y.act = "speak" /\ y.at > x.at)
                    /\ \A i \in DOMAIN heard' : heard'[i].from # x.f.from
               ELSE \/ x.at <= now' + FrameMs
                    \/ \E y \in Rest(x.f.from)' : y.act = "speak" /\ y.at + FrameMs = x.at
    <3>1. CASE x \in heap
      BY <2>6, <2>8, <3>1
    <3>2. CASE x \in new
      <4>1. x.f.from = b
        BY <2>3, <3>2
      <4>. QED
        BY <2>7, <3>2, <4>1 DEF Rest
    <3>. QED
      BY <2>1, <3>1, <3>2
  <2>. QED
    BY <2>8 DEF Unbroken
<1>. QED
  BY <1>2, <1>3, <1>4, BargeBurst

LEMMA AnsweredAssembled ==
  ASSUME AnsweredOnce, answered' = answered,
         \A x \in heap' : GoesOn(x)',
         \A i \in DOMAIN answered : \A a : a = answered[i] /\ Settled(a) => Settled(a)'
  PROVE  AnsweredOnce'
<1>1. ASSUME NEW i \in DOMAIN answered PROVE Settled(answered[i])'
  <2> DEFINE a == answered[i]
  <2>1. \A b : b = a /\ Settled(b) => Settled(b)'
    OBVIOUS
  <2>2. Settled(a)
    BY DEF AnsweredOnce
  <2>. QED
    BY <2>1, <2>2 DEF Settled, Rest, Live
<1>. QED
  BY <1>1 DEF AnsweredOnce

(* The caller's part of the heap, and the answers, as they were.           *)
LEMMA AnsweredKept ==
  ASSUME AnsweredOnce, NEW e, NEW new, Fired(e, new), e.act \notin CallerActs,
         \A x \in new : x.act \notin CallerActs \cup {"maybeRespond"},
         agent'.speechGen = agent.speechGen, answered' = answered
  PROVE  AnsweredOnce'
<1>1. heap' = (heap \ {e}) \cup new
  BY DEF Fired
<1>2. \A from : Rest(from)' = Rest(from)
  BY <1>1 DEF Rest
<1>3. \A x \in heap' : Live(x)' => x \in heap /\ Live(x)
  BY <1>1 DEF Live
<1>4. \A x \in heap' : GoesOn(x)'
  BY <1>2, <1>3 DEF AnsweredOnce, GoesOn
<1>5. \A a : Settled(a) => Settled(a)'
  BY <1>2, <1>3 DEF Settled
<1>. QED
  BY <1>4, <1>5, AnsweredAssembled

LEMMA AnsweredSpeak ==
  ASSUME TypeOK, AnsweredOnce, NEW e \in heap, Speak(e)
  PROVE  AnsweredOnce'
<1> DEFINE z == Event(e.at, e.f.seq, "hear", 0, e.f)
<1>1. /\ e.act = "speak" /\ Fired(e, {z}) /\ z.at = e.at /\ z.act = "hear" /\ z.f = e.f
      /\ agent' = agent /\ answered' = answered
  BY SpeakStep
<1>. HIDE DEF z
<1>2. /\ heap' = (heap \ {e}) \cup {z}
      /\ \A x \in heap : e.at <= x.at
  BY <1>1, NotPast DEF Fired
<1>3. \A x \in heap' : Live(x)' => x \in heap /\ Live(x)
  BY <1>1, <1>2 DEF Live
<1>4. e \in Rest(e.f.from)
  BY <1>1 DEF Rest, CallerActs
<1>5. ASSUME NEW from, from # e.f.from PROVE Rest(from)' = Rest(from)
  BY <1>1, <1>2, <1>5 DEF Rest
<1>6. z \in heap' /\ z.act \in CallerActs
  BY <1>1, <1>2 DEF CallerActs
<1>7. ASSUME NEW x \in heap' PROVE GoesOn(x)'
  <2> SUFFICES ASSUME Live(x)', Rest(x.f.from)' # {}
               PROVE  \E y \in Rest(x.f.from)' : y.at <= x.at
    BY DEF GoesOn
  <2>1. x \in heap /\ Live(x) /\ GoesOn(x)
    BY <1>3 DEF AnsweredOnce
  <2>2. CASE x.f.from = e.f.from
    <3>1. z.at <= x.at
      BY <1>1, <1>2, <2>1
    <3>. QED
      BY <1>1, <1>6, <2>2, <3>1 DEF Rest
  <2>3. CASE x.f.from # e.f.from
    <3>1. Rest(x.f.from)' = Rest(x.f.from)
      BY <1>5, <2>3
    <3>. QED
      BY <2>1, <3>1 DEF GoesOn
  <2>. QED
    BY <2>2, <2>3
<1>8. ASSUME NEW a, Settled(a) PROVE Settled(a)'
  <2>1. a # e.f.from
    BY <1>4, <1>8 DEF Settled
  <2>2. Rest(a)' = Rest(a)
    BY <1>5, <2>1
  <2>. QED
    BY <1>3, <1>8, <2>2 DEF Settled
<1>. QED
  BY <1>1, <1>7, <1>8, AnsweredAssembled

LEMMA AnsweredBarge ==
  ASSUME TypeOK, BurstsKnown, AnsweredOnce, NEW e \in heap, ReceiveTurnStart(e)
  PROVE  AnsweredOnce'
<1>1. e.act = "recv" /\ agent' = agent /\ answered' = answered
  BY ReceiveTurnStartStep
<1>2. PICK new : Fired(e, new) /\ BargesIn(e, new)
  BY ReceiveTurnStartStep
<1>3. heap' = (heap \ {e}) \cup new
  BY <1>2 DEF Fired
<1>4. \A x \in new : x.act = "speak" /\ x.f.from = <<"barge", obsTurn + 1>>
  <2>1. ASSUME NEW x \in new PROVE x.act = "speak" /\ x.f.from = <<"barge", obsTurn + 1>>
    <3>1. PICK first, start, dur \in Nat :
            /\ x \in Burst(first, start, dur, <<"barge", obsTurn + 1>>)
            /\ <<"barge", obsTurn + 1>> \in Sources
      BY <1>2, BargeBurst
    <3>. QED
      BY <3>1, BurstFacts
  <2>. QED
    BY <2>1
<1>5. \A x \in heap' : Live(x)' => x \in heap /\ Live(x)
  BY <1>1, <1>3, <1>4 DEF Live
<1>6. ASSUME NEW from, from # <<"barge", obsTurn + 1>> PROVE Rest(from)' = Rest(from)
  BY <1>1, <1>3, <1>4, <1>6 DEF Rest, CallerActs
<1>7. ASSUME NEW x \in heap' PROVE GoesOn(x)'
  <2> SUFFICES ASSUME Live(x)', Rest(x.f.from)' # {}
               PROVE  \E y \in Rest(x.f.from)' : y.at <= x.at
    BY DEF GoesOn
  <2>1. x \in heap /\ Live(x) /\ GoesOn(x)
    BY <1>5 DEF AnsweredOnce
  <2>2. x.f.from # <<"barge", obsTurn + 1>>
    BY <2>1, FreshBarge DEF Live
  <2>3. Rest(x.f.from)' = Rest(x.f.from)
    BY <1>6, <2>2
  <2>. QED
    BY <2>1, <2>3 DEF GoesOn
<1>8. ASSUME NEW i \in DOMAIN answered, NEW a, a = answered[i], Settled(a) PROVE Settled(a)'
  <2>1. a # <<"barge", obsTurn + 1>>
    BY <1>8, FreshBarge
  <2>2. Rest(a)' = Rest(a)
    BY <1>6, <2>1
  <2>. QED
    BY <1>5, <1>8, <2>2 DEF Settled
<1>. QED
  BY <1>1, <1>7, <1>8, AnsweredAssembled

(* Speech that is ignored, or interrupts the agent.                        *)
LEMMA AnsweredTalking ==
  ASSUME AnsweredOnce, NEW e, NEW new, Fired(e, new),
         \A x \in new : x.act \notin CallerActs,
         \A x \in heap' : ~Live(x)', answered' = answered
  PROVE  AnsweredOnce'
<1>1. heap' = (heap \ {e}) \cup new
  BY DEF Fired
<1>2. \A from : Rest(from)' \subseteq Rest(from)
  BY <1>1 DEF Rest
<1>3. \A x \in heap' : GoesOn(x)'
  BY DEF GoesOn
<1>4. \A a : Settled(a) => Settled(a)'
  BY <1>2 DEF Settled
<1>. QED
  BY <1>3, <1>4, AnsweredAssembled

(* What is left of a burst that is being heard goes on within FrameMs: the *)
(* least of its frames that are still to be spoken has lost the frame      *)
(* before it, or is the first, and that is spoken before any is heard.     *)
LEMMA BurstGoesOn ==
  ASSUME TypeOK, HeardAtOnce, Unbroken, NEW e, NEW new, Fired(e, new), e.act = "hear",
         NEW r \in Rest(e.f.from), r # e
  PROVE  \E y \in Rest(e.f.from) : y # e /\ y.at <= e.at + FrameMs
<1> DEFINE from == e.f.from
           T == {y.at : y \in {s \in Rest(from) : s.act = "speak"}}
<1>1. /\ now \in Nat /\ e.at \in Nat /\ now <= e.at
      /\ \A x \in heap : x.at \in Nat
      /\ Rest(from) \subseteq heap
  BY NotPast DEF Rest
<1>2. CASE r.act = "hear"
  <2>1. r.at <= now /\ r.at \in Nat
    BY <1>1, <1>2 DEF HeardAtOnce
  <2>2. r.at <= e.at + FrameMs
    BY <1>1, <2>1, ConfigFacts
  <2>. QED
    BY <2>2
<1>3. CASE r.act = "speak"
  <2>1. T \in SUBSET Nat /\ T # {}
    BY <1>1, <1>3
  <2>2. PICK m \in T : \A n \in T : m <= n
    <3>. HIDE DEF T
    <3>. QED
      BY <2>1, LeastNat
  <2>3. PICK x \in Rest(from) : x.act = "speak" /\ x.at = m
    BY <2>2
  <2>4. \A y \in Rest(from) : y.act = "speak" => m <= y.at
    BY <2>2
  <2>. HIDE DEF T
  <2>5. x \in heap /\ x.f.from = from /\ x.at \in Nat /\ x # e
    BY <1>1, <2>3 DEF Rest
  <2>6. e \in Rest(from)
    BY DEF Rest, CallerActs, Fired
  <2>7. x.n # 0
    BY <2>3, <2>5, <2>6 DEF Unbroken
  <2>8. \/ x.at <= now + FrameMs
        \/ \E y \in Rest(from) : y.act = "speak" /\ y.at + FrameMs = x.at
    BY <2>3, <2>5, <2>7 DEF Unbroken
  <2>9. ASSUME NEW y \in Rest(from), y.act = "speak", y.at + FrameMs = x.at PROVE FALSE
    <3>1. m <= y.at /\ y.at \in Nat /\ m = x.at
      BY <1>1, <2>3, <2>4, <2>9
    <3>. QED
      BY <2>5, <2>9, <3>1, ConfigFacts
  <2>10. x.at <= e.at + FrameMs
    BY <1>1, <2>5, <2>8, <2>9, ConfigFacts
  <2>. QED
    BY <2>3, <2>5, <2>10
<1>. QED
  BY <1>2, <1>3 DEF Rest, CallerActs

LEMMA AnsweredUtterance ==
  ASSUME TypeOK, HeapFits, HeardAtOnce, Unbroken, AnsweredOnce, EndpointMs >= FrameMs,
         NEW e \in heap, HearUtterance(e)
  PROVE  AnsweredOnce'
<1> DEFINE a == Armed(e)
<1>1. /\ e.act = "hear" /\ Fired(e, {a}) /\ a.at = e.at + EndpointMs
      /\ a.act = "maybeRespond" /\ a.f = e.f /\ answered' = answered
  BY HearUtteranceStep
<1>2. agent'.speechGen = agent.speechGen + 1 /\ agent.speechGen \in Nat
  BY HearUtteranceAgent, AgentTypes
<1>. HIDE DEF a
<1>3. heap' = (heap \ {e}) \cup {a} /\ e.at \in Nat /\ \A x \in heap : x.at \in Nat
  BY <1>1, NotPast DEF Fired
<1>4. ASSUME NEW x \in heap', Live(x)' PROVE x = a
  <2>1. x.act = "maybeRespond" /\ x.n = agent.speechGen + 1
    BY <1>2, <1>4 DEF Live
  <2>2. ASSUME x \in heap PROVE FALSE
    <3>1. x.n \in Nat /\ x.n <= agent.speechGen
      BY <2>1, <2>2 DEF HeapFits, Fits, TypeOK, Events
    <3>. QED
      BY <1>2, <2>1, <3>1
  <2>. QED
    BY <1>3, <2>2
<1>5. ASSUME NEW from PROVE Rest(from)' = Rest(from) \ {e}
  BY <1>1, <1>3 DEF Rest, CallerActs
<1>6. e \in Rest(e.f.from)
  BY <1>1 DEF Rest, CallerActs
<1>7. ASSUME NEW x \in heap' PROVE GoesOn(x)'
  <2> SUFFICES ASSUME Live(x)', Rest(x.f.from)' # {}
               PROVE  \E y \in Rest(x.f.from)' : y.at <= x.at
    BY DEF GoesOn
  <2>1. x.f.from = e.f.from /\ x.at = e.at + EndpointMs
    BY <1>1, <1>4
  <2>2. Rest(x.f.from)' = Rest(e.f.from) \ {e}
    BY <1>5, <2>1
  <2>3. PICK r \in Rest(e.f.from) : r # e
    BY <2>2
  <2>4. PICK y \in Rest(e.f.from) : y # e /\ y.at <= e.at + FrameMs
    BY <1>1, <2>3, BurstGoesOn
  <2>5. y.at \in Nat
    BY <1>3 DEF Rest
  <2>6. y.at <= x.at
    BY <1>3, <2>1, <2>4, <2>5, ConfigFacts
  <2>. QED
    BY <2>2, <2>4, <2>6
<1>8. ASSUME NEW b, Settled(b) PROVE Settled(b)'
  <2>1. b # e.f.from
    BY <1>6, <1>8 DEF Settled
  <2>2. Rest(b)' = {}
    BY <1>5, <1>8 DEF Settled
  <2>. QED
    BY <1>1, <1>4, <2>1, <2>2 DEF Settled
<1>. QED
  BY <1>1, <1>7, <1>8, AnsweredAssembled

LEMMA AnsweredRespond ==
  ASSUME TypeOK, HeapFits, AnsweredOnce, NEW e \in heap, Respond(e), \A x \in heap' : ~Live(x)'
  PROVE  AnsweredOnce'
<1> DEFINE new == TurnEvents(agent.turn + 1, e.at)
<1>1. /\ e.act = "maybeRespond" /\ e.n = agent.speechGen /\ Fired(e, new) /\ e.at \in Nat
      /\ e.f.from \in Sources /\ answered' = Append(answered, e.f.from)
  BY RespondStep
<1>2. \A x \in new : x.act \notin CallerActs
  <2>1. agent.turn + 1 \in Nat
    BY AgentTypes
  <2>. QED
    BY <1>1, <2>1, TurnEventFacts DEF CallerActs
<1>. HIDE DEF new
<1>3. heap' = (heap \ {e}) \cup new
  BY <1>1 DEF Fired
<1>4. Live(e)
  BY <1>1 DEF Live
<1>5. \A from : Rest(from)' = Rest(from)
  BY <1>1, <1>2, <1>3 DEF Rest, CallerActs
<1>6. Rest(e.f.from) = {}
  <2> SUFFICES ASSUME Rest(e.f.from) # {} PROVE FALSE
    OBVIOUS
  <2>1. PICK y \in Rest(e.f.from) : y.at <= e.at
    BY <1>4 DEF AnsweredOnce, GoesOn
  <2>2. y \in heap /\ y.act \in CallerActs
    BY DEF Rest
  <2>3. y.at > e.at /\ y.at \in Nat
    BY <1>1, <2>2, SpeechBeforeTimers, NotPast
  <2>. QED
    BY <1>1, <2>1, <2>3
<1>7. ASSUME NEW i \in DOMAIN answered
      PROVE  Rest(answered[i]) = {} /\ answered[i] # e.f.from
  BY <1>4 DEF AnsweredOnce, Settled
<1>8. answered \in Seq(Sources)
  BY DEF TypeOK
<1>9. /\ DOMAIN answered = 1 .. Len(answered) /\ DOMAIN answered' = 1 .. Len(answered) + 1
      /\ Len(answered) \in Nat
      /\ \A i \in 1 .. Len(answered) : answered'[i] = answered[i]
      /\ answered'[Len(answered) + 1] = e.f.from
  BY <1>1, <1>8, Appended
<1>10. ASSUME NEW i \in DOMAIN answered'
       PROVE  \/ i \in DOMAIN answered /\ answered'[i] = answered[i]
              \/ i = Len(answered) + 1 /\ answered'[i] = e.f.from
  BY <1>9
<1>11. ASSUME NEW i \in DOMAIN answered' PROVE Settled(answered[i])'
  <2>1. Rest(answered'[i]) = {}
    BY <1>6, <1>7, <1>10
  <2>2. \A a : a = answered'[i] => Rest(a)' = {}
    BY <1>5, <2>1
  <2>. QED
    BY <2>2 DEF Settled, Rest
<1>12. ASSUME NEW i \in DOMAIN answered', NEW j \in DOMAIN answered', answered'[i] = answered'[j]
       PROVE  i = j
  BY <1>7, <1>10, <1>12 DEF AnsweredOnce
<1>13. \A x \in heap' : GoesOn(x)'
  BY DEF GoesOn
<1>. QED
  BY <1>11, <1>12, <1>13 DEF AnsweredOnce

(* While the agent talks no endpointing timer is current.                  *)
LEMMA TalkingSilencesTimers ==
  ASSUME UtteranceInv', agent'.talking
  PROVE  \A x \in heap' : ~Live(x)'
BY DEF UtteranceInv, Endpointing, Live

LEMMA BurstStep ==
  ASSUME TypeOK, HeapFits, TurnInv, UtteranceInv, BurstInv, NEW e \in heap, Fires(e)
  PROVE  BurstInv'
<1>0. BurstsKnown' /\ UtteranceInv'
  BY KnownStep, UtteranceStep DEF BurstInv
<1>1. CASE Speak(e)
  <2> DEFINE x == Event(e.at, e.f.seq, "hear", 0, e.f)
  <2>1. Fired(e, {x}) /\ x.at = e.at
    BY <1>1, SpeakStep
  <2>. HIDE DEF x
  <2>2. HeardAtOnce'
    BY <2>1, HeardAtOnceStep DEF BurstInv
  <2>3. Unbroken'
    BY <1>1, UnbrokenSpeak DEF BurstInv
  <2>4. AnsweredOnce => AnsweredOnce'
    BY <1>1, AnsweredSpeak
  <2>. QED
    BY <1>0, <2>2, <2>3, <2>4 DEF BurstInv
<1>2. CASE ReceiveTurnStart(e)
  <2>1. PICK new : Fired(e, new) /\ BargesIn(e, new)
    BY <1>2, ReceiveTurnStartStep
  <2>2. \A x \in new : x.act # "hear"
    BY <2>1 DEF BargesIn, Burst, Event
  <2>3. HeardAtOnce'
    BY <2>1, <2>2, HeardAtOnceStep DEF BurstInv
  <2>4. Unbroken'
    BY <1>2, UnbrokenBarge DEF BurstInv
  <2>5. AnsweredOnce => AnsweredOnce'
    BY <1>2, AnsweredBarge DEF BurstInv
  <2>. QED
    BY <1>0, <2>3, <2>4, <2>5 DEF BurstInv
<1>3. ASSUME NEW new, Fired(e, new), e.act # "speak", e.act # "hear",
             \A x \in new : x.act \notin CallerActs \cup {"maybeRespond"},
             heard' = heard, answered' = answered, agent'.speechGen = agent.speechGen
      PROVE  BurstInv'
  <2>1. \A x \in new : x.act \notin CallerActs
    BY <1>3
  <2>2. HeardAtOnce'
    BY <1>3, <2>1, HeardAtOnceStep DEF BurstInv, CallerActs
  <2>3. Unbroken'
    BY <1>3, <2>1, UnbrokenKept DEF BurstInv
  <2>4. AnsweredOnce => AnsweredOnce'
    BY <1>3, AnsweredKept DEF CallerActs
  <2>. QED
    BY <1>0, <2>2, <2>3, <2>4 DEF BurstInv
<1>4. CASE ReceiveOther(e) \/ TimerIsStale(e)
  <2>1. /\ Fired(e, {}) /\ e.act # "speak" /\ e.act # "hear"
        /\ heard' = heard /\ answered' = answered /\ agent' = agent
    BY <1>4, ReceiveOtherStep, TimerIsStaleStep DEF Stale
  <2>. QED
    BY <1>3, <2>1
<1>5. CASE AgentSends(e)
  <2>1. PICK new : Fired(e, new) /\ \A x \in new : x.act = "recv"
    BY <1>5, AgentSendsFired
  <2>2. /\ e.act \in SendActs /\ heard' = heard /\ answered' = answered
        /\ agent'.speechGen = agent.speechGen
    BY <1>5, AgentSendsStep, AgentSendsAgent
  <2>3. \A x \in new : x.act \notin CallerActs \cup {"maybeRespond"}
    BY <2>1 DEF CallerActs
  <2>4. e.act # "speak" /\ e.act # "hear"
    BY <2>2 DEF SendActs, EmitActs
  <2>. QED
    BY <1>3, <2>1, <2>2, <2>3, <2>4
<1>6. ASSUME NEW new, Fired(e, new), e.act = "hear", NEW as, Hearing(e, as) \in Hearings,
             \A x \in new : x.act \notin CallerActs,
             heard' = Append(heard, Hearing(e, as))
      PROVE  HeardAtOnce' /\ Unbroken'
  <2>1. HeardAtOnce'
    BY <1>6, HeardAtOnceStep DEF BurstInv, CallerActs
  <2>2. Hearing(e, as).from = e.f.from
    BY DEF Hearing
  <2>3. Unbroken'
    BY <1>6, <2>2, UnbrokenKept DEF BurstInv
  <2>. QED
    BY <2>1, <2>3
<1>7. CASE HearBargeIn(e)
  <2>1. /\ e.act = "hear" /\ agent.talking /\ Fired(e, {EarlyEnd(e)})
        /\ EarlyEnd(e).act = "emitTurnEnd" /\ Hearing(e, "barge_in") \in Hearings
        /\ heard' = Append(heard, Hearing(e, "barge_in")) /\ answered' = answered
    BY <1>7, HearBargeInStep
  <2>2. \A x \in {EarlyEnd(e)} : x.act \notin CallerActs
    BY <2>1 DEF CallerActs
  <2>3. agent'.talking
    BY <1>7, <2>1, HearBargeInAgent
  <2>4. HeardAtOnce' /\ Unbroken'
    BY <1>6, <2>1, <2>2
  <2>5. AnsweredOnce => AnsweredOnce'
    BY <1>0, <2>1, <2>2, <2>3, TalkingSilencesTimers, AnsweredTalking
  <2>. QED
    BY <1>0, <2>4, <2>5 DEF BurstInv
<1>8. CASE HearWhileTalking(e)
  <2>1. /\ e.act = "hear" /\ agent.talking /\ Fired(e, {}) /\ agent' = agent
        /\ Hearing(e, "ignored") \in Hearings
        /\ heard' = Append(heard, Hearing(e, "ignored")) /\ answered' = answered
    BY <1>8, HearWhileTalkingStep
  <2>2. HeardAtOnce' /\ Unbroken'
    BY <1>6, <2>1
  <2>3. AnsweredOnce => AnsweredOnce'
    BY <1>0, <2>1, TalkingSilencesTimers, AnsweredTalking
  <2>. QED
    BY <1>0, <2>2, <2>3 DEF BurstInv
<1>9. CASE HearUtterance(e)
  <2>1. /\ e.act = "hear" /\ Fired(e, {Armed(e)}) /\ Armed(e).act = "maybeRespond"
        /\ Hearing(e, "utterance") \in Hearings
        /\ heard' = Append(heard, Hearing(e, "utterance"))
    BY <1>9, HearUtteranceStep
  <2>2. \A x \in {Armed(e)} : x.act \notin CallerActs
    BY <2>1 DEF CallerActs
  <2>3. HeardAtOnce' /\ Unbroken'
    BY <1>6, <2>1, <2>2
  <2>4. EndpointMs >= FrameMs /\ AnsweredOnce => AnsweredOnce'
    BY <1>9, AnsweredUtterance DEF BurstInv
  <2>. QED
    BY <1>0, <2>3, <2>4 DEF BurstInv
<1>10. CASE Respond(e)
  <2> DEFINE new == TurnEvents(agent.turn + 1, e.at)
  <2>1. e.act = "maybeRespond" /\ Fired(e, new) /\ e.at \in Nat /\ heard' = heard
    BY <1>10, RespondStep
  <2>2. \A x \in new : x.act \notin CallerActs
    <3>1. agent.turn + 1 \in Nat
      BY AgentTypes
    <3>. QED
      BY <2>1, <3>1, TurnEventFacts DEF CallerActs
  <2>. HIDE DEF new
  <2>3. agent'.talking
    BY <1>10, RespondAgent
  <2>4. HeardAtOnce'
    BY <2>1, <2>2, HeardAtOnceStep DEF BurstInv, CallerActs
  <2>5. Unbroken'
    BY <2>1, <2>2, UnbrokenKept DEF BurstInv
  <2>6. AnsweredOnce => AnsweredOnce'
    BY <1>0, <1>10, <2>3, TalkingSilencesTimers, AnsweredRespond
  <2>. QED
    BY <1>0, <2>4, <2>5, <2>6 DEF BurstInv
<1>. QED
  BY <1>1, <1>2, <1>4, <1>5, <1>7, <1>8, <1>9, <1>10, FiresCases

LEMMA BurstInit == Init => BurstInv
<1> SUFFICES ASSUME Init PROVE BurstInv
  OBVIOUS
<1>1. /\ DOMAIN heard = {} /\ DOMAIN answered = {} /\ heap = Primed
      /\ \A x \in heap : x.act = "speak"
  BY SpeechOnly DEF Init
<1>2. ASSUME NEW x \in heap
      PROVE  /\ x.f.from[1] = "prompt"
             /\ x.n = 0 => \A y \in Rest(x.f.from) : y = x \/ y.at > x.at
             /\ x.n # 0 => \E y \in Rest(x.f.from) : y.at + FrameMs = x.at
  <2>1. PICK k \in 1 .. Len(Turns) :
          /\ x \in Burst(PromptSeq[k - 1], Turns[k].AtMs, Turns[k].DurMs, <<"prompt", k>>)
          /\ <<"prompt", k>> \in Sources
          /\ PromptSeq[k - 1] \in Nat /\ Turns[k].AtMs \in Nat /\ Turns[k].DurMs \in Nat
    BY <1>1, PrimedFacts
  <2> DEFINE first == PromptSeq[k - 1]
             start == Turns[k].AtMs
             dur == Turns[k].DurMs
             b == <<"prompt", k>>
             B == Burst(first, start, dur, b)
  <2>2. /\ x.n = 0 => \A y \in B : y = x \/ y.at > x.at
        /\ x.n # 0 => \E y \in B : y.at + FrameMs = x.at
    <3>1. /\ first \in Nat /\ start \in Nat /\ dur \in Nat
          /\ b \in Sources /\ x \in Burst(first, start, dur, b)
      BY <2>1
    <3>. HIDE DEF first, start, dur, b
    <3>. QED
      BY <3>1, BurstOrder
  <2>3. \A y \in B : y.f.from = <<"prompt", k>>
    BY <2>1, BurstFacts
  <2>4. B \subseteq heap
    <3>1. DOMAIN Turns = 1 .. Len(Turns)
      BY ScriptAssumption, LenProperties
    <3>. QED
      BY <1>1, <3>1 DEF Primed
  <2>5. ASSUME NEW y \in heap, y.f.from = <<"prompt", k>> PROVE y \in B
    <3>1. PICK j \in 1 .. Len(Turns) :
            /\ y \in Burst(PromptSeq[j - 1], Turns[j].AtMs, Turns[j].DurMs, <<"prompt", j>>)
            /\ <<"prompt", j>> \in Sources
            /\ PromptSeq[j - 1] \in Nat /\ Turns[j].AtMs \in Nat /\ Turns[j].DurMs \in Nat
      BY <1>1, PrimedFacts
    <3>2. y.f.from = <<"prompt", j>>
      BY <3>1, BurstFacts
    <3>3. j = k
      BY <2>5, <3>2
    <3>. QED
      BY <3>1, <3>3
  <2>6. x \in B
    BY <2>1
  <2>7. x.f.from = <<"prompt", k>>
    BY <2>3, <2>6
  <2>. HIDE DEF B
  <2>8. Rest(x.f.from) = B
    BY <1>1, <2>3, <2>4, <2>5, <2>7 DEF Rest, CallerActs
  <2>. QED
    BY <2>2, <2>7, <2>8
<1>3. BurstsKnown
  BY <1>1, <1>2 DEF BurstsKnown, Known
<1>4. HeardAtOnce
  BY <1>1 DEF HeardAtOnce
<1>5. Unbroken
  <2>1. \A x \in heap : \A y \in Rest(x.f.from) : y.act = "speak"
    BY <1>1 DEF Rest
  <2>. QED
    BY <1>1, <1>2, <2>1 DEF Unbroken
<1>6. AnsweredOnce
  BY <1>1 DEF AnsweredOnce, GoesOn, Live
<1>. QED
  BY <1>3, <1>4, <1>5, <1>6 DEF BurstInv

LEMMA BurstInvariant == Spec => []BurstInv
<1>1. Init => BurstInv
  BY BurstInit
<1>2. /\ TypeInv /\ HeapFits /\ TurnInv /\ UtteranceInv /\ BurstInv /\ [Next]_vars
      => BurstInv'
  <2> SUFFICES ASSUME TypeInv, HeapFits, TurnInv, UtteranceInv, BurstInv, [Next]_vars
               PROVE  BurstInv'
    OBVIOUS
  <2>1. ASSUME NEW e \in heap, Fires(e) PROVE BurstInv'
    BY <2>1, BurstStep DEF TypeInv
  <2>2. ASSUME UNCHANGED vars PROVE BurstInv'
    BY <2>2 DEF vars, BurstInv, BurstsKnown, Known, HeardAtOnce, Unbroken, AnsweredOnce,
                GoesOn, Settled, Rest, Live
  <2>. QED
    BY <2>1, <2>2 DEF Next, Quiescent
<1>. QED
  BY <1>1, <1>2, TypeInvariant, TurnInvariant, UtteranceInvariant, PTL DEF Spec

(* A burst is answered at most once: while any of it is still to come, it  *)
(* comes before its timer is due, and what answers it finds none left.     *)
THEOREM RespondsOnce == Spec => []OneResponsePerBurst
<1>1. BurstInv => OneResponsePerBurst
  BY DEF BurstInv, AnsweredOnce, OneResponsePerBurst
<1>. QED
  BY <1>1, BurstInvariant, PTL
=============================================================================
