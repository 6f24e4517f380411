------------------------ MODULE ConversationLogProofs ------------------------
(***************************************************************************)
(* What becomes of the agent's frames, for every script, every agent and   *)
(* every profile of the link: each frame sent arrives or is dropped, once; *)
(* on a link that keeps the order the caller logs it under the turn it was *)
(* sent in, and on any other unless a TurnStart is lost or overtaken; and  *)
(* what is measured on the sorted log is then true of what happened.       *)
(***************************************************************************)
EXTENDS ConversationProofs, ConversationMetrics

-----------------------------------------------------------------------------
(* The link: the invariants.                                               *)

(* The agent numbers its frames in the order it sends them; a TurnStart    *)
(* has its number from when the turn starts.                               *)
NumberedInv ==
  /\ \A i \in DOMAIN air : air[i].kind # "speech" /\ air[i].seq < agent.seq
  /\ \A i, j \in DOMAIN air : i < j => air[i].seq < air[j].seq
  /\ \A s \in heap : s.act = "sendTurnStart" =>
       /\ s.f.seq < agent.seq
       /\ \A i \in DOMAIN air : air[i].seq < s.f.seq

(* Where a frame of the agent is: under way, in the caller's log, or among *)
(* those the link dropped.                                                 *)
Ways(h, f) == {x \in h : x.act = "recv" /\ x.f = f}
Logs(l, f) == {j \in DOMAIN l : l[j].f = f}
Drops(d, f) == {j \in DOMAIN d : d[j] = f}

Nowhere(h, l, d, f) == Ways(h, f) = {} /\ Logs(l, f) = {} /\ Drops(d, f) = {}
Once(h, l, d, f) ==
  \/ (\E x \in h : Ways(h, f) = {x}) /\ Logs(l, f) = {} /\ Drops(d, f) = {}
  \/ Ways(h, f) = {} /\ (\E j \in DOMAIN l : Logs(l, f) = {j}) /\ Drops(d, f) = {}
  \/ Ways(h, f) = {} /\ Logs(l, f) = {} /\ \E j \in DOMAIN d : Drops(d, f) = {j}
Sent(a, f) == \E i \in DOMAIN a : a[i] = f
LocatedInv ==
  /\ \A i \in DOMAIN air : Once(heap, log, dropped, air[i])
  /\ \A x \in heap : x.act = "recv" => Sent(air, x.f)
  /\ \A j \in DOMAIN log : log[j].f.kind = "speech" \/ Sent(air, log[j].f)
  /\ \A j \in DOMAIN dropped : Sent(air, dropped[j])

(* On a link that keeps the order, what is under way is the end of what    *)
(* was sent, and the caller has counted the turns up to there.             *)
CountedTo(l) == obsTurn = IF l = 0 THEN 0 ELSE air[l].turn
UnderWay(l) ==
  /\ \A x \in heap : x.act = "recv" => \E i \in l + 1 .. Len(air) : x.f = air[i]
  /\ \A i \in l + 1 .. Len(air) : \E x \in heap : x.act = "recv" /\ x.f = air[i]
InOrder ==
  /\ \A x, y \in heap :
       x.act = "recv" /\ y.act = "recv" /\ x.f.seq < y.f.seq => x.at <= y.at
  /\ \A x \in heap : x.act = "recv" =>
       IF Limited THEN queue.hasLast /\ x.at <= queue.lastDelivery
       ELSE x.at <= now + Profile.AddedLatencyMs
TurnsLogged ==
  \A i \in DOMAIN log :
    log[i].type \in {"turn_start", "recv", "turn_end"} => log[i].turn = log[i].f.turn
OrderInv ==
  LosslessInOrder =>
    /\ \E l \in 0 .. Len(air) : CountedTo(l) /\ UnderWay(l)
    /\ InOrder
    /\ TurnsLogged

-----------------------------------------------------------------------------
(* The agent's numbering.                                                  *)

LEMMA SentTypes ==
  ASSUME TypeOK
  PROVE  \A i \in DOMAIN air : air[i] \in Frames /\ air[i].seq \in Nat
<1>1. air \in Seq(Frames)
  BY DEF TypeOK
<1>2. \A i \in DOMAIN air : air[i] \in Frames
  BY <1>1, ElementOfSeq, LenProperties
<1>. QED
  BY <1>2 DEF Frames

LEMMA NumberedKept ==
  ASSUME NumberedInv, NEW e, NEW new, Fired(e, new),
         \A x \in new : x.act # "sendTurnStart", agent'.seq = agent.seq, air' = air
  PROVE  NumberedInv'
BY DEF NumberedInv, Fired

LEMMA NumberedRespond ==
  ASSUME TypeOK, TurnInv, NumberedInv, NEW e \in heap, Respond(e)
  PROVE  NumberedInv'
<1> DEFINE new == TurnEvents(agent.turn + 1, e.at)
<1>1. ~agent.talking /\ Fired(e, new) /\ e.at \in Nat /\ air' = air
  BY RespondStep
<1>2. agent'.seq = agent.seq + 1 /\ agent.seq \in Nat /\ agent.turn + 1 \in Nat
  <2>1. agent.seq \in Nat /\ agent.turn \in Nat
    BY AgentTypes
  <2>2. agent'.seq = agent.seq + 1
    BY RespondAgent
  <2>. QED
    BY <2>1, <2>2
<1>3. \A x \in new : x.act = "sendTurnStart" => x.f.seq = agent.seq
  BY <1>1, <1>2, TurnEventFacts
<1>. HIDE DEF new
<1>4. ASSUME NEW i \in DOMAIN air PROVE air[i].seq < agent.seq /\ air[i].seq < agent.seq + 1
  <2>1. air[i].seq < agent.seq /\ air[i].seq \in Nat
    BY SentTypes DEF NumberedInv
  <2>. QED
    BY <1>2, <2>1
<1>5. \A s \in heap : s.act # "sendTurnStart"
  BY <1>1 DEF TurnInv, Starting
<1>6. \A s \in heap' : s.act = "sendTurnStart" => s.f.seq = agent.seq
  BY <1>1, <1>3, <1>5 DEF Fired
<1>7. agent.seq < agent.seq + 1
  BY <1>2
<1>. QED
  BY <1>1, <1>2, <1>4, <1>6, <1>7 DEF NumberedInv

(* What is sent has a number above all that was sent before.               *)
LEMMA SendsNext ==
  ASSUME TypeOK, HeapFits, TurnInv, NumberedInv, NEW e \in heap, AgentSends(e)
  PROVE  /\ SentBy(e) \in Frames /\ SentBy(e).kind # "speech"
         /\ \A i \in DOMAIN air : air[i].seq < SentBy(e).seq
         /\ SentBy(e).seq < agent'.seq /\ agent.seq <= agent'.seq
<1>1. /\ e.act \in SendActs /\ e \in Events
      /\ agent'.seq = IF e.act = "sendTurnStart" THEN agent.seq ELSE agent.seq + 1
  BY AgentSendsStep, AgentSendsAgent
<1>2. agent.seq \in Nat
  BY AgentTypes
<1>3. SentBy(e) \in Frames /\ SentBy(e).kind # "speech"
  <2>1. /\ SentBy(e) \in Frames /\ SentBy(e).kind = e.f.kind
        /\ e.act = "sendTurnStart" => e.f.kind = "turn_start"
        /\ e.act = "emitAgentFrame" => e.f.kind = "agent"
        /\ e.act = "emitTurnEnd" => e.f.kind = "turn_end"
    BY SendContext
  <2>. QED
    BY <1>1, <2>1 DEF SendActs, EmitActs
<1>4. CASE e.act = "sendTurnStart"
  <2>1. SentBy(e) = e.f
    BY <1>1, <1>4, SentByFacts
  <2>2. e.f.seq < agent.seq /\ \A i \in DOMAIN air : air[i].seq < e.f.seq
    BY <1>4 DEF NumberedInv
  <2>3. agent'.seq = agent.seq
    BY <1>1, <1>4
  <2>. QED
    BY <1>2, <1>3, <2>1, <2>2, <2>3
<1>5. CASE e.act # "sendTurnStart"
  <2>1. SentBy(e).seq = agent.seq /\ agent'.seq = agent.seq + 1
    BY <1>1, <1>5, SentByFacts
  <2>2. \A i \in DOMAIN air : air[i].seq < agent.seq
    BY DEF NumberedInv
  <2>3. agent.seq < agent.seq + 1 /\ agent.seq <= agent.seq + 1
    BY <1>2
  <2>. QED
    BY <1>3, <2>1, <2>2, <2>3
<1>. QED
  BY <1>4, <1>5

LEMMA NumberedSends ==
  ASSUME TypeOK, HeapFits, TurnInv, NumberedInv, NEW e \in heap, AgentSends(e)
  PROVE  NumberedInv'
<1> DEFINE f == SentBy(e)
<1>1. /\ f \in Frames /\ f.kind # "speech"
      /\ \A i \in DOMAIN air : air[i].seq < f.seq
      /\ f.seq < agent'.seq /\ agent.seq <= agent'.seq
  BY SendsNext
<1>2. air' = Append(air, f) /\ air \in Seq(Frames)
  BY AgentSendsStep DEF TypeOK
<1>3. PICK new : Fired(e, new) /\ \A x \in new : x.act = "recv"
  BY AgentSendsFired
<1>4. \A s \in heap : s.act = "sendTurnStart" => s = e
  BY SendContext
<1>5. agent.seq \in Nat /\ agent'.seq \in Nat
  <2>1. agent.seq \in Nat
    BY AgentTypes
  <2>2. agent'.seq = agent.seq \/ agent'.seq = agent.seq + 1
    BY AgentSendsAgent
  <2>. QED
    BY <2>1, <2>2
<1>. HIDE DEF f
<1>6. /\ DOMAIN air = 1 .. Len(air) /\ DOMAIN air' = 1 .. Len(air) + 1 /\ Len(air) \in Nat
      /\ \A i \in 1 .. Len(air) : air'[i] = air[i]
      /\ air'[Len(air) + 1] = f
  BY <1>1, <1>2, Appended
<1>7. \A s \in heap' : s.act # "sendTurnStart"
  BY <1>3, <1>4 DEF Fired
<1>8. ASSUME NEW i \in DOMAIN air' PROVE air'[i].kind # "speech" /\ air'[i].seq < agent'.seq
  <2>1. CASE i = Len(air) + 1
    BY <1>1, <1>6, <2>1
  <2>2. CASE i \in DOMAIN air
    <3>1. air[i].kind # "speech" /\ air[i].seq < agent.seq /\ air[i].seq \in Nat
      BY <2>2, SentTypes DEF NumberedInv
    <3>2. air[i].seq < agent'.seq
      BY <1>1, <1>5, <3>1
    <3>. QED
      BY <1>6, <2>2, <3>1, <3>2
  <2>. QED
    BY <1>6, <2>1, <2>2
<1>9. ASSUME NEW i \in DOMAIN air', NEW j \in DOMAIN air', i < j PROVE air'[i].seq < air'[j].seq
  <2>1. i \in DOMAIN air /\ air'[i] = air[i]
    BY <1>6, <1>9
  <2>2. CASE j = Len(air) + 1
    BY <1>1, <1>6, <2>1, <2>2
  <2>3. CASE j \in DOMAIN air
    BY <1>6, <1>9, <2>1, <2>3 DEF NumberedInv
  <2>. QED
    BY <1>6, <2>2, <2>3
<1>. QED
  BY <1>7, <1>8, <1>9 DEF NumberedInv

LEMMA NumberedStep ==
  ASSUME TypeOK, HeapFits, TurnInv, NumberedInv, NEW e \in heap, Fires(e)
  PROVE  NumberedInv'
<1>1. CASE Respond(e)
  BY <1>1, NumberedRespond
<1>2. CASE AgentSends(e)
  BY <1>2, NumberedSends
<1>3. CASE Speak(e)
  <2> DEFINE x == Event(e.at, e.f.seq, "hear", 0, e.f)
  <2>1. Fired(e, {x}) /\ x.act = "hear" /\ agent' = agent /\ air' = air
    BY <1>3, SpeakStep
  <2>. HIDE DEF x
  <2>. QED
    BY <2>1, NumberedKept
<1>4. CASE ReceiveTurnStart(e)
  <2>1. PICK new : Fired(e, new) /\ BargesIn(e, new)
    BY <1>4, ReceiveTurnStartStep
  <2>2. \A x \in new : x.act # "sendTurnStart"
    BY <2>1 DEF BargesIn, Burst, Event
  <2>3. agent' = agent /\ air' = air
    BY <1>4, ReceiveTurnStartStep
  <2>. QED
    BY <2>1, <2>2, <2>3, NumberedKept
<1>5. CASE ReceiveOther(e) \/ HearWhileTalking(e) \/ TimerIsStale(e)
  <2>1. Fired(e, {}) /\ agent' = agent /\ air' = air
    BY <1>5, ReceiveOtherStep, HearWhileTalkingStep, TimerIsStaleStep
  <2>. QED
    BY <2>1, NumberedKept
<1>6. CASE HearBargeIn(e)
  <2>1. /\ Fired(e, {EarlyEnd(e)}) /\ EarlyEnd(e).act = "emitTurnEnd"
        /\ agent'.seq = agent.seq /\ air' = air
    BY <1>6, HearBargeInStep, HearBargeInAgent
  <2>2. \A x \in {EarlyEnd(e)} : x.act # "sendTurnStart"
    BY <2>1
  <2>. QED
    BY <2>1, <2>2, NumberedKept
<1>7. CASE HearUtterance(e)
  <2>1. /\ Fired(e, {Armed(e)}) /\ Armed(e).act = "maybeRespond"
        /\ agent'.seq = agent.seq /\ air' = air
    BY <1>7, HearUtteranceStep, HearUtteranceAgent
  <2>2. \A x \in {Armed(e)} : x.act # "sendTurnStart"
    BY <2>1
  <2>. QED
    BY <2>1, <2>2, NumberedKept
<1>. QED
  BY <1>1, <1>2, <1>3, <1>4, <1>5, <1>6, <1>7, FiresCases

-----------------------------------------------------------------------------
(* Each frame in one place.                                                *)

LEMMA UnsentNowhere ==
  ASSUME LocatedInv, NEW f, f.kind # "speech", ~Sent(air, f)
  PROVE  Nowhere(heap, log, dropped, f)
<1>1. Ways(heap, f) = {}
  BY DEF LocatedInv, Ways
<1>2. Logs(log, f) = {}
  BY DEF LocatedInv, Logs
<1>3. Drops(dropped, f) = {}
  BY DEF LocatedInv, Drops
<1>. QED
  BY <1>1, <1>2, <1>3 DEF Nowhere

(* A step that neither sends nor delivers.                                 *)
LEMMA LocatedKept ==
  ASSUME NumberedInv, LocatedInv, NEW e, NEW new, Fired(e, new), e.act # "recv",
         \A x \in new : x.act # "recv", air' = air, dropped' = dropped,
         \A j \in DOMAIN log : j \in DOMAIN log' /\ log'[j] = log[j],
         \A j \in DOMAIN log' : j \in DOMAIN log \/ log'[j].f.kind = "speech"
  PROVE  LocatedInv'
<1>1. heap' = (heap \ {e}) \cup new
  BY DEF Fired
<1>2. ASSUME NEW f PROVE Ways(heap', f) = Ways(heap, f)
  BY <1>1 DEF Ways
<1>3. ASSUME NEW f, f.kind # "speech" PROVE Logs(log', f) = Logs(log, f)
  BY <1>3 DEF Logs
<1>4. ASSUME NEW i \in DOMAIN air PROVE Once(heap', log', dropped', air[i])
  <2>1. Once(heap, log, dropped, air[i]) /\ air[i].kind # "speech"
    BY DEF LocatedInv, NumberedInv
  <2>2. Ways(heap', air[i]) = Ways(heap, air[i]) /\ Logs(log', air[i]) = Logs(log, air[i])
    BY <1>2, <1>3, <2>1
  <2>3. \A x : Ways(heap, air[i]) = {x} => x \in heap'
    BY <2>2 DEF Ways
  <2>. QED
    BY <2>1, <2>2, <2>3 DEF Once
<1>5. \A x \in heap' : x.act = "recv" => Sent(air, x.f)
  BY <1>1 DEF LocatedInv
<1>6. \A j \in DOMAIN log' : log'[j].f.kind = "speech" \/ Sent(air, log'[j].f)
  BY DEF LocatedInv
<1>. QED
  BY <1>4, <1>5, <1>6 DEF LocatedInv

(* The caller receives a frame: it is in the log now.                      *)
LEMMA LocatedReceive ==
  ASSUME TypeOK, LocatedInv, NEW e, NEW new, Fired(e, new), e.act = "recv",
         \A x \in new : x.act # "recv", air' = air, dropped' = dropped,
         NEW en \in Entries, en.f = e.f, log' = Append(log, en)
  PROVE  LocatedInv'
<1>1. heap' = (heap \ {e}) \cup new /\ e \in heap
  BY DEF Fired
<1>2. log \in Seq(Entries)
  BY DEF TypeOK
<1>3. /\ DOMAIN log = 1 .. Len(log) /\ DOMAIN log' = 1 .. Len(log) + 1 /\ Len(log) \in Nat
      /\ \A j \in 1 .. Len(log) : log'[j] = log[j]
      /\ log'[Len(log) + 1] = en
  BY <1>2, Appended
<1>4. Sent(air, e.f)
  BY <1>1 DEF LocatedInv
<1>5. ASSUME NEW f PROVE Ways(heap', f) = Ways(heap, f) \ {e}
  BY <1>1 DEF Ways
<1>6. ASSUME NEW f, f # e.f PROVE Logs(log', f) = Logs(log, f)
  BY <1>3, <1>6 DEF Logs
<1>7. Logs(log', e.f) = Logs(log, e.f) \cup {Len(log) + 1}
  BY <1>3 DEF Logs
<1>8. ASSUME NEW f, Once(heap, log, dropped, f) PROVE Once(heap', log', dropped', f)
  <2>1. CASE f = e.f
    <3>1. e \in Ways(heap, f)
      BY <1>1, <2>1 DEF Ways
    <3>2. Ways(heap, f) = {e} /\ Logs(log, f) = {} /\ Drops(dropped, f) = {}
      BY <1>8, <3>1 DEF Once
    <3>3. Ways(heap', f) = {} /\ Logs(log', f) = {Len(log) + 1} /\ Len(log) + 1 \in DOMAIN log'
      BY <1>3, <1>5, <1>7, <2>1, <3>2
    <3>. QED
      BY <3>2, <3>3 DEF Once
  <2>2. CASE f # e.f
    <3>1. Ways(heap', f) = Ways(heap, f) /\ Logs(log', f) = Logs(log, f)
      <4>1. e \notin Ways(heap, f)
        BY <2>2 DEF Ways
      <4>. QED
        BY <1>5, <1>6, <2>2, <4>1
    <3>2. \A x : Ways(heap, f) = {x} => x \in heap'
      BY <3>1 DEF Ways
    <3>3. \A j : j \in DOMAIN log => j \in DOMAIN log'
      BY <1>3
    <3>. QED
      BY <1>8, <3>1, <3>2, <3>3 DEF Once
  <2>. QED
    BY <2>1, <2>2
<1>9. \A x \in heap' : x.act = "recv" => Sent(air, x.f)
  BY <1>1 DEF LocatedInv
<1>10. ASSUME NEW j \in DOMAIN log' PROVE log'[j].f.kind = "speech" \/ Sent(air, log'[j].f)
  <2>1. CASE j = Len(log) + 1
    BY <1>3, <1>4, <2>1
  <2>2. CASE j \in DOMAIN log
    BY <1>3, <2>2 DEF LocatedInv
  <2>. QED
    BY <1>3, <2>1, <2>2
<1>. QED
  BY <1>8, <1>9, <1>10 DEF LocatedInv

LEMMA LocatedSends ==
  ASSUME TypeOK, HeapFits, TurnInv, NumberedInv, LocatedInv, NEW e \in heap, AgentSends(e)
  PROVE  LocatedInv'
<1> DEFINE f == SentBy(e)
<1>1. /\ f \in Frames /\ f.kind # "speech"
      /\ \A i \in DOMAIN air : air[i].seq < f.seq /\ air[i].seq \in Nat
  BY SendsNext, SentTypes
<1>2. ~Sent(air, f)
  <2>1. ASSUME NEW i \in DOMAIN air, air[i] = f PROVE FALSE
    BY <1>1, <2>1
  <2>. QED
    BY <2>1 DEF Sent
<1>3. Nowhere(heap, log, dropped, f)
  BY <1>1, <1>2, UnsentNowhere
<1>4. e.act \in SendActs /\ air' = Append(air, f) /\ Sends(e, f, PayloadOf(e)) /\ log' = log
  BY AgentSendsStep
<1>5. e.act # "recv"
  BY <1>4 DEF SendActs, EmitActs
<1>6. \/ dropped' = Append(dropped, f) /\ Fired(e, {})
      \/ \E x : x.act = "recv" /\ x.f = f /\ dropped' = dropped /\ Fired(e, {x})
  <2>1. PICK o \in Delay(queue, PayloadOf(e), e.at) :
          \/ o.drop /\ dropped' = Append(dropped, f) /\ Fired(e, {})
          \/ ~o.drop /\ dropped' = dropped /\ Fired(e, {Arrival(o, f)})
    BY <1>4 DEF Sends
  <2>2. Arrival(o, f).act = "recv" /\ Arrival(o, f).f = f
    BY DEF Arrival, Event
  <2>. QED
    BY <2>1, <2>2
<1>. HIDE DEF f
<1>7. air \in Seq(Frames) /\ dropped \in Seq(Frames)
  BY DEF TypeOK
<1>8. /\ DOMAIN air = 1 .. Len(air) /\ DOMAIN air' = 1 .. Len(air) + 1 /\ Len(air) \in Nat
      /\ \A i \in 1 .. Len(air) : air'[i] = air[i]
      /\ air'[Len(air) + 1] = f
  BY <1>1, <1>4, <1>7, Appended
<1>9. (\A g : Sent(air, g) => Sent(air', g)) /\ Sent(air', f)
  BY <1>8 DEF Sent
<1>10. ASSUME NEW i \in DOMAIN air' PROVE (i \in DOMAIN air /\ air'[i] = air[i]) \/ air'[i] = f
  BY <1>8
<1>11. CASE dropped' = Append(dropped, f) /\ Fired(e, {})
  <2>1. /\ DOMAIN dropped = 1 .. Len(dropped) /\ Len(dropped) \in Nat
        /\ DOMAIN dropped' = 1 .. Len(dropped) + 1
        /\ \A j \in 1 .. Len(dropped) : dropped'[j] = dropped[j]
        /\ dropped'[Len(dropped) + 1] = f
    BY <1>1, <1>7, <1>11, Appended
  <2>2. heap' = heap \ {e}
    BY <1>11 DEF Fired
  <2>3. \A g : Ways(heap', g) = Ways(heap, g)
    BY <1>5, <2>2 DEF Ways
  <2>4. \A g : g # f => Drops(dropped', g) = Drops(dropped, g)
    BY <2>1 DEF Drops
  <2>5. Drops(dropped', f) = Drops(dropped, f) \cup {Len(dropped) + 1}
    BY <2>1 DEF Drops
  <2>6. Once(heap', log', dropped', f)
    <3>1. Len(dropped) + 1 \in DOMAIN dropped'
      BY <2>1
    <3>. QED
      BY <1>3, <1>4, <2>3, <2>5, <3>1 DEF Once, Nowhere
  <2>7. ASSUME NEW i \in DOMAIN air PROVE Once(heap', log', dropped', air[i])
    <3>1. Once(heap, log, dropped, air[i]) /\ air[i] # f
      BY <1>2 DEF LocatedInv, Sent
    <3>2. \A x : Ways(heap, air[i]) = {x} => x \in heap'
      BY <2>3 DEF Ways
    <3>3. \A j : j \in DOMAIN dropped => j \in DOMAIN dropped'
      BY <2>1
    <3>. QED
      BY <1>4, <2>3, <2>4, <3>1, <3>2, <3>3 DEF Once
  <2>8. \A x \in heap' : x.act = "recv" => Sent(air', x.f)
    BY <1>9, <2>2 DEF LocatedInv
  <2>9. ASSUME NEW j \in DOMAIN dropped' PROVE Sent(air', dropped'[j])
    <3>1. CASE j = Len(dropped) + 1
      BY <1>9, <2>1, <3>1
    <3>2. CASE j \in DOMAIN dropped
      BY <1>9, <2>1, <3>2 DEF LocatedInv
    <3>. QED
      BY <2>1, <3>1, <3>2
  <2>10. \A i \in DOMAIN air' : Once(heap', log', dropped', air'[i])
    BY <1>10, <2>6, <2>7
  <2>11. \A j \in DOMAIN log' : log'[j].f.kind = "speech" \/ Sent(air', log'[j].f)
    BY <1>4, <1>9 DEF LocatedInv
  <2>. QED
    BY <2>8, <2>9, <2>10, <2>11 DEF LocatedInv
<1>12. ASSUME NEW x, x.act = "recv", x.f = f, dropped' = dropped, Fired(e, {x})
       PROVE  LocatedInv'
  <2>1. heap' = (heap \ {e}) \cup {x}
    BY <1>12 DEF Fired
  <2>2. \A g : g # f => Ways(heap', g) = Ways(heap, g)
    BY <1>5, <1>12, <2>1 DEF Ways
  <2>3. Ways(heap', f) = Ways(heap, f) \cup {x}
    BY <1>5, <1>12, <2>1 DEF Ways
  <2>4. Once(heap', log', dropped', f)
    <3>1. Ways(heap', f) = {x} /\ x \in heap'
      BY <1>3, <2>1, <2>3 DEF Nowhere
    <3>. QED
      BY <1>3, <1>4, <1>12, <3>1 DEF Once, Nowhere
  <2>5. ASSUME NEW i \in DOMAIN air PROVE Once(heap', log', dropped', air[i])
    <3>1. Once(heap, log, dropped, air[i]) /\ air[i] # f
      BY <1>2 DEF LocatedInv, Sent
    <3>2. Ways(heap', air[i]) = Ways(heap, air[i])
      BY <2>2, <3>1
    <3>3. \A y : Ways(heap, air[i]) = {y} => y \in heap'
      BY <3>2 DEF Ways
    <3>. QED
      BY <1>4, <1>12, <3>1, <3>2, <3>3 DEF Once
  <2>6. \A y \in heap' : y.act = "recv" => Sent(air', y.f)
    BY <1>9, <1>12, <2>1 DEF LocatedInv
  <2>7. \A i \in DOMAIN air' : Once(heap', log', dropped', air'[i])
    BY <1>10, <2>4, <2>5
  <2>8. \A j \in DOMAIN log' : log'[j].f.kind = "speech" \/ Sent(air', log'[j].f)
    BY <1>4, <1>9 DEF LocatedInv
  <2>9. \A j \in DOMAIN dropped' : Sent(air', dropped'[j])
    BY <1>9, <1>12 DEF LocatedInv
  <2>. QED
    BY <2>6, <2>7, <2>8, <2>9 DEF LocatedInv
<1>. QED
  BY <1>6, <1>11, <1>12

LEMMA LocatedStep ==
  ASSUME TypeOK, HeapFits, TurnInv, NumberedInv, LocatedInv, NEW e \in heap, Fires(e)
  PROVE  LocatedInv'
<1>1. CASE AgentSends(e)
  BY <1>1, LocatedSends
<1>2. CASE Speak(e)
  <2> DEFINE x == Event(e.at, e.f.seq, "hear", 0, e.f)
  <2>1. /\ e.act = "speak" /\ Fired(e, {x}) /\ x.act = "hear"
        /\ air' = air /\ dropped' = dropped
    BY <1>2, SpeakStep
  <2>2. e.f.kind = "speech"
    BY <2>1 DEF HeapFits, Fits, CallerActs
  <2>3. /\ Len(log) \in Nat /\ DOMAIN log = 1 .. Len(log)
        /\ Len(log') \in Len(log) + 1 .. Len(log) + 2 /\ DOMAIN log' = 1 .. Len(log')
        /\ \A i \in 1 .. Len(log) : log'[i] = log[i]
        /\ \A i \in Len(log) + 1 .. Len(log') : log'[i].f = e.f
    BY <1>2, SpeakLog
  <2>4. /\ \A j \in DOMAIN log : j \in DOMAIN log' /\ log'[j] = log[j]
        /\ \A j \in DOMAIN log' : j \in DOMAIN log \/ j \in Len(log) + 1 .. Len(log')
    BY <2>3
  <2>5. \A j \in DOMAIN log' : j \in DOMAIN log \/ log'[j].f.kind = "speech"
    BY <2>2, <2>3, <2>4
  <2>. HIDE DEF x
  <2>. QED
    BY <2>1, <2>4, <2>5, LocatedKept
<1>3. CASE ReceiveTurnStart(e)
  <2> DEFINE en == Entry("turn_start", e.at, obsTurn + 1, e.f)
  <2>1. PICK new : Fired(e, new) /\ BargesIn(e, new)
    BY <1>3, ReceiveTurnStartStep
  <2>2. \A x \in new : x.act # "recv"
    BY <2>1 DEF BargesIn, Burst, Event
  <2>3. /\ e.act = "recv" /\ en \in Entries /\ log' = Append(log, en)
        /\ air' = air /\ dropped' = dropped
    BY <1>3, ReceiveTurnStartStep
  <2>4. en.f = e.f
    BY DEF Entry
  <2>. HIDE DEF en
  <2>. QED
    BY <2>1, <2>2, <2>3, <2>4, LocatedReceive
<1>4. CASE ReceiveOther(e)
  <2>1. PICK type : /\ log' = Append(log, Entry(type, e.at, obsTurn, e.f))
                    /\ Entry(type, e.at, obsTurn, e.f) \in Entries
    BY <1>4, ReceiveOtherStep
  <2> DEFINE en == Entry(type, e.at, obsTurn, e.f)
  <2>2. e.act = "recv" /\ Fired(e, {}) /\ air' = air /\ dropped' = dropped
    BY <1>4, ReceiveOtherStep
  <2>3. en.f = e.f /\ en \in Entries /\ log' = Append(log, en)
    BY <2>1 DEF Entry
  <2>. HIDE DEF en
  <2>. QED
    BY <2>2, <2>3, LocatedReceive
<1>5. ASSUME NEW new, Fired(e, new), e.act # "recv", \A x \in new : x.act # "recv",
             air' = air, dropped' = dropped, log' = log
      PROVE  LocatedInv'
  BY <1>5, LocatedKept
<1>6. CASE HearWhileTalking(e) \/ TimerIsStale(e)
  <2>1. /\ e.act # "recv" /\ Fired(e, {}) /\ air' = air /\ dropped' = dropped /\ log' = log
    BY <1>6, HearWhileTalkingStep, TimerIsStaleStep DEF Stale
  <2>. QED
    BY <1>5, <2>1
<1>7. CASE HearBargeIn(e)
  <2>1. /\ e.act = "hear" /\ Fired(e, {EarlyEnd(e)}) /\ EarlyEnd(e).act = "emitTurnEnd"
        /\ air' = air /\ dropped' = dropped /\ log' = log
    BY <1>7, HearBargeInStep
  <2>2. \A x \in {EarlyEnd(e)} : x.act # "recv"
    BY <2>1
  <2>. QED
    BY <1>5, <2>1, <2>2
<1>8. CASE HearUtterance(e)
  <2>1. /\ e.act = "hear" /\ Fired(e, {Armed(e)}) /\ Armed(e).act = "maybeRespond"
        /\ air' = air /\ dropped' = dropped /\ log' = log
    BY <1>8, HearUtteranceStep
  <2>2. \A x \in {Armed(e)} : x.act # "recv"
    BY <2>1
  <2>. QED
    BY <1>5, <2>1, <2>2
<1>9. CASE Respond(e)
  <2> DEFINE new == TurnEvents(agent.turn + 1, e.at)
  <2>1. /\ e.act = "maybeRespond" /\ Fired(e, new) /\ e.at \in Nat
        /\ air' = air /\ dropped' = dropped /\ log' = log
    BY <1>9, RespondStep
  <2>2. \A x \in new : x.act # "recv"
    <3>1. agent.turn + 1 \in Nat
      BY AgentTypes
    <3>. QED
      BY <2>1, <3>1, TurnEventFacts
  <2>. HIDE DEF new
  <2>. QED
    BY <1>5, <2>1, <2>2
<1>. QED
  BY <1>1, <1>2, <1>3, <1>4, <1>6, <1>7, <1>8, <1>9, FiresCases

LEMMA NumberedInit == Init => NumberedInv
<1> SUFFICES ASSUME Init PROVE NumberedInv
  OBVIOUS
<1>1. DOMAIN air = {}
  BY DEF Init
<1>2. \A x \in heap : x.act = "speak"
  BY SpeechOnly
<1>. QED
  BY <1>1, <1>2 DEF NumberedInv

LEMMA LocatedInit == Init => LocatedInv
<1> SUFFICES ASSUME Init PROVE LocatedInv
  OBVIOUS
<1>1. DOMAIN air = {} /\ DOMAIN log = {} /\ DOMAIN dropped = {}
  BY DEF Init
<1>2. \A x \in heap : x.act = "speak"
  BY SpeechOnly
<1>. QED
  BY <1>1, <1>2 DEF LocatedInv

LEMMA LocatedInvariant == Spec => [](NumberedInv /\ LocatedInv)
<1>1. Init => NumberedInv /\ LocatedInv
  BY NumberedInit, LocatedInit
<1>2. /\ TypeInv /\ HeapFits /\ TurnInv /\ NumberedInv /\ LocatedInv /\ [Next]_vars
      => NumberedInv' /\ LocatedInv'
  <2> SUFFICES ASSUME TypeInv, HeapFits, TurnInv, NumberedInv, LocatedInv, [Next]_vars
               PROVE  NumberedInv' /\ LocatedInv'
    OBVIOUS
  <2>1. ASSUME NEW e \in heap, Fires(e) PROVE NumberedInv' /\ LocatedInv'
    BY <2>1, NumberedStep, LocatedStep DEF TypeInv
  <2>2. ASSUME UNCHANGED vars PROVE NumberedInv' /\ LocatedInv'
    BY <2>2 DEF vars, NumberedInv, LocatedInv
  <2>. QED
    BY <2>1, <2>2 DEF Next, Quiescent
<1>. QED
  BY <1>1, <1>2, TypeInvariant, TurnInvariant, PTL DEF Spec

(* Every frame the agent sent is under way, logged or dropped, and just    *)
(* once: a new frame has a number of its own, so that no other frame is    *)
(* taken for it.  When nothing is under way it is logged or dropped.       *)
THEOREM FramesLogged == Spec => []EveryFrameLogged
<1>1. LocatedInv => EveryFrameLogged
  <2> SUFFICES ASSUME LocatedInv, Done, NEW i \in DOMAIN air
               PROVE  Cardinality(Logs(log, air[i])) + Cardinality(Drops(dropped, air[i])) = 1
    BY DEF EveryFrameLogged, Logs, Drops
  <2>1. Once(heap, log, dropped, air[i]) /\ heap = {}
    BY DEF LocatedInv, Done
  <2>2. Cardinality({}) = 0 /\ \A j : Cardinality({j}) = 1
    BY FS_EmptySet, FS_Singleton
  <2>3. ASSUME NEW c, NEW d, (c = 0 /\ d = 1) \/ (c = 1 /\ d = 0) PROVE c + d = 1
    BY <2>3
  <2>4. \/ Cardinality(Logs(log, air[i])) = 0 /\ Cardinality(Drops(dropped, air[i])) = 1
        \/ Cardinality(Logs(log, air[i])) = 1 /\ Cardinality(Drops(dropped, air[i])) = 0
    <3>1. Ways(heap, air[i]) = {}
      BY <2>1 DEF Ways
    <3>. QED
      BY <2>1, <2>2 DEF Once
  <2>. QED
    BY <2>3, <2>4
<1>. QED
  BY <1>1, LocatedInvariant, PTL

-----------------------------------------------------------------------------
(* Order.                                                                  *)

(* A link that neither loses nor reorders delivers every frame: as late as *)
(* the one before it where its bandwidth is limited, and after the same    *)
(* time each where it is not.                                              *)
LEMMA InOrderDelay ==
  ASSUME LosslessInOrder, NEW q \in Queues, NEW len \in Nat, NEW t \in Nat,
         NEW o \in Delay(q, len, t)
  PROVE  /\ ~o.drop /\ o.at \in Nat
         /\ Limited => /\ o.queue.hasLast /\ o.queue.lastDelivery = o.at
                       /\ q.hasLast => q.lastDelivery <= o.at
         /\ ~Limited => o.at = t + Profile.AddedLatencyMs
<1>1. Draw("zero") = {FALSE}
  BY DEF Draw
<1>2. ASSUME NEW loss \in Loss(q.burstBad) PROVE ~loss.lost
  <2>1. Loss(q.burstBad) = {[lost |-> l, burstBad |-> q.burstBad] : l \in {FALSE}}
    BY <1>1 DEF Loss, LosslessInOrder
  <2>2. loss = [lost |-> FALSE, burstBad |-> q.burstBad]
    BY <2>1
  <2>. QED
    BY <2>2
<1>3. PICK loss \in Loss(q.burstBad), at \in Shaped(t) :
        o = [drop |-> FALSE,
             at |-> Serialized([q EXCEPT !.burstBad = loss.burstBad], len, at).at,
             queue |-> Serialized([q EXCEPT !.burstBad = loss.burstBad], len, at).queue]
  BY <1>2 DEF Delay
<1>4. ~o.drop
  BY <1>3
<1>5. /\ o.at \in Nat
      /\ Limited => /\ o.queue.hasLast /\ o.queue.lastDelivery = o.at
                    /\ q.hasLast => o.at >= q.lastDelivery + SerializationMs(q, len)
  BY <1>4, DelayFacts
<1>6. ASSUME Limited, q.hasLast PROVE q.lastDelivery <= o.at
  <2>1. SerializationMs(q, len) \in Nat
    BY <1>6, Charge
  <2>2. q.lastDelivery \in Nat
    BY DEF Queues
  <2>. QED
    BY <1>5, <1>6, <2>1, <2>2
<1>7. ASSUME ~Limited PROVE o.at = t + Profile.AddedLatencyMs
  <2>1. Profile.BandwidthBps = 0 /\ Profile.AddedLatencyMs \in Nat
    BY <1>7, ProfileAssumption DEF Limited
  <2>2. Profile.JitterMs = 0 /\ Profile.ReorderProb = "zero"
    BY <2>1 DEF LosslessInOrder
  <2>3. at = t + Profile.AddedLatencyMs
    <3>1. PICK jitter \in 0 .. 2 * Profile.JitterMs, late \in Draw(Profile.ReorderProb) :
            at = t + Profile.AddedLatencyMs + jitter + (IF late THEN ReorderExtra ELSE 0)
      BY DEF Shaped
    <3>2. late = FALSE
      BY <1>1, <2>2
    <3>3. jitter = 0
      BY <2>2
    <3>. QED
      BY <2>1, <3>1, <3>2, <3>3
  <2>4. o.at = at
    BY <1>3, <2>1 DEF Serialized
  <2>. QED
    BY <2>3, <2>4
<1>. QED
  BY <1>4, <1>5, <1>6, <1>7

LEMMA LatencyType == Profile.AddedLatencyMs \in Nat
BY ProfileAssumption

(* What is under way stays in order for as long as nothing is added.       *)
LEMMA InOrderKept ==
  ASSUME TypeOK, InOrder, NEW e, NEW new, Fired(e, new), \A x \in new : x.act # "recv",
         queue' = queue
  PROVE  InOrder'
<1>1. /\ heap' = (heap \ {e}) \cup new
      /\ now \in Nat /\ now' \in Nat /\ now <= now' /\ \A x \in heap : x.at \in Nat
  BY NotPast DEF Fired
<1>2. \A x \in heap' : x.act = "recv" => x \in heap
  BY <1>1
<1>3. \A x, y \in heap' :
        x.act = "recv" /\ y.act = "recv" /\ x.f.seq < y.f.seq => x.at <= y.at
  BY <1>2 DEF InOrder
<1>4. ASSUME NEW x \in heap', x.act = "recv"
      PROVE  IF Limited THEN queue'.hasLast /\ x.at <= queue'.lastDelivery
             ELSE x.at <= now' + Profile.AddedLatencyMs
  <2>1. x \in heap /\ x.at \in Nat
    BY <1>1, <1>2, <1>4
  <2>2. x.at <= now + Profile.AddedLatencyMs => x.at <= now' + Profile.AddedLatencyMs
    BY <1>1, <2>1, LatencyType
  <2>. QED
    BY <1>4, <2>1, <2>2 DEF InOrder
<1>. QED
  BY <1>3, <1>4 DEF InOrder

(* A step that neither sends nor delivers.                                 *)
LEMMA OrderKept ==
  ASSUME TypeOK, OrderInv, NEW e, NEW new, Fired(e, new), e.act # "recv",
         \A x \in new : x.act # "recv", air' = air, queue' = queue, obsTurn' = obsTurn,
         \A j \in DOMAIN log' : \/ j \in DOMAIN log /\ log'[j] = log[j]
                                \/ log'[j].type \in {"send", "barge_in"}
  PROVE  OrderInv'
<1> SUFFICES ASSUME LosslessInOrder
             PROVE  (\E l \in 0 .. Len(air) : CountedTo(l) /\ UnderWay(l))'
                    /\ InOrder' /\ TurnsLogged'
  BY DEF OrderInv, LosslessInOrder
<1>1. PICK l \in 0 .. Len(air) : CountedTo(l) /\ UnderWay(l)
  BY DEF OrderInv
<1>2. heap' = (heap \ {e}) \cup new
  BY DEF Fired
<1>3. \A x : x.act = "recv" => (x \in heap' <=> x \in heap)
  BY <1>2
<1>4. CountedTo(l)' /\ UnderWay(l)'
  BY <1>1, <1>3 DEF CountedTo, UnderWay
<1>5. InOrder'
  BY InOrderKept DEF OrderInv
<1>6. TurnsLogged'
  BY DEF OrderInv, TurnsLogged
<1>. QED
  BY <1>4, <1>5, <1>6

(* What arrives is the first frame that is under way: the others are due   *)
(* no earlier, and have greater numbers.                                   *)
LEMMA FirstArrives ==
  ASSUME TypeOK, HeapFits, NumberedInv, LocatedInv, InOrder, NEW l \in 0 .. Len(air),
         UnderWay(l), NEW e, NEW new, Fired(e, new), e.act = "recv",
         \A x \in new : x.act # "recv", air' = air
  PROVE  l + 1 \in 1 .. Len(air) /\ air[l + 1] = e.f /\ UnderWay(l + 1)'
<1>1. /\ heap' = (heap \ {e}) \cup new /\ e \in heap
      /\ e.at \in Nat /\ e.seq \in Nat
      /\ \A x \in heap : x.at \in Nat /\ x.seq \in Nat /\ ~Less(x, e)
  BY NotPast DEF Fired
<1>2. air \in Seq(Frames) /\ Len(air) \in Nat /\ DOMAIN air = 1 .. Len(air)
  <2>1. air \in Seq(Frames)
    BY DEF TypeOK
  <2>. QED
    BY <2>1, LenProperties
<1>3. PICK k \in l + 1 .. Len(air) : e.f = air[k]
  BY <1>1 DEF UnderWay
<1>4. l \in Nat /\ l + 1 \in 1 .. Len(air) /\ k \in 1 .. Len(air) /\ l + 1 \in l + 1 .. Len(air)
  BY <1>2, <1>3
<1>5. k = l + 1
  <2> SUFFICES ASSUME k # l + 1 PROVE FALSE
    OBVIOUS
  <2>1. l + 1 < k
    BY <1>2, <1>3, <1>4
  <2>2. PICK y \in heap : y.act = "recv" /\ y.f = air[l + 1]
    BY <1>4 DEF UnderWay
  <2>3. y.f.seq < e.f.seq
    BY <1>2, <1>3, <1>4, <2>1, <2>2 DEF NumberedInv
  <2>4. y.at <= e.at
    BY <1>1, <2>2, <2>3 DEF InOrder
  <2>5. y.seq = y.f.seq /\ e.seq = e.f.seq
    BY <1>1, <2>2 DEF HeapFits, Fits
  <2>6. y.at \in Nat /\ (y.at < e.at \/ y.at = e.at)
    BY <1>1, <2>4
  <2>7. Less(y, e)
    BY <2>3, <2>5, <2>6 DEF Less
  <2>. QED
    BY <1>1, <2>7
<1>6. ASSUME NEW x \in heap', x.act = "recv"
      PROVE  \E i \in (l + 1) + 1 .. Len(air) : x.f = air[i]
  <2>1. x \in heap /\ x # e
    BY <1>1, <1>6
  <2>2. PICK i \in l + 1 .. Len(air) : x.f = air[i]
    BY <1>6, <2>1 DEF UnderWay
  <2>3. x.f # e.f
    <3>1. Once(heap, log, dropped, e.f)
      BY <1>2, <1>3, <1>4 DEF LocatedInv
    <3>2. x.f = e.f => x \in Ways(heap, e.f) /\ e \in Ways(heap, e.f)
      BY <1>1, <1>6, <2>1 DEF Ways
    <3>. QED
      BY <2>1, <3>1, <3>2 DEF Once
  <2>4. i # l + 1
    BY <1>3, <1>5, <2>2, <2>3
  <2>5. i \in (l + 1) + 1 .. Len(air)
    BY <1>2, <1>4, <2>2, <2>4
  <2>. QED
    BY <2>2, <2>5
<1>7. ASSUME NEW i \in (l + 1) + 1 .. Len(air)
      PROVE  \E x \in heap' : x.act = "recv" /\ x.f = air[i]
  <2>1. i \in l + 1 .. Len(air) /\ i \in 1 .. Len(air) /\ l + 1 < i
    BY <1>2, <1>4
  <2>2. PICK x \in heap : x.act = "recv" /\ x.f = air[i]
    BY <2>1 DEF UnderWay
  <2>3. air[l + 1].seq < air[i].seq /\ air[i].seq \in Nat
    BY <1>2, <1>4, <2>1, SentTypes DEF NumberedInv
  <2>4. x # e
    BY <1>3, <1>5, <2>2, <2>3
  <2>. QED
    BY <1>1, <2>2, <2>4
<1>. QED
  BY <1>3, <1>4, <1>5, <1>6, <1>7 DEF UnderWay

LEMMA OrderReceive ==
  ASSUME TypeOK, HeapFits, TurnInv, NumberedInv, LocatedInv, OrderInv, NEW e, NEW new,
         Fired(e, new), e.act = "recv", \A x \in new : x.act # "recv",
         air' = air, queue' = queue,
         obsTurn' = IF e.f.kind = "turn_start" THEN obsTurn + 1 ELSE obsTurn,
         NEW en \in Entries, en.f = e.f, en.turn = obsTurn', log' = Append(log, en)
  PROVE  OrderInv'
<1> SUFFICES ASSUME LosslessInOrder
             PROVE  (\E l \in 0 .. Len(air) : CountedTo(l) /\ UnderWay(l))'
                    /\ InOrder' /\ TurnsLogged'
  BY DEF OrderInv, LosslessInOrder
<1>1. PICK l \in 0 .. Len(air) : CountedTo(l) /\ UnderWay(l)
  BY DEF OrderInv
<1>2. l + 1 \in 1 .. Len(air) /\ air[l + 1] = e.f /\ UnderWay(l + 1)'
  BY <1>1, FirstArrives DEF OrderInv
<1>3. Len(air) \in Nat /\ DOMAIN air = 1 .. Len(air)
  <2>1. air \in Seq(Frames)
    BY DEF TypeOK
  <2>. QED
    BY <2>1, LenProperties
<1>4. l \in Nat /\ (l + 1) - 1 = l /\ l + 1 # 0 /\ (l + 1 = 1 <=> l = 0) /\ l + 1 \in 0 .. Len(air)
  BY <1>2, <1>3
<1>5. IF l + 1 = 1 \/ air[l + 1].kind = "turn_start"
      THEN /\ air[l + 1].kind = "turn_start"
           /\ air[l + 1].turn = (IF l + 1 = 1 THEN 1 ELSE air[(l + 1) - 1].turn + 1)
      ELSE air[l + 1].turn = air[(l + 1) - 1].turn
  BY <1>2, <1>3 DEF TurnInv, Bracketed
<1>6. obsTurn' = e.f.turn
  <2>1. CASE l = 0
    <3>1. obsTurn = 0 /\ e.f.kind = "turn_start" /\ e.f.turn = 1
      BY <1>1, <1>2, <1>4, <1>5, <2>1 DEF CountedTo
    <3>. QED
      BY <3>1
  <2>2. CASE l # 0
    <3>1. obsTurn = air[l].turn
      BY <1>1, <2>2 DEF CountedTo
    <3>. QED
      BY <1>2, <1>4, <1>5, <2>2, <3>1
  <2>. QED
    BY <2>1, <2>2
<1>7. CountedTo(l + 1)'
  BY <1>2, <1>4, <1>6 DEF CountedTo
<1>8. InOrder'
  BY InOrderKept DEF OrderInv
<1>9. TurnsLogged'
  <2>1. log \in Seq(Entries)
    BY DEF TypeOK
  <2>2. \A j \in DOMAIN log' : (j \in DOMAIN log /\ log'[j] = log[j]) \/ log'[j] = en
    BY <2>1, Grown
  <2>. QED
    BY <1>6, <2>2 DEF OrderInv, TurnsLogged
<1>10. \E k \in 0 .. Len(air) : CountedTo(k)' /\ UnderWay(k)'
  <2>. DEFINE k == l + 1
  <2>1. k \in 0 .. Len(air) /\ CountedTo(k)' /\ UnderWay(k)'
    BY <1>2, <1>4, <1>7 DEF CountedTo, UnderWay
  <2>. QED
    BY <2>1 DEF CountedTo, UnderWay
<1>. QED
  BY <1>8, <1>9, <1>10

LEMMA OrderSends ==
  ASSUME TypeOK, HeapFits, TurnInv, NumberedInv, LocatedInv, OrderInv,
         NEW e \in heap, AgentSends(e)
  PROVE  OrderInv'
<1> SUFFICES ASSUME LosslessInOrder
             PROVE  (\E l \in 0 .. Len(air) : CountedTo(l) /\ UnderWay(l))'
                    /\ InOrder' /\ TurnsLogged'
  BY DEF OrderInv, LosslessInOrder
<1> DEFINE f == SentBy(e)
<1>1. PICK l \in 0 .. Len(air) : CountedTo(l) /\ UnderWay(l)
  BY DEF OrderInv
<1>2. /\ f \in Frames /\ f.kind # "speech"
      /\ \A i \in DOMAIN air : air[i].seq < f.seq /\ air[i].seq \in Nat
  BY SendsNext, SentTypes
<1>3. /\ e.act \in SendActs /\ e \in Events /\ e.at \in Nat
      /\ air' = Append(air, f) /\ Sends(e, f, PayloadOf(e)) /\ log' = log /\ obsTurn' = obsTurn
  BY AgentSendsStep
<1>4. e.act # "recv"
  BY <1>3 DEF SendActs, EmitActs
<1>5. queue \in Queues /\ PayloadOf(e) \in Nat
  BY <1>3, SentByFacts DEF TypeOK
<1>6. PICK o \in Delay(queue, PayloadOf(e), e.at) :
        /\ queue' = o.queue
        /\ o.drop \/ Fired(e, {Arrival(o, f)})
  BY <1>3 DEF Sends
<1>7. /\ ~o.drop /\ o.at \in Nat
      /\ Limited => /\ o.queue.hasLast /\ o.queue.lastDelivery = o.at
                    /\ queue.hasLast => queue.lastDelivery <= o.at
      /\ ~Limited => o.at = e.at + Profile.AddedLatencyMs
  BY <1>3, <1>5, InOrderDelay
<1> DEFINE z == Arrival(o, f)
<1>8. Fired(e, {z}) /\ z.at = o.at /\ z.act = "recv" /\ z.f = f
  BY <1>6, <1>7 DEF Arrival, Event
<1>. HIDE DEF f, z
<1>9. /\ heap' = (heap \ {e}) \cup {z} /\ now' = e.at
      /\ now \in Nat /\ now <= e.at /\ \A x \in heap : x.at \in Nat
  BY <1>8, NotPast DEF Fired
<1>10. air \in Seq(Frames)
  BY DEF TypeOK
<1>11. /\ DOMAIN air = 1 .. Len(air) /\ DOMAIN air' = 1 .. Len(air) + 1 /\ Len(air) \in Nat
       /\ Len(air') = Len(air) + 1
       /\ \A i \in 1 .. Len(air) : air'[i] = air[i]
       /\ air'[Len(air) + 1] = f
  BY <1>2, <1>3, <1>10, Appended
<1>12. /\ l \in 0 .. Len(air') /\ l # 0 => l \in 1 .. Len(air)
       /\ \A i \in l + 1 .. Len(air) : i \in l + 1 .. Len(air') /\ i \in 1 .. Len(air)
       /\ Len(air') \in l + 1 .. Len(air')
       /\ \A i \in l + 1 .. Len(air') : i \in l + 1 .. Len(air) \/ i = Len(air')
  BY <1>11
<1>13. CountedTo(l)'
  BY <1>1, <1>3, <1>11, <1>12 DEF CountedTo
<1>14. UnderWay(l)'
  <2>1. ASSUME NEW x \in heap', x.act = "recv" PROVE \E i \in l + 1 .. Len(air') : x.f = air'[i]
    <3>1. CASE x = z
      BY <1>8, <1>11, <1>12, <3>1
    <3>2. CASE x \in heap
      <4>1. PICK i \in l + 1 .. Len(air) : x.f = air[i]
        BY <1>1, <2>1, <3>2 DEF UnderWay
      <4>. QED
        BY <1>11, <1>12, <4>1
    <3>. QED
      BY <1>9, <3>1, <3>2
  <2>2. ASSUME NEW i \in l + 1 .. Len(air') PROVE \E x \in heap' : x.act = "recv" /\ x.f = air'[i]
    <3>1. CASE i = Len(air')
      BY <1>8, <1>9, <1>11, <3>1
    <3>2. CASE i \in l + 1 .. Len(air)
      <4>1. PICK x \in heap : x.act = "recv" /\ x.f = air[i]
        BY <1>1, <3>2 DEF UnderWay
      <4>2. x \in heap' /\ air'[i] = air[i]
        BY <1>4, <1>9, <1>11, <1>12, <3>2, <4>1
      <4>. QED
        BY <4>1, <4>2
    <3>. QED
      BY <1>12, <3>1, <3>2
  <2>. QED
    BY <2>1, <2>2 DEF UnderWay
<1>15. ASSUME NEW x \in heap, x.act = "recv" PROVE x.f.seq < z.f.seq /\ ~(z.f.seq < x.f.seq)
  <2>1. PICK i \in DOMAIN air : air[i] = x.f
    BY <1>15 DEF LocatedInv, Sent
  <2>2. x.f.seq < f.seq /\ x.f.seq \in Nat /\ f.seq \in Nat
    BY <1>2, <2>1 DEF Frames
  <2>. QED
    BY <1>8, <2>2
<1>16. ASSUME NEW x \in heap, x.act = "recv"
       PROVE  /\ x.at <= z.at
              /\ ~Limited => x.at <= now' + Profile.AddedLatencyMs
  <2>1. x.at \in Nat /\ Profile.AddedLatencyMs \in Nat
    BY <1>9, LatencyType
  <2>2. CASE Limited
    <3>1. queue.hasLast /\ x.at <= queue.lastDelivery /\ queue.lastDelivery \in Nat
      BY <1>5, <1>16, <2>2 DEF OrderInv, InOrder, Queues
    <3>2. queue.lastDelivery <= z.at /\ z.at \in Nat
      BY <1>7, <1>8, <2>2, <3>1
    <3>3. x.at <= z.at
      BY <2>1, <3>1, <3>2
    <3>. QED
      BY <2>2, <3>3
  <2>3. CASE ~Limited
    <3>1. x.at <= now + Profile.AddedLatencyMs
      BY <1>16, <2>3 DEF OrderInv, InOrder
    <3>2. z.at = e.at + Profile.AddedLatencyMs
      BY <1>7, <1>8, <2>3
    <3>. QED
      BY <1>3, <1>9, <2>1, <3>1, <3>2
  <2>. QED
    BY <2>2, <2>3
<1>17. InOrder'
  <2>1. ASSUME NEW x \in heap', NEW y \in heap', x.act = "recv", y.act = "recv",
               x.f.seq < y.f.seq
        PROVE  x.at <= y.at
    <3>1. CASE x \in heap /\ y \in heap
      BY <2>1, <3>1 DEF OrderInv, InOrder
    <3>2. CASE x \in heap /\ y = z
      BY <1>16, <2>1, <3>2
    <3>3. CASE x = z /\ y \in heap
      BY <1>15, <2>1, <3>3
    <3>4. CASE x = z /\ y = z
      <4>1. z.at \in Nat
        BY <1>7, <1>8
      <4>. QED
        BY <3>4, <4>1
    <3>. QED
      BY <1>9, <3>1, <3>2, <3>3, <3>4
  <2>2. ASSUME NEW x \in heap', x.act = "recv"
        PROVE  IF Limited THEN queue'.hasLast /\ x.at <= queue'.lastDelivery
               ELSE x.at <= now' + Profile.AddedLatencyMs
    <3>1. x.at <= z.at
      <4>1. z.at \in Nat
        BY <1>7, <1>8
      <4>2. z.at <= z.at
        BY <4>1
      <4>. QED
        BY <1>9, <1>16, <2>2, <4>2
    <3>2. CASE Limited
      BY <1>6, <1>7, <1>8, <3>1, <3>2
    <3>3. CASE ~Limited
      <4>1. z.at = now' + Profile.AddedLatencyMs
        BY <1>7, <1>8, <1>9, <3>3
      <4>. QED
        BY <3>1, <3>3, <4>1
    <3>. QED
      BY <3>2, <3>3
  <2>. QED
    BY <2>1, <2>2 DEF InOrder
<1>18. TurnsLogged'
  BY <1>3 DEF OrderInv, TurnsLogged
<1>. QED
  BY <1>12, <1>13, <1>14, <1>17, <1>18

LEMMA OrderStep ==
  ASSUME TypeOK, HeapFits, TurnInv, NumberedInv, LocatedInv, OrderInv, NEW e \in heap, Fires(e)
  PROVE  OrderInv'
<1>1. CASE AgentSends(e)
  BY <1>1, OrderSends
<1>2. CASE Speak(e)
  <2> DEFINE x == Event(e.at, e.f.seq, "hear", 0, e.f)
  <2>1. /\ e.act = "speak" /\ Fired(e, {x}) /\ x.act = "hear"
        /\ air' = air /\ queue' = queue /\ obsTurn' = obsTurn
    BY <1>2, SpeakStep
  <2>2. /\ Len(log) \in Nat /\ DOMAIN log = 1 .. Len(log)
        /\ Len(log') \in Len(log) + 1 .. Len(log) + 2 /\ DOMAIN log' = 1 .. Len(log')
        /\ \A i \in 1 .. Len(log) : log'[i] = log[i]
        /\ \A i \in Len(log) + 1 .. Len(log') : log'[i].type \in {"barge_in", "send"}
    BY <1>2, SpeakLog
  <2>3. \A j \in DOMAIN log' : j \in DOMAIN log \/ j \in Len(log) + 1 .. Len(log')
    BY <2>2
  <2>4. \A j \in DOMAIN log' : \/ j \in DOMAIN log /\ log'[j] = log[j]
                               \/ log'[j].type \in {"send", "barge_in"}
    BY <2>2, <2>3
  <2>. HIDE DEF x
  <2>. QED
    BY <2>1, <2>4, OrderKept
<1>3. CASE ReceiveTurnStart(e)
  <2> DEFINE en == Entry("turn_start", e.at, obsTurn + 1, e.f)
  <2>1. PICK new : Fired(e, new) /\ BargesIn(e, new)
    BY <1>3, ReceiveTurnStartStep
  <2>2. \A x \in new : x.act # "recv"
    BY <2>1 DEF BargesIn, Burst, Event
  <2>3. /\ e.act = "recv" /\ e.f.kind = "turn_start" /\ obsTurn' = obsTurn + 1
        /\ en \in Entries /\ log' = Append(log, en) /\ air' = air /\ queue' = queue
    BY <1>3, ReceiveTurnStartStep
  <2>4. en.f = e.f /\ en.turn = obsTurn'
    BY <2>3 DEF Entry
  <2>. HIDE DEF en
  <2>. QED
    BY <2>1, <2>2, <2>3, <2>4, OrderReceive
<1>4. CASE ReceiveOther(e)
  <2>1. PICK type : /\ log' = Append(log, Entry(type, e.at, obsTurn, e.f))
                    /\ Entry(type, e.at, obsTurn, e.f) \in Entries
    BY <1>4, ReceiveOtherStep
  <2> DEFINE en == Entry(type, e.at, obsTurn, e.f)
  <2>2. /\ e.act = "recv" /\ e.f.kind # "turn_start" /\ Fired(e, {}) /\ obsTurn' = obsTurn
        /\ air' = air /\ queue' = queue
    BY <1>4, ReceiveOtherStep
  <2>3. en.f = e.f /\ en.turn = obsTurn' /\ en \in Entries /\ log' = Append(log, en)
    BY <2>1, <2>2 DEF Entry
  <2>. HIDE DEF en
  <2>. QED
    BY <2>2, <2>3, OrderReceive
<1>5. ASSUME NEW new, Fired(e, new), e.act # "recv", \A x \in new : x.act # "recv",
             air' = air, queue' = queue, obsTurn' = obsTurn, log' = log
      PROVE  OrderInv'
  BY <1>5, OrderKept
<1>6. CASE HearWhileTalking(e) \/ TimerIsStale(e)
  <2>1. /\ e.act # "recv" /\ Fired(e, {}) /\ air' = air /\ queue' = queue
        /\ obsTurn' = obsTurn /\ log' = log
    BY <1>6, HearWhileTalkingStep, TimerIsStaleStep DEF Stale
  <2>. QED
    BY <1>5, <2>1
<1>7. CASE HearBargeIn(e)
  <2>1. /\ e.act = "hear" /\ Fired(e, {EarlyEnd(e)}) /\ EarlyEnd(e).act = "emitTurnEnd"
        /\ air' = air /\ queue' = queue /\ obsTurn' = obsTurn /\ log' = log
    BY <1>7, HearBargeInStep
  <2>2. \A x \in {EarlyEnd(e)} : x.act # "recv"
    BY <2>1
  <2>. QED
    BY <1>5, <2>1, <2>2
<1>8. CASE HearUtterance(e)
  <2>1. /\ e.act = "hear" /\ Fired(e, {Armed(e)}) /\ Armed(e).act = "maybeRespond"
        /\ air' = air /\ queue' = queue /\ obsTurn' = obsTurn /\ log' = log
    BY <1>8, HearUtteranceStep
  <2>2. \A x \in {Armed(e)} : x.act # "recv"
    BY <2>1
  <2>. QED
    BY <1>5, <2>1, <2>2
<1>9. CASE Respond(e)
  <2> DEFINE new == TurnEvents(agent.turn + 1, e.at)
  <2>1. /\ e.act = "maybeRespond" /\ Fired(e, new) /\ e.at \in Nat
        /\ air' = air /\ queue' = queue /\ obsTurn' = obsTurn /\ log' = log
    BY <1>9, RespondStep
  <2>2. \A x \in new : x.act # "recv"
    <3>1. agent.turn + 1 \in Nat
      BY AgentTypes
    <3>. QED
      BY <2>1, <3>1, TurnEventFacts
  <2>. HIDE DEF new
  <2>. QED
    BY <1>5, <2>1, <2>2
<1>. QED
  BY <1>1, <1>2, <1>3, <1>4, <1>6, <1>7, <1>8, <1>9, FiresCases

LEMMA OrderInit == Init => OrderInv
<1> SUFFICES ASSUME Init PROVE OrderInv
  OBVIOUS
<1>1. Len(air) = 0 /\ DOMAIN log = {} /\ obsTurn = 0
  BY DEF Init
<1>2. \A x \in heap : x.act = "speak"
  BY SpeechOnly
<1>3. CountedTo(0) /\ UnderWay(0) /\ 0 \in 0 .. Len(air)
  BY <1>1, <1>2 DEF CountedTo, UnderWay
<1>4. InOrder
  BY <1>2 DEF InOrder
<1>5. TurnsLogged
  BY <1>1 DEF TurnsLogged
<1>. QED
  BY <1>3, <1>4, <1>5 DEF OrderInv

LEMMA OrderInvariant == Spec => []OrderInv
<1>1. Init => OrderInv
  BY OrderInit
<1>2. /\ TypeInv /\ HeapFits /\ TurnInv /\ NumberedInv /\ LocatedInv /\ OrderInv /\ [Next]_vars
      => OrderInv'
  <2> SUFFICES ASSUME TypeInv, HeapFits, TurnInv, NumberedInv, LocatedInv, OrderInv, [Next]_vars
               PROVE  OrderInv'
    OBVIOUS
  <2>1. ASSUME NEW e \in heap, Fires(e) PROVE OrderInv'
    BY <2>1, OrderStep DEF TypeInv
  <2>2. ASSUME UNCHANGED vars PROVE OrderInv'
    BY <2>2 DEF vars, OrderInv, LosslessInOrder, CountedTo, UnderWay, InOrder, TurnsLogged
  <2>. QED
    BY <2>1, <2>2 DEF Next, Quiescent
<1>. QED
  BY <1>1, <1>2, TypeInvariant, TurnInvariant, LocatedInvariant, PTL DEF Spec

(* On a link that neither loses nor reorders frames the caller logs every  *)
(* frame and turn marker under the turn the agent sent it in: what arrives *)
(* is the next frame of those that were sent, and they are bracketed.      *)
THEOREM TurnsLoggedRight == Spec => []LogsTurnsRight
<1>1. OrderInv => LogsTurnsRight
  BY DEF OrderInv, TurnsLogged, LogsTurnsRight
<1>. QED
  BY <1>1, OrderInvariant, PTL

-----------------------------------------------------------------------------
(* The turns the caller counts: the invariants.                            *)

KindOf(type) == CASE type \in {"send", "barge_in"} -> "speech"
                  [] type = "recv" -> "agent"
                  [] OTHER -> type
KindsInv == \A j \in DOMAIN log : log[j].f.kind = KindOf(log[j].type)

(* TurnStartsInPlace, before the conversation is over: no TurnStart is     *)
(* lost, and none has been overtaken by audio or by another, whether it    *)
(* has arrived or is still under way.                                      *)
Counts(j) == log[j].type \in {"turn_start", "recv"}
StartUnderWay(x) == x.act = "recv" /\ x.f.kind = "turn_start"
InPlace ==
  /\ \A k \in DOMAIN dropped : dropped[k].kind # "turn_start"
  /\ \A i, j \in DOMAIN log :
       i < j /\ Counts(i) /\ Counts(j) /\ "turn_start" \in {log[i].type, log[j].type} =>
         log[i].f.seq < log[j].f.seq
  /\ \A x \in heap : StartUnderWay(x) =>
       \A j \in DOMAIN log : Counts(j) => log[j].f.seq < x.f.seq

(* The caller has then counted the turns up to the last one it saw begin.  *)
CountedInv ==
  InPlace =>
    /\ \A j \in DOMAIN log : Counts(j) =>
         log[j].turn = log[j].f.turn /\ log[j].f.turn <= obsTurn
    /\ obsTurn > 0 =>
         \E j \in DOMAIN log : log[j].type = "turn_start" /\ log[j].f.turn = obsTurn
    /\ \A x \in heap : StartUnderWay(x) => x.f.turn > obsTurn

(* A link of unlimited bandwidth delays a frame by LinkDelay at most.      *)
LateInv ==
  Profile.BandwidthBps = 0 =>
    /\ \A x \in heap : x.act = "recv" => x.at <= x.f.ts + LinkDelay
    /\ \A j \in DOMAIN log : log[j].type = "recv" => log[j].ts <= log[j].f.ts + LinkDelay

(* Once the caller has barged into a turn, the agent sends no more of it   *)
(* than its latency allows.                                                *)
LastSent(b) == b.ts + FakeConfig.StopLatencyMs
Obeyed(b) ==
  /\ b.ts <= now /\ b.turn <= agent.turn
  /\ \A i \in DOMAIN air :
       air[i].kind = "agent" /\ air[i].turn = b.turn => air[i].ts <= LastSent(b)
  /\ b.turn = agent.turn /\ agent.talking =>
       \/ agent.interrupted /\ agent.stopAt <= LastSent(b)
       \/ \E x \in heap : x.act = "hear" /\ x.at = b.ts
StopsSoon ==
  agent.talking /\ agent.interrupted => agent.stopAt <= now + FakeConfig.StopLatencyMs
ObeyInv ==
  /\ StopsSoon
  /\ InPlace /\ ~FakeConfig.IgnoreBargeIn =>
       \A j \in DOMAIN log : log[j].type = "barge_in" => Obeyed(log[j])

-----------------------------------------------------------------------------
(* The steps, as the caller's log sees them.                               *)

(* Each step leaves what was logged and dropped, and takes at most one     *)
(* frame of the agent's off the heap: the one it logs.                     *)
Kept(s, t) == \A j \in DOMAIN s : j \in DOMAIN t /\ t[j] = s[j]

LEMMA QuietStep ==
  ASSUME TypeOK, NEW e \in heap,
         \/ HearBargeIn(e) \/ HearWhileTalking(e) \/ HearUtterance(e)
         \/ TimerIsStale(e) \/ Respond(e)
  PROVE  \E new : /\ Fired(e, new) /\ e.act # "recv" /\ \A x \in new : x.act # "recv"
                  /\ UNCHANGED <<log, dropped, air, obsTurn>>
<1>1. CASE HearBargeIn(e)
  <2>1. Fired(e, {EarlyEnd(e)}) /\ e.act = "hear" /\ EarlyEnd(e).act = "emitTurnEnd"
        /\ UNCHANGED <<log, dropped, air, obsTurn>>
    BY <1>1, HearBargeInStep
  <2>2. \A x \in {EarlyEnd(e)} : x.act # "recv"
    BY <2>1
  <2>. QED
    BY <2>1, <2>2
<1>2. CASE HearWhileTalking(e)
  <2>1. Fired(e, {}) /\ e.act = "hear" /\ UNCHANGED <<log, dropped, air, obsTurn>>
    BY <1>2, HearWhileTalkingStep
  <2>. QED
    BY <2>1
<1>3. CASE HearUtterance(e)
  <2>1. Fired(e, {Armed(e)}) /\ e.act = "hear" /\ Armed(e).act = "maybeRespond"
        /\ UNCHANGED <<log, dropped, air, obsTurn>>
    BY <1>3, HearUtteranceStep
  <2>2. \A x \in {Armed(e)} : x.act # "recv"
    BY <2>1
  <2>. QED
    BY <2>1, <2>2
<1>4. CASE TimerIsStale(e)
  <2>1. Fired(e, {}) /\ Stale(e) /\ UNCHANGED <<log, dropped, air, obsTurn>>
    BY <1>4, TimerIsStaleStep
  <2>2. e.act # "recv"
    BY <2>1 DEF Stale
  <2>. QED
    BY <2>1, <2>2
<1>5. CASE Respond(e)
  <2> DEFINE new == TurnEvents(agent.turn + 1, e.at)
  <2>1. /\ e.act = "maybeRespond" /\ Fired(e, new) /\ e.at \in Nat
        /\ UNCHANGED <<log, dropped, air, obsTurn>>
    BY <1>5, RespondStep
  <2>2. \A x \in new : x.act # "recv"
    <3>1. agent.turn + 1 \in Nat
      BY AgentTypes
    <3>. QED
      BY <2>1, <3>1, TurnEventFacts
  <2>. HIDE DEF new
  <2>. QED
    BY <2>1, <2>2
<1>. QED
  BY <1>1, <1>2, <1>3, <1>4, <1>5

LEMMA SpeakLogs ==
  ASSUME TypeOK, HeapFits, NEW e \in heap, Speak(e)
  PROVE  /\ Kept(log, log')
         /\ \A j \in DOMAIN log' :
              \/ j \in DOMAIN log /\ log'[j] = log[j]
              \/ /\ log'[j].type \in {"barge_in", "send"} /\ log'[j].f.kind = "speech"
                 /\ log'[j].ts = e.at /\ log'[j].turn = obsTurn
<1>1. e.act = "speak" /\ e \in Events
  BY SpeakStep DEF Fired
<1>2. e.f.kind = "speech" /\ e.f.ts = e.at
  BY <1>1 DEF HeapFits, Fits, CallerActs
<1>3. /\ Len(log) \in Nat /\ DOMAIN log = 1 .. Len(log)
      /\ Len(log') \in Len(log) + 1 .. Len(log) + 2 /\ DOMAIN log' = 1 .. Len(log')
      /\ \A i \in 1 .. Len(log) : log'[i] = log[i]
      /\ \A i \in Len(log) + 1 .. Len(log') :
           /\ log'[i].f = e.f /\ log'[i].ts = e.f.ts
           /\ log'[i].turn = obsTurn /\ log'[i].type \in {"barge_in", "send"}
  BY SpeakLog
<1>4. \A j \in DOMAIN log : j \in DOMAIN log'
  BY <1>3
<1>5. \A j \in DOMAIN log' : j \in DOMAIN log \/ j \in Len(log) + 1 .. Len(log')
  BY <1>3
<1>. QED
  BY <1>2, <1>3, <1>4, <1>5 DEF Kept

TypeFor(kind) == IF kind \in {"turn_start", "turn_end"} THEN kind ELSE "recv"

LEMMA ReceiveStep ==
  ASSUME TypeOK, HeapFits, NEW e \in heap, ReceiveTurnStart(e) \/ ReceiveOther(e)
  PROVE  /\ e.act = "recv" /\ e.f \in Frames /\ e.f.kind \in {"agent", "turn_start", "turn_end"}
         /\ obsTurn' = IF e.f.kind = "turn_start" THEN obsTurn + 1 ELSE obsTurn
         /\ \E new : Fired(e, new) /\ \A x \in new : x.act = "speak"
         /\ \E en \in Entries :
              /\ en.type = TypeFor(e.f.kind) /\ en.f = e.f /\ en.ts = e.at /\ en.turn = obsTurn'
              /\ log' = Append(log, en)
         /\ UNCHANGED <<agent, dropped, air>>
<1>1. CASE ReceiveTurnStart(e)
  <2> DEFINE en == Entry("turn_start", e.at, obsTurn + 1, e.f)
  <2>1. /\ e.act = "recv" /\ e.f.kind = "turn_start" /\ obsTurn' = obsTurn + 1
        /\ log' = Append(log, en) /\ en \in Entries
        /\ \E new : Fired(e, new) /\ BargesIn(e, new)
        /\ UNCHANGED <<agent, dropped, air>>
    BY <1>1, ReceiveTurnStartStep
  <2>2. PICK new : Fired(e, new) /\ BargesIn(e, new)
    BY <2>1
  <2>3. \A x \in new : x.act = "speak"
    BY <2>2 DEF BargesIn, Burst, Event
  <2>4. en.type = "turn_start" /\ en.f = e.f /\ en.ts = e.at /\ en.turn = obsTurn + 1
    BY DEF Entry
  <2>5. e.f \in Frames
    BY <2>2 DEF Fired, Events
  <2>. HIDE DEF en
  <2>. QED
    BY <2>1, <2>2, <2>3, <2>4, <2>5 DEF TypeFor
<1>2. CASE ReceiveOther(e)
  <2> DEFINE type == IF e.f.kind = "turn_end" THEN "turn_end" ELSE "recv"
             en == Entry(type, e.at, obsTurn, e.f)
  <2>1. /\ e.act = "recv" /\ e.f.kind # "turn_start" /\ Fired(e, {})
        /\ UNCHANGED <<agent, dropped, air, obsTurn>>
    BY <1>2, ReceiveOtherStep
  <2>2. e.at \in Nat /\ e.f \in Frames /\ now' = e.at
    BY <2>1 DEF Fired, Events
  <2>3. log' = Append(log, en)
    BY <2>2, <1>2 DEF ReceiveOther
  <2>4. e.f.kind # "speech"
    BY <2>1 DEF HeapFits, Fits
  <2>5. e.f.kind \in {"agent", "turn_end"}
    BY <2>1, <2>2, <2>4 DEF Frames
  <2>6. en.type = type /\ en.f = e.f /\ en.ts = e.at /\ en.turn = obsTurn
    BY DEF Entry
  <2>7. en \in Entries
    BY <2>2, CallerTypes DEF Entry, Entries
  <2>8. type = TypeFor(e.f.kind)
    BY <2>5 DEF TypeFor
  <2>9. \A x \in {} : x.act = "speak"
    OBVIOUS
  <2>. HIDE DEF en, type
  <2>. QED
    BY <2>1, <2>2, <2>3, <2>5, <2>6, <2>7, <2>8, <2>9
<1>. QED
  BY <1>1, <1>2

LEMMA ReceiveLogs ==
  ASSUME TypeOK, NEW en \in Entries, log' = Append(log, en)
  PROVE  /\ Kept(log, log') /\ Len(log) \in Nat
         /\ DOMAIN log = 1 .. Len(log) /\ DOMAIN log' = 1 .. Len(log) + 1
         /\ \A j \in 1 .. Len(log) : log'[j] = log[j]
         /\ log'[Len(log) + 1] = en
<1>1. log \in Seq(Entries)
  BY DEF TypeOK
<1>2. /\ DOMAIN log = 1 .. Len(log) /\ DOMAIN log' = 1 .. Len(log) + 1 /\ Len(log) \in Nat
      /\ \A j \in 1 .. Len(log) : log'[j] = log[j]
      /\ log'[Len(log) + 1] = en
  BY <1>1, Appended
<1>3. \A j \in 1 .. Len(log) : j \in 1 .. Len(log) + 1
  BY <1>2
<1>. QED
  BY <1>2, <1>3 DEF Kept

(* What the agent sends is a frame on the heap or one that is dropped.     *)
LEMMA SendsDown ==
  ASSUME TypeOK, NEW e \in heap, AgentSends(e)
  PROVE  /\ e.act \in SendActs /\ SentBy(e) \in Frames /\ air' = Append(air, SentBy(e))
         /\ UNCHANGED <<log, obsTurn>>
         /\ \E new : /\ Fired(e, new) /\ \A x \in new : x.act = "recv" /\ x.f = SentBy(e)
                     /\ \/ new = {} /\ dropped' = Append(dropped, SentBy(e))
                        \/ dropped' = dropped
<1>1. /\ e.act \in SendActs /\ e \in Events /\ e.at \in Nat
      /\ Sends(e, SentBy(e), PayloadOf(e)) /\ air' = Append(air, SentBy(e))
      /\ UNCHANGED <<log, obsTurn>>
  BY AgentSendsStep
<1>2. SentBy(e) \in Frames /\ PayloadOf(e) \in Nat
  BY <1>1, SentByFacts
<1>3. PICK o \in Delay(queue, PayloadOf(e), e.at) :
        \/ o.drop /\ dropped' = Append(dropped, SentBy(e)) /\ Fired(e, {})
        \/ ~o.drop /\ dropped' = dropped /\ Fired(e, {Arrival(o, SentBy(e))})
  BY <1>1 DEF Sends
<1>4. CASE o.drop
  BY <1>1, <1>2, <1>3, <1>4
<1>5. CASE ~o.drop
  <2> DEFINE x == Arrival(o, SentBy(e))
  <2>1. x.act = "recv" /\ x.f = SentBy(e)
    BY <1>1, <1>2, <1>5, ArrivalFacts
  <2>. HIDE DEF x
  <2>2. Fired(e, {x})
    BY <1>3, <1>5 DEF x
  <2>. QED
    BY <1>1, <1>2, <1>3, <1>5, <2>1, <2>2
<1>. QED
  BY <1>4, <1>5

-----------------------------------------------------------------------------
(* What is in the log.                                                     *)

LEMMA KindsStep ==
  ASSUME TypeOK, HeapFits, KindsInv, NEW e \in heap, Fires(e)
  PROVE  KindsInv'
<1>1. CASE Speak(e)
  <2>1. ASSUME NEW j \in DOMAIN log' PROVE log'[j].f.kind = KindOf(log'[j].type)
    BY <1>1, SpeakLogs DEF KindsInv, KindOf
  <2>. QED
    BY <2>1 DEF KindsInv
<1>2. CASE ReceiveTurnStart(e) \/ ReceiveOther(e)
  <2>1. e.f.kind \in {"agent", "turn_start", "turn_end"}
    BY <1>2, ReceiveStep
  <2>2. PICK en \in Entries :
          en.type = TypeFor(e.f.kind) /\ en.f = e.f /\ log' = Append(log, en)
    BY <1>2, ReceiveStep
  <2>3. en.f.kind = KindOf(en.type)
    BY <2>1, <2>2 DEF KindOf, TypeFor
  <2>4. /\ DOMAIN log = 1 .. Len(log) /\ DOMAIN log' = 1 .. Len(log) + 1 /\ Len(log) \in Nat
        /\ \A j \in 1 .. Len(log) : log'[j] = log[j]
        /\ log'[Len(log) + 1] = en
    BY <2>2, ReceiveLogs
  <2>5. ASSUME NEW j \in DOMAIN log' PROVE log'[j].f.kind = KindOf(log'[j].type)
    <3>1. j \in DOMAIN log \/ j = Len(log) + 1
      BY <2>4
    <3>. QED
      BY <2>3, <2>4, <3>1 DEF KindsInv
  <2>. QED
    BY <2>5 DEF KindsInv
<1>3. CASE \/ HearBargeIn(e) \/ HearWhileTalking(e) \/ HearUtterance(e)
           \/ TimerIsStale(e) \/ Respond(e) \/ AgentSends(e)
  <2>1. log' = log
    BY <1>3, QuietStep, SendsDown
  <2>. QED
    BY <2>1 DEF KindsInv
<1>. QED
  BY <1>1, <1>2, <1>3, FiresCases

(* What keeps a TurnStart out of place keeps it there: while there is more *)
(* to come, what has come is already in place.                             *)
LEMMA InPlaceBefore ==
  ASSUME TypeOK, HeapFits, NEW e \in heap, Fires(e), InPlace'
  PROVE  InPlace
<1>1. (\A k \in DOMAIN dropped : k \in DOMAIN dropped' /\ dropped'[k] = dropped[k])
      /\ Kept(log, log')
      /\ \A x \in heap : x.act = "recv" =>
           \/ x \in heap'
           \/ \E l \in DOMAIN log' :
                /\ log'[l].f = x.f /\ log'[l].type = TypeFor(x.f.kind)
                /\ \A j \in DOMAIN log : j < l
  <2>1. CASE Speak(e)
    <3>1. Kept(log, log') /\ dropped' = dropped
      BY <2>1, SpeakLogs, SpeakStep
    <3>2. e.act = "speak" /\ \A x \in heap : x # e => x \in heap'
      BY <2>1, SpeakStep DEF Fired
    <3>. QED
      BY <3>1, <3>2
  <2>2. CASE ReceiveTurnStart(e) \/ ReceiveOther(e)
    <3>1. dropped' = dropped /\ \A x \in heap : x # e => x \in heap'
      BY <2>2, ReceiveStep DEF Fired
    <3>2. PICK en \in Entries :
            en.type = TypeFor(e.f.kind) /\ en.f = e.f /\ log' = Append(log, en)
      BY <2>2, ReceiveStep
    <3>3. /\ Kept(log, log') /\ Len(log) \in Nat
          /\ DOMAIN log = 1 .. Len(log) /\ DOMAIN log' = 1 .. Len(log) + 1
          /\ log'[Len(log) + 1] = en
      BY <3>2, ReceiveLogs
    <3>4. Len(log) + 1 \in DOMAIN log' /\ \A j \in DOMAIN log : j < Len(log) + 1
      BY <3>3
    <3>. QED
      BY <3>1, <3>2, <3>3, <3>4
  <2>3. CASE \/ HearBargeIn(e) \/ HearWhileTalking(e) \/ HearUtterance(e)
             \/ TimerIsStale(e) \/ Respond(e)
    <3>1. /\ e.act # "recv" /\ log' = log /\ dropped' = dropped
          /\ \A x \in heap : x # e => x \in heap'
      BY <2>3, QuietStep DEF Fired
    <3>. QED
      BY <3>1 DEF Kept
  <2>4. CASE AgentSends(e)
    <3>1. /\ e.act \in SendActs /\ log' = log /\ SentBy(e) \in Frames
          /\ \A x \in heap : x # e => x \in heap'
          /\ dropped' = dropped \/ dropped' = Append(dropped, SentBy(e))
      BY <2>4, SendsDown DEF Fired
    <3>2. dropped \in Seq(Frames)
      BY DEF TypeOK
    <3>3. \A k \in DOMAIN dropped : k \in DOMAIN dropped' /\ dropped'[k] = dropped[k]
      BY <3>1, <3>2, Grown
    <3>4. e.act # "recv"
      BY <3>1 DEF SendActs, EmitActs
    <3>. QED
      BY <3>1, <3>3, <3>4 DEF Kept
  <2>. QED
    BY <2>1, <2>2, <2>3, <2>4, FiresCases
<1>2. \A k \in DOMAIN dropped : dropped[k].kind # "turn_start"
  BY <1>1 DEF InPlace
<1>3. ASSUME NEW i \in DOMAIN log, NEW j \in DOMAIN log, i < j, Counts(i), Counts(j),
             "turn_start" \in {log[i].type, log[j].type}
      PROVE  log[i].f.seq < log[j].f.seq
  <2>1. /\ i \in DOMAIN log' /\ log'[i] = log[i] /\ j \in DOMAIN log' /\ log'[j] = log[j]
    BY <1>1 DEF Kept
  <2>. QED
    BY <1>3, <2>1 DEF InPlace, Counts
<1>4. ASSUME NEW x \in heap, StartUnderWay(x), NEW j \in DOMAIN log, Counts(j)
      PROVE  log[j].f.seq < x.f.seq
  <2>1. j \in DOMAIN log' /\ log'[j] = log[j]
    BY <1>1 DEF Kept
  <2>2. CASE x \in heap'
    BY <1>4, <2>1, <2>2 DEF InPlace, Counts
  <2>3. CASE x \notin heap'
    <3>1. PICK l \in DOMAIN log' : /\ log'[l].f = x.f /\ log'[l].type = "turn_start"
                                   /\ j < l
      BY <1>1, <1>4, <2>3 DEF StartUnderWay, TypeFor
    <3>2. log'[j].f.seq < log'[l].f.seq
      BY <1>4, <2>1, <3>1 DEF InPlace, Counts
    <3>. QED
      BY <2>1, <3>1, <3>2
  <2>. QED
    BY <2>2, <2>3
<1>. QED
  BY <1>2, <1>3, <1>4 DEF InPlace

-----------------------------------------------------------------------------
(* The turns on the air.                                                   *)

LEMMA AirShape ==
  ASSUME TypeOK
  PROVE  /\ Len(air) \in Nat /\ DOMAIN air = 1 .. Len(air)
         /\ \A i \in DOMAIN air : air[i].turn \in Nat /\ air[i].seq \in Nat /\ air[i].ts \in Nat
<1>1. air \in Seq(Frames)
  BY DEF TypeOK
<1>2. \A i \in DOMAIN air : air[i] \in Frames
  BY <1>1, ElementOfSeq, LenProperties
<1>. QED
  BY <1>1, <1>2, LenProperties DEF Frames

(* A turn's number grows along the air, and each turn up to a frame's      *)
(* began there before.                                                     *)
Begins(t, i) == \E s \in 1 .. i : air[s].kind = "turn_start" /\ air[s].turn = t
LEMMA TurnsInOrder ==
  ASSUME TypeOK, Bracketed
  PROVE  \A i \in DOMAIN air :
           /\ air[i].turn >= 1
           /\ \A k \in 1 .. i : air[k].turn <= air[i].turn
           /\ \A k \in 1 .. i : k < i /\ air[i].kind = "turn_start" => air[k].turn < air[i].turn
           /\ \A t \in 1 .. air[i].turn : Begins(t, i)
<1> DEFINE Ordered(i) ==
             /\ air[i].turn >= 1
             /\ \A k \in 1 .. i : air[k].turn <= air[i].turn
             /\ \A k \in 1 .. i : k < i /\ air[i].kind = "turn_start" => air[k].turn < air[i].turn
             /\ \A t \in 1 .. air[i].turn : Begins(t, i)
           S == {n \in Nat : n \in 1 .. Len(air) => Ordered(n)}
<1>1. /\ Len(air) \in Nat /\ DOMAIN air = 1 .. Len(air)
      /\ \A i \in 1 .. Len(air) : air[i].turn \in Nat
  BY AirShape
<1>2. 0 \in S
  BY <1>1
<1>3. ASSUME NEW n \in Nat, n \in S PROVE n + 1 \in S
  <2> SUFFICES ASSUME n + 1 \in 1 .. Len(air) PROVE Ordered(n + 1)
    <3>. HIDE DEF Ordered
    <3>. QED
      OBVIOUS
  <2> DEFINE a == air[n + 1]
             b == air[n]
  <2>1. IF n + 1 = 1 \/ a.kind = "turn_start"
        THEN /\ a.kind = "turn_start"
             /\ a.turn = (IF n + 1 = 1 THEN 1 ELSE b.turn + 1)
        ELSE a.turn = b.turn
    <3>1. PICK i \in DOMAIN air : i = n + 1 /\ i - 1 = n
      BY <1>1
    <3>2. IF i = 1 \/ air[i].kind = "turn_start"
          THEN /\ air[i].kind = "turn_start"
               /\ air[i].turn = (IF i = 1 THEN 1 ELSE air[i - 1].turn + 1)
          ELSE air[i].turn = air[i - 1].turn
      BY DEF Bracketed
    <3>. QED
      BY <3>1, <3>2
  <2>2. n # 0 => n \in 1 .. Len(air) /\ Ordered(n) /\ b.turn \in Nat
    <3>1. n # 0 => n \in 1 .. Len(air)
      BY <1>1
    <3>. HIDE DEF Ordered
    <3>. QED
      BY <1>1, <1>3, <3>1
  <2>3. a.turn \in Nat /\ \A k \in 1 .. n + 1 : air[k].turn \in Nat
    BY <1>1
  <2>4. \A k \in 1 .. n + 1 : k = n + 1 \/ (n # 0 /\ k \in 1 .. n)
    OBVIOUS
  <2>5. ASSUME NEW k \in 1 .. n + 1
        PROVE  /\ air[k].turn <= a.turn
               /\ k < n + 1 /\ a.kind = "turn_start" => air[k].turn < a.turn
    <3>1. CASE k = n + 1
      BY <2>3, <3>1
    <3>2. CASE n # 0 /\ k \in 1 .. n
      <4>1. air[k].turn <= b.turn /\ air[k].turn \in Nat /\ b.turn \in Nat
        BY <2>2, <2>3, <3>2
      <4>2. n + 1 # 1
        BY <3>2
      <4>. HIDE DEF a, b
      <4>. QED
        BY <2>1, <2>3, <4>1, <4>2
    <3>. QED
      BY <2>4, <3>1, <3>2
  <2>6. ASSUME NEW t \in 1 .. a.turn PROVE Begins(t, n + 1)
    <3>1. CASE n # 0 /\ t \in 1 .. b.turn
      <4>1. PICK s \in 1 .. n : air[s].kind = "turn_start" /\ air[s].turn = t
        BY <2>2, <3>1 DEF Begins
      <4>2. s \in 1 .. n + 1
        OBVIOUS
      <4>. QED
        BY <4>1, <4>2 DEF Begins
    <3>2. CASE ~(n # 0 /\ t \in 1 .. b.turn)
      <4>1. a.kind = "turn_start" /\ a.turn = t
        <5>1. t \in Nat /\ t >= 1 /\ t <= a.turn
          BY <2>3
        <5>2. n # 0 => b.turn \in Nat
          BY <2>2
        <5>. HIDE DEF a, b
        <5>. QED
          BY <2>1, <2>3, <3>2, <5>1, <5>2
      <4>2. n + 1 \in 1 .. n + 1
        OBVIOUS
      <4>. QED
        BY <4>1, <4>2 DEF Begins
    <3>. QED
      BY <3>1, <3>2
  <2>7. a.turn >= 1
    <3>1. n # 0 => b.turn >= 1 /\ b.turn \in Nat
      BY <2>2
    <3>2. n # 0 <=> n + 1 # 1
      OBVIOUS
    <3>. HIDE DEF a, b
    <3>. QED
      BY <2>1, <2>3, <3>1, <3>2
  <2>. QED
    BY <2>5, <2>6, <2>7
<1>4. \A n \in Nat : n \in S
  <2>. HIDE DEF S
  <2>. QED
    BY <1>2, <1>3, NatInduct
<1>5. ASSUME NEW i \in DOMAIN air PROVE Ordered(i)
  <2>1. i \in Nat /\ i \in 1 .. Len(air)
    BY <1>1
  <2>. HIDE DEF Ordered
  <2>. QED
    BY <1>4, <2>1
<1>. QED
  BY <1>5

LEMMA LastBounds ==
  ASSUME TypeOK, Bracketed, NEW turn \in Nat, NEW closed, SentLast(turn, closed)
  PROVE  \A i \in DOMAIN air : air[i].turn <= turn
<1>1. /\ Len(air) \in Nat /\ DOMAIN air = 1 .. Len(air)
      /\ \A i \in DOMAIN air : air[i].turn \in Nat
  BY AirShape
<1>2. ASSUME NEW i \in DOMAIN air PROVE air[i].turn <= turn
  <2>1. Len(air) \in DOMAIN air /\ i \in 1 .. Len(air)
    BY <1>1
  <2>2. air[i].turn <= air[Len(air)].turn
    BY <2>1, TurnsInOrder
  <2>3. turn # 0
    <3>1. air # << >>
      BY <1>1
    <3>. QED
      BY <3>1 DEF SentLast
  <2>. QED
    BY <2>2, <2>3 DEF SentLast
<1>. QED
  BY <1>2

LEMMA TurnsSent ==
  ASSUME TypeOK, TurnInv
  PROVE  \A i \in DOMAIN air : air[i].turn <= agent.turn
<1>1. agent.turn \in Nat /\ Bracketed /\ Starting /\ Started
  BY AgentTypes DEF TurnInv
<1>2. CASE \A s \in heap : s.act # "sendTurnStart"
  <2>1. SentLast(agent.turn, ~agent.talking)
    BY <1>1, <1>2 DEF Started
  <2>. QED
    BY <1>1, <2>1, LastBounds
<1>3. CASE \E s \in heap : s.act = "sendTurnStart"
  <2>1. SentLast(agent.turn - 1, TRUE)
    BY <1>1, <1>3 DEF Starting
  <2>2. CASE agent.turn = 0
    <3>1. air = << >>
      <4>1. agent.turn - 1 # 0
        BY <2>2
      <4>2. air # << >> /\ air[Len(air)].turn = agent.turn - 1
        BY <2>1, <4>1 DEF SentLast
      <4>3. Len(air) \in DOMAIN air
        <5>1. air \in Seq(Frames)
          BY DEF TypeOK
        <5>. QED
          BY <4>2, <5>1, AirShape, EmptySeq
      <4>4. air[Len(air)].turn \in Nat
        BY <4>3, AirShape
      <4>. QED
        BY <2>2, <4>2, <4>4
    <3>2. DOMAIN air = {}
      BY <3>1
    <3>. QED
      BY <3>2
  <2>3. CASE agent.turn # 0
    <3>1. agent.turn - 1 \in Nat
      BY <1>1, <2>3
    <3>2. \A i \in DOMAIN air : air[i].turn <= agent.turn - 1 /\ air[i].turn \in Nat
      BY <1>1, <2>1, <3>1, LastBounds, AirShape
    <3>. QED
      BY <1>1, <3>2
  <2>. QED
    BY <2>2, <2>3
<1>. QED
  BY <1>2, <1>3

(* Frames and their turns have the same order.                             *)
LEMMA NumbersFollowTurns ==
  ASSUME TypeOK, NumberedInv, Bracketed, NEW i \in DOMAIN air, NEW k \in DOMAIN air
  PROVE  /\ air[i].turn < air[k].turn => air[i].seq < air[k].seq
         /\ air[i].seq < air[k].seq /\ air[k].kind = "turn_start" => air[i].turn < air[k].turn
<1>1. /\ Len(air) \in Nat /\ DOMAIN air = 1 .. Len(air)
      /\ \A j \in DOMAIN air : air[j].turn \in Nat /\ air[j].seq \in Nat
  BY AirShape
<1>2. \A x, y \in DOMAIN air : x < y => air[x].seq < air[y].seq
  BY DEF NumberedInv
<1>3. CASE i < k
  <2>1. i \in 1 .. k /\ air[i].seq < air[k].seq
    BY <1>1, <1>2, <1>3
  <2>. QED
    BY <1>3, <2>1, TurnsInOrder
<1>4. CASE ~(i < k)
  <2>1. k \in 1 .. i
    BY <1>1, <1>4
  <2>2. air[k].turn <= air[i].turn
    BY <2>1, TurnsInOrder
  <2>3. k = i \/ air[k].seq < air[i].seq
    <3>1. k = i \/ k < i
      BY <1>1, <1>4
    <3>. QED
      BY <1>2, <3>1
  <2>4. ~(air[i].turn < air[k].turn)
    BY <1>1, <2>2
  <2>5. ~(air[i].seq < air[k].seq)
    <3>1. CASE k = i
      BY <1>1, <3>1
    <3>2. CASE air[k].seq < air[i].seq
      BY <1>1, <3>2
    <3>. QED
      BY <2>3, <3>1, <3>2
  <2>. QED
    BY <2>4, <2>5
<1>. QED
  BY <1>3, <1>4

(* Before any frame of a turn the agent sent the turn's TurnStart.         *)
LEMMA StartSent ==
  ASSUME TypeOK, NumberedInv, Bracketed, NEW i \in DOMAIN air, NEW t \in 1 .. air[i].turn,
         t < air[i].turn \/ air[i].kind # "turn_start"
  PROVE  \E s \in DOMAIN air : /\ air[s].kind = "turn_start" /\ air[s].turn = t
                               /\ air[s].seq < air[i].seq
<1>1. /\ Len(air) \in Nat /\ DOMAIN air = 1 .. Len(air)
      /\ \A j \in DOMAIN air : air[j].turn \in Nat
  BY AirShape
<1>2. PICK s \in 1 .. i : air[s].kind = "turn_start" /\ air[s].turn = t
  BY TurnsInOrder DEF Begins
<1>3. s # i
  <2>1. air[i].turn \in Nat
    BY <1>1
  <2>2. ~(air[i].turn < air[i].turn)
    BY <2>1
  <2>. QED
    BY <1>2, <2>2
<1>4. s \in DOMAIN air /\ s < i
  BY <1>1, <1>3
<1>. QED
  BY <1>2, <1>4 DEF NumberedInv

(* Where no TurnStart is lost, one that was sent is under way or logged.   *)
LEMMA StartArrives ==
  ASSUME LocatedInv, KindsInv, InPlace, NEW s \in DOMAIN air, air[s].kind = "turn_start"
  PROVE  \/ \E x \in heap : StartUnderWay(x) /\ x.f = air[s]
         \/ \E j \in DOMAIN log : log[j].type = "turn_start" /\ log[j].f = air[s]
<1>1. Once(heap, log, dropped, air[s])
  BY DEF LocatedInv
<1>2. Drops(dropped, air[s]) = {}
  BY DEF InPlace, Drops
<1>3. CASE \E x \in heap : Ways(heap, air[s]) = {x}
  <2>1. PICK x \in heap : x \in Ways(heap, air[s])
    BY <1>3
  <2>. QED
    BY <2>1 DEF Ways, StartUnderWay
<1>4. CASE \E j \in DOMAIN log : Logs(log, air[s]) = {j}
  <2>1. PICK j \in DOMAIN log : j \in Logs(log, air[s])
    BY <1>4
  <2>2. log[j].f = air[s] /\ KindOf(log[j].type) = "turn_start"
    BY <2>1 DEF Logs, KindsInv
  <2>3. log[j].type = "turn_start"
    BY <2>2 DEF KindOf
  <2>. QED
    BY <2>2, <2>3
<1>. QED
  BY <1>1, <1>2, <1>3, <1>4 DEF Once

-----------------------------------------------------------------------------
(* The caller's count of the turns.                                        *)

(* A step that sends no TurnStart of a turn already begun, and receives    *)
(* neither a TurnStart nor audio.                                          *)
LEMMA CountedKept ==
  ASSUME CountedInv, InPlace, NEW e, NEW new, Fired(e, new), Kept(log, log'),
         obsTurn' = obsTurn,
         \A j \in DOMAIN log' : (j \in DOMAIN log /\ log'[j] = log[j])
                                  \/ log'[j].type \notin {"turn_start", "recv"},
         \A x \in new : StartUnderWay(x) => x.f.turn > obsTurn
  PROVE  CountedInv'
<1>1. ASSUME NEW j \in DOMAIN log', log'[j].type \in {"turn_start", "recv"}
      PROVE  log'[j].turn = log'[j].f.turn /\ log'[j].f.turn <= obsTurn'
  <2>1. j \in DOMAIN log /\ log'[j] = log[j]
    BY <1>1
  <2>. QED
    BY <1>1, <2>1 DEF CountedInv, Counts
<1>2. ASSUME obsTurn' > 0
      PROVE  \E j \in DOMAIN log' : log'[j].type = "turn_start" /\ log'[j].f.turn = obsTurn'
  <2>1. PICK j \in DOMAIN log : log[j].type = "turn_start" /\ log[j].f.turn = obsTurn
    BY <1>2 DEF CountedInv
  <2>2. j \in DOMAIN log' /\ log'[j] = log[j]
    BY DEF Kept
  <2>. QED
    BY <2>1, <2>2
<1>3. ASSUME NEW x \in heap', StartUnderWay(x) PROVE x.f.turn > obsTurn'
  BY <1>3 DEF Fired, CountedInv
<1>. QED
  BY <1>1, <1>2, <1>3 DEF CountedInv, Counts

(* What has been sent and is neither the frame received nor logged before  *)
(* is still under way, hence behind it.                                    *)
LEMMA StartBefore ==
  ASSUME LocatedInv, KindsInv, CountedInv, InPlace, InPlace', TypeOK,
         NEW e, NEW new, Fired(e, new),
         e.f.kind \in {"agent", "turn_start"}, e.f \in Frames,
         NEW en \in Entries, en.type = TypeFor(e.f.kind), en.f = e.f, log' = Append(log, en),
         NEW s \in DOMAIN air, air[s].kind = "turn_start", air[s] # e.f,
         air[s].seq < e.f.seq
  PROVE  air[s].turn <= obsTurn
<1>1. CASE \E x \in heap : StartUnderWay(x) /\ x.f = air[s]
  <2>1. PICK x \in heap : StartUnderWay(x) /\ x.f = air[s]
    BY <1>1
  <2>2. x \in heap'
    BY <2>1 DEF Fired
  <2>3. Len(log) + 1 \in DOMAIN log' /\ log'[Len(log) + 1] = en
    BY ReceiveLogs
  <2>4. en.type \in {"turn_start", "recv"}
    BY DEF TypeFor
  <2>5. e.f.seq < air[s].seq
    BY <2>1, <2>2, <2>3, <2>4 DEF InPlace, Counts
  <2>6. e.f.seq \in Nat /\ air[s].seq \in Nat
    BY AirShape DEF Frames
  <2>. QED
    BY <2>5, <2>6
<1>2. CASE \E j \in DOMAIN log : log[j].type = "turn_start" /\ log[j].f = air[s]
  <2>1. PICK j \in DOMAIN log : log[j].type = "turn_start" /\ log[j].f = air[s]
    BY <1>2
  <2>. QED
    BY <2>1 DEF CountedInv, Counts
<1>. QED
  BY <1>1, <1>2, StartArrives

LEMMA CountedReceive ==
  ASSUME TypeOK, HeapFits, TurnInv, NumberedInv, LocatedInv, KindsInv, CountedInv,
         InPlace, InPlace', NEW e \in heap, ReceiveTurnStart(e) \/ ReceiveOther(e)
  PROVE  CountedInv'
<1>1. /\ e.act = "recv" /\ e.f \in Frames /\ e.f.kind \in {"agent", "turn_start", "turn_end"}
      /\ obsTurn' = IF e.f.kind = "turn_start" THEN obsTurn + 1 ELSE obsTurn
      /\ air' = air
  BY ReceiveStep
<1>2. PICK new : Fired(e, new) /\ \A x \in new : x.act = "speak"
  BY ReceiveStep
<1>3. PICK en \in Entries : /\ en.type = TypeFor(e.f.kind) /\ en.f = e.f /\ en.turn = obsTurn'
                            /\ log' = Append(log, en)
  BY ReceiveStep
<1>4. /\ Kept(log, log') /\ Len(log) \in Nat
      /\ DOMAIN log = 1 .. Len(log) /\ DOMAIN log' = 1 .. Len(log) + 1
      /\ \A j \in 1 .. Len(log) : log'[j] = log[j]
      /\ log'[Len(log) + 1] = en
  BY <1>3, ReceiveLogs
<1> DEFINE n == Len(log) + 1
<1>5. n \in DOMAIN log' /\ (\A j \in DOMAIN log : j < n) /\ \A j \in DOMAIN log' : j \in DOMAIN log \/ j = n
  BY <1>4
<1>6. PICK i \in DOMAIN air : air[i] = e.f
  BY <1>1 DEF LocatedInv, Sent
<1>7. Bracketed /\ obsTurn \in Nat /\ e.f.turn \in Nat /\ e.f.turn >= 1 /\ e.f.seq \in Nat
  <2>1. Bracketed
    BY DEF TurnInv
  <2>. QED
    BY <1>1, <1>6, <2>1, CallerTypes, TurnsInOrder DEF Frames
<1>8. \A x \in heap' : StartUnderWay(x) => x \in heap
  BY <1>2 DEF Fired, StartUnderWay
<1>. HIDE DEF n
<1>9. CASE e.f.kind = "turn_end"
  <2>1. obsTurn' = obsTurn /\ en.type = "turn_end"
    BY <1>1, <1>3, <1>9 DEF TypeFor
  <2>2. \A j \in DOMAIN log' : (j \in DOMAIN log /\ log'[j] = log[j])
                                  \/ log'[j].type \notin {"turn_start", "recv"}
    BY <1>4, <1>5, <2>1 DEF n
  <2>3. \A x \in new : StartUnderWay(x) => x.f.turn > obsTurn
    BY <1>2 DEF StartUnderWay
  <2>. QED
    BY <1>2, <1>4, <2>1, <2>2, <2>3, CountedKept
<1>10. CASE e.f.kind = "turn_start"
  <2>1. obsTurn' = obsTurn + 1 /\ en.type = "turn_start"
    BY <1>1, <1>3, <1>10 DEF TypeFor
  <2>2. e.f.turn > obsTurn
    BY <1>1, <1>10 DEF CountedInv, StartUnderWay
  <2>3. e.f.turn = obsTurn + 1
    <3> SUFFICES ASSUME e.f.turn > obsTurn + 1 PROVE FALSE
      BY <1>7, <2>2
    <3>1. obsTurn + 1 \in 1 .. air[i].turn /\ obsTurn + 1 < air[i].turn
      BY <1>6, <1>7
    <3>2. PICK s \in DOMAIN air : /\ air[s].kind = "turn_start" /\ air[s].turn = obsTurn + 1
                                  /\ air[s].seq < air[i].seq
      BY <1>7, <3>1, StartSent
    <3>3. air[s] # e.f
      BY <1>7, <3>2
    <3>4. air[s].turn <= obsTurn
      BY <1>1, <1>2, <1>3, <1>6, <1>10, <3>2, <3>3, StartBefore
    <3>. QED
      BY <1>7, <3>2, <3>4
  <2>4. ASSUME NEW j \in DOMAIN log', Counts(j)'
        PROVE  log'[j].turn = log'[j].f.turn /\ log'[j].f.turn <= obsTurn'
    <3>1. CASE j = n
      BY <1>3, <1>4, <1>7, <2>1, <2>3, <3>1 DEF n
    <3>2. CASE j \in DOMAIN log
      <4>1. log'[j] = log[j] /\ Counts(j)
        BY <1>4, <2>4, <3>2 DEF Counts
      <4>2. log[j].turn = log[j].f.turn /\ log[j].f.turn <= obsTurn
        BY <3>2, <4>1 DEF CountedInv
      <4>3. log[j].f.turn \in Nat
        BY <3>2, LogTypes DEF Entries, Frames
      <4>4. log[j].f.turn <= obsTurn + 1
        BY <1>7, <4>2, <4>3
      <4>. QED
        BY <2>1, <4>1, <4>2, <4>4
    <3>. QED
      BY <1>5, <3>1, <3>2
  <2>5. n \in DOMAIN log' /\ log'[n].type = "turn_start" /\ log'[n].f.turn = obsTurn'
    BY <1>3, <1>4, <1>5, <2>1, <2>3 DEF n
  <2>6. ASSUME NEW x \in heap', StartUnderWay(x) PROVE x.f.turn > obsTurn'
    <3>1. x \in heap /\ x.act = "recv" /\ x.f.kind = "turn_start"
      BY <1>8, <2>6 DEF StartUnderWay
    <3>2. PICK k \in DOMAIN air : air[k] = x.f
      BY <3>1 DEF LocatedInv, Sent
    <3>3. e.f.seq < x.f.seq
      BY <1>3, <1>4, <2>5, <2>6 DEF InPlace, Counts, n
    <3>4. air[i].turn < air[k].turn
      BY <1>6, <1>7, <3>1, <3>2, <3>3, NumbersFollowTurns
    <3>5. air[k].turn \in Nat
      BY AirShape
    <3>. QED
      BY <1>6, <1>7, <2>1, <2>3, <3>2, <3>4, <3>5
  <2>. QED
    BY <2>4, <2>5, <2>6 DEF CountedInv, Counts, StartUnderWay
<1>11. CASE e.f.kind = "agent"
  <2>1. obsTurn' = obsTurn /\ en.type = "recv"
    BY <1>1, <1>3, <1>11 DEF TypeFor
  <2>2. e.f.turn <= obsTurn
    <3>1. e.f.turn \in 1 .. air[i].turn /\ air[i].kind # "turn_start"
      BY <1>6, <1>7, <1>11
    <3>2. PICK s \in DOMAIN air : /\ air[s].kind = "turn_start" /\ air[s].turn = e.f.turn
                                  /\ air[s].seq < air[i].seq
      BY <1>7, <3>1, StartSent
    <3>3. air[s] # e.f
      BY <1>11, <3>2
    <3>. QED
      BY <1>1, <1>2, <1>3, <1>6, <1>11, <3>2, <3>3, StartBefore
  <2>3. PICK j \in DOMAIN log : log[j].type = "turn_start" /\ log[j].f.turn = obsTurn
    <3>1. obsTurn > 0
      BY <1>7, <2>2
    <3>. QED
      BY <3>1 DEF CountedInv
  <2>4. e.f.turn = obsTurn
    <3> SUFFICES ASSUME e.f.turn < obsTurn PROVE FALSE
      BY <1>7, <2>2
    <3>1. log[j].f.kind = "turn_start"
      BY <2>3 DEF KindsInv, KindOf
    <3>2. PICK k \in DOMAIN air : air[k] = log[j].f
      BY <3>1 DEF LocatedInv, Sent
    <3>3. air[i].seq < air[k].seq
      BY <1>6, <1>7, <2>3, <3>2, NumbersFollowTurns
    <3>4. log'[j].f.seq < log'[n].f.seq
      <4>1. j \in DOMAIN log' /\ log'[j] = log[j] /\ j < n /\ n \in DOMAIN log'
            /\ log'[n] = en
        BY <1>4, <1>5 DEF n, Kept
      <4>. QED
        BY <2>1, <2>3, <4>1 DEF InPlace, Counts
    <3>5. air[k].seq < air[i].seq
      BY <1>3, <1>4, <1>6, <3>2, <3>4 DEF n, Kept
    <3>6. air[k].seq \in Nat /\ air[i].seq \in Nat
      BY AirShape
    <3>. QED
      BY <3>3, <3>5, <3>6
  <2>5. ASSUME NEW l \in DOMAIN log', Counts(l)'
        PROVE  log'[l].turn = log'[l].f.turn /\ log'[l].f.turn <= obsTurn'
    <3>1. CASE l = n
      BY <1>3, <1>4, <1>7, <2>1, <2>4, <3>1 DEF n
    <3>2. CASE l \in DOMAIN log
      <4>1. log'[l] = log[l] /\ Counts(l)
        BY <1>4, <2>5, <3>2 DEF Counts
      <4>. QED
        BY <2>1, <3>2, <4>1 DEF CountedInv
    <3>. QED
      BY <1>5, <3>1, <3>2
  <2>6. \E l \in DOMAIN log' : log'[l].type = "turn_start" /\ log'[l].f.turn = obsTurn'
    BY <1>4, <2>1, <2>3 DEF Kept
  <2>7. \A x \in heap' : StartUnderWay(x) => x.f.turn > obsTurn'
    BY <1>8, <2>1 DEF CountedInv
  <2>. QED
    BY <2>5, <2>6, <2>7 DEF CountedInv, Counts, StartUnderWay
<1>. QED
  BY <1>1, <1>9, <1>10, <1>11

LEMMA CountedSends ==
  ASSUME TypeOK, HeapFits, TurnInv, KindsInv, LocatedInv, CountedInv, InPlace,
         NEW e \in heap, AgentSends(e)
  PROVE  CountedInv'
<1>1. PICK new : Fired(e, new) /\ \A x \in new : x.act = "recv" /\ x.f = SentBy(e)
  BY SendsDown
<1>2. log' = log /\ obsTurn' = obsTurn /\ e.act \in SendActs
  BY SendsDown
<1>3. /\ agent.turn > 0
      /\ e.act = "sendTurnStart" => SentLast(agent.turn - 1, TRUE)
      /\ SentBy(e).turn = agent.turn /\ SentBy(e).kind = e.f.kind
      /\ e.act = "emitAgentFrame" => e.f.kind = "agent"
      /\ e.act = "emitTurnEnd" => e.f.kind = "turn_end"
  BY SendContext
<1>4. agent.turn \in Nat /\ agent.turn - 1 \in Nat /\ obsTurn \in Nat
  BY <1>3, AgentTypes, CallerTypes
<1>5. ASSUME NEW x \in new, StartUnderWay(x) PROVE x.f.turn > obsTurn
  <2>1. e.act = "sendTurnStart"
    BY <1>1, <1>2, <1>3, <1>5 DEF StartUnderWay, SendActs, EmitActs
  <2>2. \A i \in DOMAIN air : air[i].turn <= agent.turn - 1
    BY <1>3, <1>4, <2>1, LastBounds DEF TurnInv
  <2>3. CASE obsTurn = 0
    BY <1>1, <1>3, <1>4, <2>3
  <2>4. CASE obsTurn > 0
    <3>1. PICK j \in DOMAIN log : log[j].type = "turn_start" /\ log[j].f.turn = obsTurn
      BY <2>4 DEF CountedInv
    <3>2. log[j].f.kind = "turn_start"
      BY <3>1 DEF KindsInv, KindOf
    <3>3. PICK k \in DOMAIN air : air[k] = log[j].f
      BY <3>2 DEF LocatedInv, Sent
    <3>4. obsTurn <= agent.turn - 1
      BY <2>2, <3>1, <3>3
    <3>. QED
      BY <1>1, <1>3, <1>4, <3>4
  <2>. QED
    BY <1>4, <2>3, <2>4
<1>6. Kept(log, log') /\ \A j \in DOMAIN log' : j \in DOMAIN log /\ log'[j] = log[j]
  BY <1>2 DEF Kept
<1>. QED
  BY <1>1, <1>2, <1>5, <1>6, CountedKept

LEMMA CountedStep ==
  ASSUME TypeOK, HeapFits, TurnInv, NumberedInv, LocatedInv, KindsInv, CountedInv,
         NEW e \in heap, Fires(e)
  PROVE  CountedInv'
<1> SUFFICES ASSUME InPlace' PROVE CountedInv'
  BY DEF CountedInv
<1>1. InPlace
  BY InPlaceBefore
<1>2. CASE Speak(e)
  <2>1. Kept(log, log') /\ obsTurn' = obsTurn
    BY <1>2, SpeakLogs, SpeakStep
  <2>2. \A j \in DOMAIN log' : (j \in DOMAIN log /\ log'[j] = log[j])
                                  \/ log'[j].type \notin {"turn_start", "recv"}
    BY <1>2, SpeakLogs
  <2> DEFINE x == Event(e.at, e.f.seq, "hear", 0, e.f)
  <2>3. Fired(e, {x}) /\ x.act = "hear"
    BY <1>2, SpeakStep
  <2>. HIDE DEF x
  <2>4. \A y \in {x} : ~StartUnderWay(y)
    BY <2>3 DEF StartUnderWay
  <2>. QED
    BY <1>1, <2>1, <2>2, <2>3, <2>4, CountedKept
<1>3. CASE ReceiveTurnStart(e) \/ ReceiveOther(e)
  BY <1>1, <1>3, CountedReceive
<1>4. CASE \/ HearBargeIn(e) \/ HearWhileTalking(e) \/ HearUtterance(e)
           \/ TimerIsStale(e) \/ Respond(e)
  <2>1. PICK new : /\ Fired(e, new) /\ \A x \in new : x.act # "recv"
                   /\ log' = log /\ obsTurn' = obsTurn
    BY <1>4, QuietStep
  <2>2. Kept(log, log') /\ \A j \in DOMAIN log' : j \in DOMAIN log /\ log'[j] = log[j]
    BY <2>1 DEF Kept
  <2>3. \A x \in new : ~StartUnderWay(x)
    BY <2>1 DEF StartUnderWay
  <2>. QED
    BY <1>1, <2>1, <2>2, <2>3, CountedKept
<1>5. CASE AgentSends(e)
  BY <1>1, <1>5, CountedSends
<1>. QED
  BY <1>2, <1>3, <1>4, <1>5, FiresCases

LEMMA CountedInit == Init => KindsInv /\ CountedInv
<1> SUFFICES ASSUME Init PROVE KindsInv /\ CountedInv
  OBVIOUS
<1>1. DOMAIN log = {} /\ ~(obsTurn > 0)
  BY DEF Init
<1>2. \A x \in heap : ~StartUnderWay(x)
  BY SpeechOnly DEF StartUnderWay
<1>. QED
  BY <1>1, <1>2 DEF KindsInv, CountedInv

LEMMA CountedInvariant == Spec => [](KindsInv /\ CountedInv)
<1>1. Init => KindsInv /\ CountedInv
  BY CountedInit
<1>2. /\ TypeInv /\ HeapFits /\ TurnInv /\ NumberedInv /\ LocatedInv
      /\ KindsInv /\ CountedInv /\ [Next]_vars
      => (KindsInv /\ CountedInv)'
  <2> SUFFICES ASSUME TypeInv, HeapFits, TurnInv, NumberedInv, LocatedInv,
                      KindsInv, CountedInv, [Next]_vars
               PROVE  KindsInv' /\ CountedInv'
    OBVIOUS
  <2>1. ASSUME NEW e \in heap, Fires(e) PROVE KindsInv' /\ CountedInv'
    BY <2>1, KindsStep, CountedStep DEF TypeInv
  <2>2. ASSUME UNCHANGED vars PROVE KindsInv' /\ CountedInv'
    BY <2>2 DEF vars, KindsInv, CountedInv, InPlace, Counts, StartUnderWay
  <2>. QED
    BY <2>1, <2>2 DEF Next, Quiescent
<1>. QED
  BY <1>1, <1>2, TypeInvariant, TurnInvariant, LocatedInvariant, PTL DEF Spec

-----------------------------------------------------------------------------
(* The canonical order.                                                    *)

(* Where an entry is inserted: behind all that are not greater.            *)
Place(s, e) == Cardinality({i \in DOMAIN s : ~canonicalLess(e, s[i])})
Inserted(s, e, n) ==
  [i \in 1 .. Len(s) + 1 |-> IF i <= n THEN s[i] ELSE IF i = n + 1 THEN e ELSE s[i - 1]]

LEMMA PlaceType ==
  ASSUME NEW S, NEW s \in Seq(S), NEW e
  PROVE  Place(s, e) \in 0 .. Len(s)
<1> DEFINE T == {i \in DOMAIN s : ~canonicalLess(e, s[i])}
<1>1. Len(s) \in Nat /\ DOMAIN s = 1 .. Len(s)
  BY LenProperties
<1>2. IsFiniteSet(1 .. Len(s)) /\ Cardinality(1 .. Len(s)) = Len(s)
  BY <1>1, FS_Interval
<1>3. T \subseteq 1 .. Len(s)
  BY <1>1
<1>4. Place(s, e) = Cardinality(T)
  BY DEF Place
<1>. HIDE DEF T
<1>5. IsFiniteSet(T) /\ Cardinality(T) <= Len(s)
  BY <1>2, <1>3, FS_Subset
<1>6. Cardinality(T) \in Nat
  BY <1>5, FS_CardinalityType
<1>. QED
  BY <1>1, <1>4, <1>5, <1>6

LEMMA InsertFacts ==
  ASSUME NEW S, NEW s \in Seq(S), NEW e \in S
  PROVE  Insert(s, e) = Inserted(s, e, Place(s, e)) /\ Insert(s, e) \in Seq(S)
<1> DEFINE n == Place(s, e)
           front == SubSeq(s, 1, n)
           back == SubSeq(s, n + 1, Len(s))
<1>1. Len(s) \in Nat /\ n \in 0 .. Len(s) /\ \A i \in 1 .. Len(s) : s[i] \in S
  BY LenProperties, PlaceType, ElementOfSeq
<1>2. Insert(s, e) = (front \o <<e>>) \o back
  <2>1. Insert(s, e) = front \o <<e>> \o back
    BY DEF Insert, Place
  <2>. QED
    BY <2>1
<1>. HIDE DEF n
<1>3. /\ front \in Seq(S) /\ Len(front) = n
      /\ \A i \in 1 .. n : front[i] = s[i]
  <2>1. \A i \in 1 .. n : s[i] \in S
    BY <1>1
  <2>2. IF 1 <= n THEN n - 1 + 1 = n ELSE n = 0
    BY <1>1
  <2>3. /\ front \in Seq(S)
        /\ Len(front) = IF 1 <= n THEN n - 1 + 1 ELSE 0
        /\ \A i \in 1 .. n - 1 + 1 : front[i] = s[1 + i - 1]
    BY <1>1, <2>1, SubSeqProperties
  <2>4. \A i \in 1 .. n : i \in 1 .. n - 1 + 1 /\ 1 + i - 1 = i
    BY <1>1
  <2>. QED
    BY <2>2, <2>3, <2>4
<1>4. /\ back \in Seq(S) /\ Len(back) = Len(s) - n
      /\ \A i \in 1 .. Len(s) - n : back[i] = s[n + i]
  <2>1. \A i \in n + 1 .. Len(s) : s[i] \in S
    BY <1>1
  <2>2. /\ back \in Seq(S)
        /\ Len(back) = IF n + 1 <= Len(s) THEN Len(s) - (n + 1) + 1 ELSE 0
        /\ \A i \in 1 .. Len(s) - (n + 1) + 1 : back[i] = s[(n + 1) + i - 1]
    BY <1>1, <2>1, SubSeqProperties
  <2>3. (IF n + 1 <= Len(s) THEN Len(s) - (n + 1) + 1 ELSE 0) = Len(s) - n
    BY <1>1
  <2>4. \A i \in 1 .. Len(s) - n : i \in 1 .. Len(s) - (n + 1) + 1 /\ (n + 1) + i - 1 = n + i
    BY <1>1
  <2>. QED
    BY <2>2, <2>3, <2>4
<1>. HIDE DEF front, back
<1> DEFINE head == front \o <<e>>
<1>5. /\ head \in Seq(S) /\ Len(head) = n + 1
      /\ \A i \in 1 .. n + 1 : head[i] = IF i <= n THEN s[i] ELSE e
  <2>1. <<e>> \in Seq(S) /\ Len(<<e>>) = 1 /\ <<e>>[1] = e
    OBVIOUS
  <2>2. /\ head \in Seq(S) /\ Len(head) = Len(front) + Len(<<e>>)
        /\ \A i \in 1 .. Len(front) + Len(<<e>>) :
             head[i] = IF i <= Len(front) THEN front[i] ELSE <<e>>[i - Len(front)]
    BY <1>3, <2>1, ConcatProperties
  <2>3. ASSUME NEW i \in 1 .. n + 1 PROVE head[i] = IF i <= n THEN s[i] ELSE e
    <3>. HIDE DEF head
    <3>1. CASE i <= n
      BY <1>1, <1>3, <2>1, <2>2, <3>1
    <3>2. CASE ~(i <= n)
      <4>1. i - n = 1
        BY <1>1, <3>2
      <4>. QED
        BY <1>1, <1>3, <2>1, <2>2, <3>2, <4>1
    <3>. QED
      BY <3>1, <3>2
  <2>. HIDE DEF head
  <2>. QED
    BY <1>3, <2>1, <2>2, <2>3
<1>. HIDE DEF head
<1> DEFINE all == head \o back
<1>6. /\ all \in Seq(S) /\ Len(all) = Len(s) + 1
      /\ \A i \in 1 .. Len(s) + 1 :
           all[i] = IF i <= n + 1 THEN head[i] ELSE back[i - (n + 1)]
  <2>1. /\ all \in Seq(S) /\ Len(all) = Len(head) + Len(back)
        /\ \A i \in 1 .. Len(head) + Len(back) :
             all[i] = IF i <= Len(head) THEN head[i] ELSE back[i - Len(head)]
    BY <1>4, <1>5, ConcatProperties
  <2>2. Len(head) + Len(back) = Len(s) + 1
    BY <1>1, <1>4, <1>5
  <2>. QED
    BY <1>5, <2>1, <2>2
<1>7. ASSUME NEW i \in 1 .. Len(s) + 1 PROVE all[i] = Inserted(s, e, n)[i]
  <2>. HIDE DEF all
  <2>1. CASE i <= n
    BY <1>1, <1>5, <1>6, <2>1 DEF Inserted
  <2>2. CASE i = n + 1
    BY <1>1, <1>5, <1>6, <2>2 DEF Inserted
  <2>3. CASE i > n + 1
    <3>1. i - (n + 1) \in 1 .. Len(s) - n /\ n + (i - (n + 1)) = i - 1 /\ ~(i <= n + 1)
          /\ ~(i <= n) /\ i # n + 1
      BY <1>1, <2>3
    <3>2. all[i] = s[i - 1]
      BY <1>4, <1>6, <3>1
    <3>. QED
      BY <3>1, <3>2 DEF Inserted
  <2>. QED
    BY <1>1, <2>1, <2>2, <2>3
<1>8. all = [i \in 1 .. Len(s) + 1 |-> all[i]]
  <2>1. DOMAIN all = 1 .. Len(s) + 1 /\ all = [i \in DOMAIN all |-> all[i]]
    BY <1>6, LenProperties
  <2>. QED
    BY <2>1
<1>9. all = Inserted(s, e, n)
  <2>1. Inserted(s, e, n) = [i \in 1 .. Len(s) + 1 |-> Inserted(s, e, n)[i]]
    BY DEF Inserted
  <2>. HIDE DEF all
  <2>. QED
    BY <1>7, <1>8, <2>1
<1>. QED
  BY <1>2, <1>6, <1>9 DEF n, head

LEMMA InsertType ==
  ASSUME NEW S, NEW s \in Seq(S), NEW e \in S
  PROVE  Insert(s, e) \in Seq(S)
BY InsertFacts

IsSorting(f, l) ==
  f = [k \in 0 .. Len(l) |-> IF k = 0 THEN << >> ELSE Insert(f[k - 1], l[k])]

(* The recursive function of Sort is one.                                  *)
LEMMA SortSolves ==
  ASSUME NEW S, NEW l \in Seq(S)
  PROVE  \E g : IsSorting(g, l) /\ Sort(l) = g[Len(l)]
<1> DEFINE N == Len(l)
           SortsTo(m) ==
             {f \in [0 .. m -> Seq(S)] :
                \A k \in 0 .. m : f[k] = IF k = 0 THEN << >> ELSE Insert(f[k - 1], l[k])}
           T == {m \in Nat : m <= N => SortsTo(m) # {}}
<1>1. N \in Nat /\ DOMAIN l = 1 .. N /\ \A k \in 1 .. N : l[k] \in S
  BY LenProperties, ElementOfSeq
<1>. HIDE DEF N
<1>2. 0 \in T
  <2> DEFINE f == [k \in 0 .. 0 |-> << >>]
  <2>1. << >> \in Seq(S)
    OBVIOUS
  <2>2. f \in [0 .. 0 -> Seq(S)]
    BY <2>1
  <2>3. \A k \in 0 .. 0 : k = 0 /\ f[k] = << >>
    OBVIOUS
  <2>. HIDE DEF f
  <2>4. f \in SortsTo(0)
    BY <2>2, <2>3
  <2>. QED
    BY <2>4
<1>3. ASSUME NEW m \in Nat, m \in T PROVE m + 1 \in T
  <2> SUFFICES ASSUME m + 1 <= N PROVE SortsTo(m + 1) # {}
    <3>. HIDE DEF SortsTo
    <3>. QED
      OBVIOUS
  <2>1. PICK f : f \in SortsTo(m)
    <3>1. m <= N
      BY <1>1
    <3>. HIDE DEF SortsTo
    <3>. QED
      BY <1>3, <3>1
  <2> DEFINE g == [k \in 0 .. m + 1 |-> IF k = m + 1 THEN Insert(f[m], l[k]) ELSE f[k]]
  <2>2. f[m] \in Seq(S) /\ l[m + 1] \in S
    BY <1>1, <2>1
  <2>3. Insert(f[m], l[m + 1]) \in Seq(S)
    BY <2>2, InsertType
  <2>4. g \in [0 .. m + 1 -> Seq(S)]
    <3>1. ASSUME NEW k \in 0 .. m + 1 PROVE g[k] \in Seq(S)
      <4>1. CASE k = m + 1
        BY <2>3, <4>1
      <4>2. CASE k # m + 1
        BY <2>1, <4>2
      <4>. QED
        BY <4>1, <4>2
    <3>. QED
      BY <3>1
  <2>5. ASSUME NEW k \in 0 .. m + 1
        PROVE  g[k] = IF k = 0 THEN << >> ELSE Insert(g[k - 1], l[k])
    <3>1. CASE k = m + 1
      <4>1. k # 0 /\ k - 1 = m /\ m \in 0 .. m + 1 /\ m # m + 1
        BY <3>1
      <4>2. g[k] = Insert(f[m], l[k]) /\ g[k - 1] = f[m]
        BY <3>1, <4>1
      <4>. HIDE DEF g
      <4>. QED
        BY <4>1, <4>2
    <3>2. CASE k # m + 1
      <4>1. k \in 0 .. m /\ (k # 0 => k - 1 \in 0 .. m /\ k - 1 # m + 1 /\ k - 1 \in 0 .. m + 1)
        BY <3>2
      <4>2. g[k] = f[k] /\ (k # 0 => g[k - 1] = f[k - 1])
        BY <3>2, <4>1
      <4>3. f[k] = IF k = 0 THEN << >> ELSE Insert(f[k - 1], l[k])
        BY <2>1, <4>1
      <4>. HIDE DEF g
      <4>. QED
        BY <4>2, <4>3
    <3>. QED
      BY <3>1, <3>2
  <2>6. g \in SortsTo(m + 1)
    <3>. HIDE DEF g
    <3>. QED
      BY <2>4, <2>5
  <2>. QED
    BY <2>6
<1>4. N \in T
  <2>. HIDE DEF T
  <2>. QED
    BY <1>1, <1>2, <1>3, NatInduct
<1>5. PICK f : f \in SortsTo(N)
  <2>. HIDE DEF SortsTo
  <2>. QED
    BY <1>1, <1>4
<1>6. IsSorting(f, l)
  BY <1>5 DEF IsSorting, N
<1> DEFINE g == CHOOSE h : IsSorting(h, l)
<1>7. IsSorting(g, l)
  BY <1>6
<1>8. Sort(l) = g[N]
  BY DEF Sort, IsSorting, N
<1>. HIDE DEF g
<1>. QED
  BY <1>7, <1>8 DEF N

(* Sort returns what it is given, each entry once.                         *)
IsPermutation(p, m) ==
  /\ p \in [1 .. m -> 1 .. m]
  /\ \A i, j \in 1 .. m : p[i] = p[j] => i = j
  /\ \A k \in 1 .. m : \E i \in 1 .. m : p[i] = k
Permutes(p, s, l, m) ==
  IsPermutation(p, m) /\ Len(s) = m /\ \A i \in 1 .. m : s[i] = l[p[i]]

LEMMA InsertPermutes ==
  ASSUME NEW S, NEW l \in Seq(S), NEW m \in Nat, m + 1 <= Len(l),
         NEW s \in Seq(S), NEW p, Permutes(p, s, l, m)
  PROVE  \E q : Permutes(q, Insert(s, l[m + 1]), l, m + 1)
<1> DEFINE e == l[m + 1]
           n == Place(s, e)
           q == [i \in 1 .. m + 1 |->
                   IF i <= n THEN p[i] ELSE IF i = n + 1 THEN m + 1 ELSE p[i - 1]]
<1>1. e \in S
  BY LenProperties, ElementOfSeq
<1>2. Len(s) = m /\ n \in 0 .. m
  BY PlaceType DEF Permutes
<1>3. Insert(s, e) = Inserted(s, e, n) /\ Insert(s, e) \in Seq(S)
  BY <1>1, InsertFacts
<1>. HIDE DEF n, e
<1>4. /\ p \in [1 .. m -> 1 .. m]
      /\ \A i, j \in 1 .. m : p[i] = p[j] => i = j
      /\ \A k \in 1 .. m : \E i \in 1 .. m : p[i] = k
      /\ \A i \in 1 .. m : s[i] = l[p[i]]
  BY DEF Permutes, IsPermutation
<1>5. ASSUME NEW i \in 1 .. m + 1
      PROVE  \/ i <= n /\ i \in 1 .. m /\ q[i] = p[i]
             \/ i = n + 1 /\ q[i] = m + 1
             \/ i > n + 1 /\ i - 1 \in 1 .. m /\ q[i] = p[i - 1]
  BY <1>2
<1>6. q \in [1 .. m + 1 -> 1 .. m + 1]
  <2>1. ASSUME NEW i \in 1 .. m + 1 PROVE q[i] \in 1 .. m + 1
    <3>. HIDE DEF q
    <3>1. \A k \in 1 .. m : p[k] \in 1 .. m
      BY <1>4
    <3>. QED
      BY <1>5, <3>1
  <2>. QED
    BY <2>1
<1>7. ASSUME NEW i \in 1 .. m + 1, NEW j \in 1 .. m + 1, q[i] = q[j] PROVE i = j
  <2>. HIDE DEF q
  <2>1. \A k \in 1 .. m : p[k] \in 1 .. m /\ p[k] # m + 1
    BY <1>4
  <2>2. \/ i <= n /\ i \in 1 .. m /\ q[i] = p[i]
        \/ i = n + 1 /\ q[i] = m + 1
        \/ i > n + 1 /\ i - 1 \in 1 .. m /\ q[i] = p[i - 1]
    BY <1>5
  <2>3. \/ j <= n /\ j \in 1 .. m /\ q[j] = p[j]
        \/ j = n + 1 /\ q[j] = m + 1
        \/ j > n + 1 /\ j - 1 \in 1 .. m /\ q[j] = p[j - 1]
    BY <1>5
  <2>4. n \in Int /\ i \in Int /\ j \in Int
    BY <1>2
  <2>5. CASE i <= n /\ i \in 1 .. m /\ q[i] = p[i]
    BY <1>4, <1>7, <2>1, <2>3, <2>4, <2>5
  <2>6. CASE i = n + 1 /\ q[i] = m + 1
    BY <1>7, <2>1, <2>3, <2>4, <2>6
  <2>7. CASE i > n + 1 /\ i - 1 \in 1 .. m /\ q[i] = p[i - 1]
    <3>1. CASE j <= n /\ j \in 1 .. m /\ q[j] = p[j]
      <4>1. j = i - 1
        BY <1>4, <1>7, <2>7, <3>1
      <4>. QED
        BY <2>4, <2>7, <3>1, <4>1
    <3>2. CASE j = n + 1 /\ q[j] = m + 1
      BY <1>7, <2>1, <2>7, <3>2
    <3>3. CASE j > n + 1 /\ j - 1 \in 1 .. m /\ q[j] = p[j - 1]
      <4> DEFINE x == i - 1
                 y == j - 1
      <4>1. x \in 1 .. m /\ y \in 1 .. m /\ p[x] = p[y]
        BY <1>7, <2>7, <3>3
      <4>. HIDE DEF x, y
      <4>2. x = y
        BY <1>4, <4>1
      <4>. QED
        BY <2>4, <4>2 DEF x, y
    <3>. QED
      BY <2>3, <3>1, <3>2, <3>3
  <2>. QED
    BY <2>2, <2>5, <2>6, <2>7
<1>8. ASSUME NEW k \in 1 .. m + 1 PROVE \E i \in 1 .. m + 1 : q[i] = k
  <2>1. CASE k = m + 1
    <3>1. n + 1 \in 1 .. m + 1 /\ ~(n + 1 <= n)
      BY <1>2
    <3>. QED
      BY <2>1, <3>1
  <2>2. CASE k # m + 1
    <3>1. PICK i \in 1 .. m : p[i] = k
      BY <1>4, <2>2
    <3>2. CASE i <= n
      <4>1. i \in 1 .. m + 1 /\ q[i] = k
        BY <3>1, <3>2
      <4>. QED
        BY <4>1
    <3>3. CASE ~(i <= n)
      <4>1. i + 1 \in 1 .. m + 1 /\ ~(i + 1 <= n) /\ i + 1 # n + 1 /\ i + 1 - 1 = i
        BY <1>2, <3>3
      <4>2. q[i + 1] = k
        BY <3>1, <4>1
      <4>. QED
        BY <4>1, <4>2
    <3>. QED
      BY <3>2, <3>3
  <2>. QED
    BY <2>1, <2>2
<1>9. ASSUME NEW i \in 1 .. m + 1 PROVE Insert(s, e)[i] = l[q[i]]
  <2>. HIDE DEF q
  <2>1. Insert(s, e)[i] = IF i <= n THEN s[i] ELSE IF i = n + 1 THEN e ELSE s[i - 1]
    BY <1>2, <1>3 DEF Inserted
  <2>2. n \in Int /\ i \in Int
    BY <1>2
  <2>3. CASE i <= n /\ i \in 1 .. m /\ q[i] = p[i]
    BY <1>4, <2>1, <2>3
  <2>4. CASE i = n + 1 /\ q[i] = m + 1
    BY <2>1, <2>2, <2>4 DEF e
  <2>5. CASE i > n + 1 /\ i - 1 \in 1 .. m /\ q[i] = p[i - 1]
    BY <1>4, <2>1, <2>2, <2>5
  <2>. QED
    BY <1>5, <2>3, <2>4, <2>5
<1>10. Len(Insert(s, e)) = m + 1
  <2>1. DOMAIN Insert(s, e) = 1 .. m + 1
    BY <1>2, <1>3 DEF Inserted
  <2>. QED
    BY <1>3, <2>1, LenProperties
<1>11. Permutes(q, Insert(s, e), l, m + 1)
  <2>. HIDE DEF q
  <2>. QED
    BY <1>6, <1>7, <1>8, <1>9, <1>10 DEF Permutes, IsPermutation
<1>. QED
  BY <1>11 DEF e

LEMMA SortPermutes ==
  ASSUME NEW S, NEW l \in Seq(S)
  PROVE  Sort(l) \in Seq(S) /\ \E p : Permutes(p, Sort(l), l, Len(l))
<1> DEFINE N == Len(l)
<1>1. N \in Nat /\ \A k \in 1 .. N : l[k] \in S
  BY LenProperties, ElementOfSeq
<1>2. PICK g : IsSorting(g, l) /\ Sort(l) = g[N]
  BY SortSolves
<1>. HIDE DEF N
<1> DEFINE Good(m) == g[m] \in Seq(S) /\ \E p : Permutes(p, g[m], l, m)
           U == {m \in Nat : m <= N => Good(m)}
<1>3. 0 \in U
  <2>1. g[0] = << >>
    BY <1>1, <1>2 DEF IsSorting, N
  <2>2. << >> \in Seq(S) /\ Len(<< >>) = 0
    OBVIOUS
  <2>3. IsPermutation(<< >>, 0)
    BY DEF IsPermutation
  <2>4. Permutes(<< >>, g[0], l, 0)
    BY <2>1, <2>2, <2>3 DEF Permutes
  <2>. QED
    BY <2>1, <2>2, <2>4
<1>4. ASSUME NEW m \in Nat, m \in U PROVE m + 1 \in U
  <2> SUFFICES ASSUME m + 1 <= N PROVE Good(m + 1)
    OBVIOUS
  <2>1. Good(m)
    BY <1>1, <1>4
  <2>2. PICK p : Permutes(p, g[m], l, m)
    BY <2>1
  <2>3. m + 1 \in 0 .. N /\ m + 1 # 0 /\ (m + 1) - 1 = m /\ l[m + 1] \in S
    BY <1>1
  <2>4. g[m + 1] = Insert(g[m], l[m + 1])
    BY <1>2, <2>3 DEF IsSorting, N
  <2>5. g[m + 1] \in Seq(S)
    BY <2>1, <2>3, <2>4, InsertType
  <2>6. \E q : Permutes(q, Insert(g[m], l[m + 1]), l, m + 1)
    BY <2>1, <2>2, InsertPermutes DEF N
  <2>. QED
    BY <2>4, <2>5, <2>6
<1>5. N \in U
  <2>. HIDE DEF U
  <2>. QED
    BY <1>1, <1>3, <1>4, NatInduct
<1>. QED
  BY <1>1, <1>2, <1>5 DEF N

LEMMA SortType ==
  ASSUME NEW S, NEW l \in Seq(S)
  PROVE  Sort(l) \in Seq(S)
BY SortPermutes

(* Sort puts in order whatever canonicalLess orders.                       *)
WeakOrder(S) ==
  \A a, b, c \in S :
    /\ canonicalLess(a, b) => ~canonicalLess(b, a)
    /\ canonicalLess(a, b) /\ ~canonicalLess(c, b) => canonicalLess(a, c)
Ordered(s) == \A i, j \in DOMAIN s : i < j => ~canonicalLess(s[j], s[i])

LEMMA InsertOrdered ==
  ASSUME NEW S, WeakOrder(S), NEW s \in Seq(S), NEW e \in S, Ordered(s)
  PROVE  Ordered(Insert(s, e))
<1> DEFINE n == Place(s, e)
           T == {i \in DOMAIN s : ~canonicalLess(e, s[i])}
           N == Len(s)
           r == Insert(s, e)
<1>1. N \in Nat /\ DOMAIN s = 1 .. N /\ \A i \in 1 .. N : s[i] \in S
  BY LenProperties, ElementOfSeq
<1>2. n \in 0 .. N /\ r = Inserted(s, e, n)
  BY PlaceType, InsertFacts
<1>3. \A i \in 1 .. N : i <= n <=> ~canonicalLess(e, s[i])
  <2>1. T \in SUBSET (1 .. N)
    BY <1>1
  <2>2. ASSUME NEW j \in T, NEW i \in 1 .. N, i < j PROVE i \in T
    <3>1. j \in 1 .. N /\ ~canonicalLess(e, s[j]) /\ ~canonicalLess(s[j], s[i])
      BY <1>1, <2>2 DEF Ordered
    <3>2. s[i] \in S /\ s[j] \in S
      BY <1>1, <3>1
    <3>3. ~canonicalLess(e, s[i])
      BY <3>1, <3>2 DEF WeakOrder
    <3>. QED
      BY <1>1, <3>3
  <2>3. n = Cardinality(T)
    BY DEF Place
  <2>. HIDE DEF T, n, N
  <2>4. \A i \in 1 .. N : i \in T <=> i <= n
    BY <1>1, <2>1, <2>2, <2>3, InitialSegment
  <2>. QED
    BY <1>1, <2>4 DEF T
<1>4. DOMAIN r = 1 .. N + 1
  BY <1>2 DEF Inserted
<1>. HIDE DEF n, N, T
<1>5. ASSUME NEW i \in 1 .. N + 1
      PROVE  \/ i <= n /\ i \in 1 .. N /\ r[i] = s[i]
             \/ i = n + 1 /\ r[i] = e
             \/ i > n + 1 /\ i - 1 \in 1 .. N /\ r[i] = s[i - 1]
  <2>1. r[i] = IF i <= n THEN s[i] ELSE IF i = n + 1 THEN e ELSE s[i - 1]
    BY <1>2 DEF Inserted, N
  <2>. QED
    BY <1>1, <1>2, <2>1
<1>. HIDE DEF r
<1>6. ASSUME NEW i \in 1 .. N + 1, NEW j \in 1 .. N + 1, i < j PROVE ~canonicalLess(r[j], r[i])
  <2>1. i \in Int /\ j \in Int /\ n \in Int
    BY <1>1, <1>2
  <2>2. ASSUME NEW x \in 1 .. N, NEW y \in 1 .. N, x < y PROVE ~canonicalLess(s[y], s[x])
    BY <1>1, <2>2 DEF Ordered
  <2>3. CASE j <= n /\ j \in 1 .. N /\ r[j] = s[j]
    <3>1. i \in 1 .. N /\ r[i] = s[i]
      BY <1>5, <1>6, <2>1, <2>3
    <3>. QED
      BY <1>6, <2>2, <2>3, <3>1
  <2>4. CASE j = n + 1 /\ r[j] = e
    <3>1. i \in 1 .. N /\ i <= n /\ r[i] = s[i]
      BY <1>5, <1>6, <2>1, <2>4
    <3>. QED
      BY <1>3, <2>4, <3>1
  <2>5. CASE j > n + 1 /\ j - 1 \in 1 .. N /\ r[j] = s[j - 1]
    <3>1. CASE i <= n /\ i \in 1 .. N /\ r[i] = s[i]
      <4>1. i < j - 1
        BY <2>1, <2>5, <3>1
      <4>. QED
        BY <2>2, <2>5, <3>1, <4>1
    <3>2. CASE i = n + 1 /\ r[i] = e
      <4>1. ~(j - 1 <= n)
        BY <2>1, <2>5
      <4>2. canonicalLess(e, s[j - 1]) /\ s[j - 1] \in S
        BY <1>1, <1>3, <2>5, <4>1
      <4>. QED
        BY <2>5, <3>2, <4>2 DEF WeakOrder
    <3>3. CASE i > n + 1 /\ i - 1 \in 1 .. N /\ r[i] = s[i - 1]
      <4>1. i - 1 < j - 1
        BY <1>6, <2>1
      <4>. QED
        BY <2>2, <2>5, <3>3, <4>1
    <3>. QED
      BY <1>5, <3>1, <3>2, <3>3
  <2>. QED
    BY <1>5, <2>3, <2>4, <2>5
<1>7. Ordered(r)
  BY <1>4, <1>6 DEF Ordered
<1>. QED
  BY <1>7 DEF r

LEMMA SortOrders ==
  ASSUME NEW S, WeakOrder(S), NEW l \in Seq(S)
  PROVE  Ordered(Sort(l))
<1> DEFINE N == Len(l)
<1>1. N \in Nat /\ \A k \in 1 .. N : l[k] \in S
  BY LenProperties, ElementOfSeq
<1>2. PICK g : IsSorting(g, l) /\ Sort(l) = g[N]
  BY SortSolves
<1>. HIDE DEF N
<1> DEFINE U == {m \in Nat : m <= N => g[m] \in Seq(S) /\ Ordered(g[m])}
<1>3. 0 \in U
  <2>1. g[0] = << >>
    BY <1>1, <1>2 DEF IsSorting, N
  <2>2. << >> \in Seq(S)
    OBVIOUS
  <2>3. Ordered(<< >>)
    BY DEF Ordered
  <2>. QED
    BY <2>1, <2>2, <2>3
<1>4. ASSUME NEW m \in Nat, m \in U PROVE m + 1 \in U
  <2> SUFFICES ASSUME m + 1 <= N PROVE g[m + 1] \in Seq(S) /\ Ordered(g[m + 1])
    OBVIOUS
  <2>1. g[m] \in Seq(S) /\ Ordered(g[m])
    BY <1>1, <1>4
  <2>2. m + 1 \in 0 .. N /\ m + 1 # 0 /\ (m + 1) - 1 = m /\ l[m + 1] \in S
    BY <1>1
  <2>3. g[m + 1] = Insert(g[m], l[m + 1])
    BY <1>2, <2>2 DEF IsSorting, N
  <2>. QED
    BY <2>1, <2>2, <2>3, InsertType, InsertOrdered
<1>5. N \in U
  <2>. HIDE DEF U
  <2>. QED
    BY <1>1, <1>3, <1>4, NatInduct
<1>. QED
  BY <1>1, <1>2, <1>5

(* The order is one: no two types have the same place in it.               *)
Types == {"send", "recv", "turn_start", "turn_end", "barge_in", "drop"}

LEMMA TypesOrdered ==
  /\ \A t \in Types : TypeOrder(t) \in 1 .. 6
  /\ \A t, u \in Types : TypeOrder(t) = TypeOrder(u) => t = u
<1>1. ASSUME NEW t \in Types PROVE TypeOrder(t) \in 1 .. 6 /\ EventTypes[TypeOrder(t)] = t
  <2>1. DOMAIN EventTypes = 1 .. 6
    BY DEF EventTypes
  <2>2. \E k \in 1 .. 6 : EventTypes[k] = t
    BY DEF EventTypes, Types
  <2>3. TypeOrder(t) = CHOOSE k \in 1 .. 6 : EventTypes[k] = t
    BY <2>1 DEF TypeOrder
  <2>. QED
    BY <2>2, <2>3
<1>. QED
  BY <1>1

Sortable(S) ==
  \A a \in S : a.ts \in Nat /\ a.type \in Types /\ FrameSeq(a) \in Nat

LEMMA SortableOrder ==
  ASSUME NEW S, Sortable(S)
  PROVE  WeakOrder(S)
<1> SUFFICES ASSUME NEW a \in S, NEW b \in S, NEW c \in S
             PROVE  /\ canonicalLess(a, b) => ~canonicalLess(b, a)
                    /\ canonicalLess(a, b) /\ ~canonicalLess(c, b) => canonicalLess(a, c)
  BY DEF WeakOrder
<1>1. /\ a.ts \in Nat /\ b.ts \in Nat /\ c.ts \in Nat
      /\ FrameSeq(a) \in Nat /\ FrameSeq(b) \in Nat /\ FrameSeq(c) \in Nat
      /\ a.type \in Types /\ b.type \in Types /\ c.type \in Types
  BY DEF Sortable
<1>2. /\ TypeOrder(a.type) \in Nat /\ TypeOrder(b.type) \in Nat /\ TypeOrder(c.type) \in Nat
      /\ TypeOrder(a.type) = TypeOrder(b.type) => a.type = b.type
      /\ TypeOrder(c.type) = TypeOrder(b.type) => c.type = b.type
  BY <1>1, TypesOrdered
<1>. QED
  BY <1>1, <1>2 DEF canonicalLess

(* What is measured are the entries of the caller's log, and the drops.    *)
DropEntries == [k \in DOMAIN dropped |-> Entry("drop", dropped[k].ts, 0, dropped[k])]
Measured == Range(log) \cup Range(DropEntries)

LEMMA FoldedFacts ==
  ASSUME TypeOK
  PROVE  /\ FoldedLog \in Seq(Measured) /\ Sortable(Measured)
         /\ Len(FoldedLog) \in Nat /\ DOMAIN FoldedLog = 1 .. Len(FoldedLog)
         /\ \A j \in DOMAIN log : j \in DOMAIN FoldedLog /\ FoldedLog[j] = log[j]
         /\ \A j \in DOMAIN FoldedLog : j \in DOMAIN log \/ FoldedLog[j].type = "drop"
         /\ \A en \in Measured : en.type = "drop" \/ \E j \in DOMAIN log : en = log[j]
<1>1. log \in Seq(Entries) /\ dropped \in Seq(Frames)
  BY DEF TypeOK
<1>2. /\ Len(log) \in Nat /\ DOMAIN log = 1 .. Len(log)
      /\ Len(dropped) \in Nat /\ DOMAIN dropped = 1 .. Len(dropped)
      /\ \A j \in DOMAIN log : log[j] \in Entries
      /\ \A k \in DOMAIN dropped : dropped[k] \in Frames
  BY <1>1, LenProperties, ElementOfSeq
<1>3. \A k \in DOMAIN dropped : DropEntries[k] = Entry("drop", dropped[k].ts, 0, dropped[k])
  BY DEF DropEntries
<1>4. \A en \in Measured :
        \/ \E j \in DOMAIN log : en = log[j]
        \/ \E k \in DOMAIN dropped : en = Entry("drop", dropped[k].ts, 0, dropped[k])
  BY DEF Measured, Range, DropEntries
<1>5. log \in Seq(Measured) /\ DropEntries \in Seq(Measured)
  <2>1. (\A j \in DOMAIN log : log[j] \in Measured)
        /\ \A k \in DOMAIN dropped : DropEntries[k] \in Measured
    BY DEF Measured, Range, DropEntries
  <2>2. log = [j \in 1 .. Len(log) |-> log[j]]
    BY <1>1, <1>2
  <2>3. DropEntries = [k \in 1 .. Len(dropped) |-> DropEntries[k]]
    BY <1>2 DEF DropEntries
  <2>4. log \in Seq(Measured)
    BY <1>2, <2>1, <2>2, SeqDef
  <2>5. DropEntries \in Seq(Measured)
    BY <1>2, <2>1, <2>3, SeqDef
  <2>. QED
    BY <2>4, <2>5
<1>6. FoldedLog = log \o DropEntries
  BY DEF FoldedLog, DropEntries
<1>7. Len(DropEntries) = Len(dropped) /\ DOMAIN DropEntries = DOMAIN dropped
  BY <1>2, <1>5, LenProperties DEF DropEntries
<1>8. /\ FoldedLog \in Seq(Measured) /\ Len(FoldedLog) = Len(log) + Len(dropped)
      /\ \A i \in 1 .. Len(log) + Len(dropped) :
           FoldedLog[i] = IF i <= Len(log) THEN log[i] ELSE DropEntries[i - Len(log)]
  <2> DEFINE d == DropEntries
  <2>1. log \in Seq(Measured) /\ d \in Seq(Measured) /\ FoldedLog = log \o d
    BY <1>5, <1>6
  <2>. HIDE DEF d
  <2>2. /\ log \o d \in Seq(Measured) /\ Len(log \o d) = Len(log) + Len(d)
        /\ \A i \in 1 .. Len(log) + Len(d) :
             (log \o d)[i] = IF i <= Len(log) THEN log[i] ELSE d[i - Len(log)]
    BY <2>1, ConcatProperties
  <2>3. Len(d) = Len(dropped)
    BY <1>7 DEF d
  <2>. QED
    BY <2>1, <2>2, <2>3 DEF d
<1>9. DOMAIN FoldedLog = 1 .. Len(FoldedLog) /\ Len(FoldedLog) \in Nat
  BY <1>8, LenProperties
<1>10. \A j \in DOMAIN log : j \in DOMAIN FoldedLog /\ FoldedLog[j] = log[j]
  BY <1>2, <1>8, <1>9
<1>11. ASSUME NEW j \in DOMAIN FoldedLog, j \notin DOMAIN log PROVE FoldedLog[j].type = "drop"
  <2>1. j - Len(log) \in DOMAIN dropped /\ FoldedLog[j] = DropEntries[j - Len(log)]
    BY <1>2, <1>8, <1>9, <1>11
  <2>2. FoldedLog[j] = Entry("drop", dropped[j - Len(log)].ts, 0, dropped[j - Len(log)])
    BY <1>3, <2>1
  <2>. QED
    BY <2>2 DEF Entry
<1>12. Sortable(Measured)
  <2>1. ASSUME NEW j \in DOMAIN log
        PROVE  log[j].ts \in Nat /\ log[j].type \in Types /\ FrameSeq(log[j]) \in Nat
    BY <1>2 DEF Entries, Frames, Types, FrameSeq
  <2>2. ASSUME NEW k \in DOMAIN dropped, NEW en,
               en = Entry("drop", dropped[k].ts, 0, dropped[k])
        PROVE  en.ts \in Nat /\ en.type \in Types /\ FrameSeq(en) \in Nat
    BY <1>2, <2>2 DEF Entry, Frames, Types, FrameSeq, IsMarker
  <2>. QED
    BY <1>4, <2>1, <2>2 DEF Sortable
<1>13. \A en \in Measured : en.type = "drop" \/ \E j \in DOMAIN log : en = log[j]
  BY <1>4 DEF Entry
<1>. QED
  BY <1>8, <1>9, <1>10, <1>11, <1>12, <1>13

LEMMA SortedFacts ==
  ASSUME TypeOK
  PROVE  /\ IsFiniteSet(DOMAIN SortedLog)
         /\ \A i \in DOMAIN SortedLog :
              \/ SortedLog[i].type = "drop"
              \/ \E j \in DOMAIN log : SortedLog[i] = log[j]
<1>1. FoldedLog \in Seq(Measured)
      /\ \A en \in Measured : en.type = "drop" \/ \E j \in DOMAIN log : en = log[j]
  BY FoldedFacts
<1>2. SortedLog \in Seq(Measured)
  BY <1>1, SortType DEF SortedLog
<1>3. \A i \in DOMAIN SortedLog : SortedLog[i] \in Measured
  BY <1>2, LenProperties, ElementOfSeq
<1>4. IsFiniteSet(DOMAIN SortedLog)
  <2>1. Len(SortedLog) \in Nat /\ DOMAIN SortedLog = 1 .. Len(SortedLog)
    BY <1>2, LenProperties
  <2>. QED
    BY <2>1, FS_Interval
<1>. QED
  BY <1>1, <1>3, <1>4

(* The sorted log is the folded one in another order: p says which entry   *)
(* is where.                                                               *)
SortedBy(p) ==
  LET N == Len(FoldedLog) IN
  /\ IsPermutation(p, N) /\ N \in Nat
  /\ DOMAIN SortedLog = 1 .. N /\ Len(SortedLog) = N
  /\ \A j \in DOMAIN log : j \in 1 .. N
  /\ \A i \in 1 .. N :
       \/ p[i] \in DOMAIN log /\ SortedLog[i] = log[p[i]]
       \/ p[i] \notin DOMAIN log /\ SortedLog[i].type = "drop"
  /\ Ordered(SortedLog)

LEMMA SortedLogBy ==
  ASSUME TypeOK
  PROVE  \E p : SortedBy(p)
<1> DEFINE N == Len(FoldedLog)
<1>1. /\ FoldedLog \in Seq(Measured) /\ Sortable(Measured)
      /\ N \in Nat /\ DOMAIN FoldedLog = 1 .. N
      /\ \A j \in DOMAIN log : j \in DOMAIN FoldedLog /\ FoldedLog[j] = log[j]
      /\ \A j \in DOMAIN FoldedLog : j \in DOMAIN log \/ FoldedLog[j].type = "drop"
  BY FoldedFacts
<1>2. SortedLog \in Seq(Measured) /\ \E p : Permutes(p, SortedLog, FoldedLog, N)
  BY <1>1, SortPermutes DEF SortedLog
<1>3. PICK p : Permutes(p, SortedLog, FoldedLog, N)
  BY <1>2
<1>4. /\ IsPermutation(p, N) /\ Len(SortedLog) = N /\ p \in [1 .. N -> 1 .. N]
      /\ \A i \in 1 .. N : SortedLog[i] = FoldedLog[p[i]]
  BY <1>3 DEF Permutes, IsPermutation
<1>5. DOMAIN SortedLog = 1 .. N
  BY <1>2, <1>4, LenProperties
<1>6. Ordered(SortedLog)
  <2>1. WeakOrder(Measured)
    BY <1>1, SortableOrder
  <2>. QED
    BY <1>1, <2>1, SortOrders DEF SortedLog
<1>7. ASSUME NEW i \in 1 .. N
      PROVE  \/ p[i] \in DOMAIN log /\ SortedLog[i] = log[p[i]]
             \/ p[i] \notin DOMAIN log /\ SortedLog[i].type = "drop"
  BY <1>1, <1>4
<1>8. \A j \in DOMAIN log : j \in 1 .. N
  BY <1>1
<1>. QED
  BY <1>1, <1>4, <1>5, <1>6, <1>7, <1>8 DEF SortedBy

-----------------------------------------------------------------------------
(* What is measured.                                                       *)

LEMMA InPlaceWhenDone == Done /\ TurnStartsInPlace => InPlace
BY DEF Done, TurnStartsInPlace, InPlace, Counts, Received

(* The audio of a turn, as the metrics see it, is audio the agent sent in  *)
(* that turn.                                                              *)
LEMMA AudioOfTurn ==
  ASSUME TypeOK, KindsInv, CountedInv, InPlace, NEW turn, NEW i \in AudioOf(SortedLog, turn)
  PROVE  SortedLog[i].f.turn = turn
<1>1. SortedLog[i].type = "recv" /\ SortedLog[i].turn = turn /\ i \in DOMAIN SortedLog
  BY DEF AudioOf, IsAudio
<1>2. PICK j \in DOMAIN log : SortedLog[i] = log[j]
  BY <1>1, SortedFacts
<1>. QED
  BY <1>1, <1>2 DEF CountedInv, Counts

(* The silence between two turns is no stall, whichever TurnEnds the link  *)
(* loses or delays: as long as TurnStarts keep their places, the caller    *)
(* files audio under the turn it was sent in (metrics.go:14).              *)
THEOREM StallsInTurns == Spec => []StallsWithinTurns
<1>1. TypeInv /\ KindsInv /\ CountedInv => StallsWithinTurns
  <2> SUFFICES ASSUME TypeOK, KindsInv, CountedInv, Done, TurnStartsInPlace,
                      NEW p \in stalls(SortedLog, StallThreshold)
               PROVE  SortedLog[p[1]].f.turn = SortedLog[p[2]].f.turn
    BY DEF StallsWithinTurns, TypeInv
  <2>1. PICK turn : p \in Neighbours(SortedLog, turn)
    BY DEF stalls
  <2>2. p[1] \in AudioOf(SortedLog, turn) /\ p[2] \in AudioOf(SortedLog, turn)
    BY <2>1 DEF Neighbours
  <2>3. InPlace
    BY InPlaceWhenDone
  <2>. QED
    BY <2>2, <2>3, AudioOfTurn
<1>. QED
  BY <1>1, TypeInvariant, CountedInvariant, PTL

-----------------------------------------------------------------------------
(* The delay on the link.                                                  *)

LEMMA LinkDelayType == LinkDelay \in Nat
BY ProfileFacts DEF LinkDelay, ReorderExtra, DefaultReorderDelayMs

LEMMA LateKept ==
  ASSUME LateInv, NEW e, NEW new, Fired(e, new),
         \A j \in DOMAIN log' : (j \in DOMAIN log /\ log'[j] = log[j]) \/ log'[j].type # "recv",
         \A x \in new : x.act = "recv" /\ Profile.BandwidthBps = 0 => x.at <= x.f.ts + LinkDelay
  PROVE  LateInv'
BY DEF LateInv, Fired, LinkDelay

LEMMA LateStep ==
  ASSUME TypeOK, HeapFits, TurnInv, LateInv, NEW e \in heap, Fires(e)
  PROVE  LateInv'
<1>1. CASE Speak(e)
  <2>1. \A j \in DOMAIN log' : (j \in DOMAIN log /\ log'[j] = log[j]) \/ log'[j].type # "recv"
    BY <1>1, SpeakLogs
  <2> DEFINE x == Event(e.at, e.f.seq, "hear", 0, e.f)
  <2>2. Fired(e, {x}) /\ x.act = "hear"
    BY <1>1, SpeakStep
  <2>. HIDE DEF x
  <2>3. \A y \in {x} : y.act # "recv"
    BY <2>2
  <2>. QED
    BY <2>1, <2>2, <2>3, LateKept
<1>2. CASE ReceiveTurnStart(e) \/ ReceiveOther(e)
  <2>1. PICK new : Fired(e, new) /\ \A x \in new : x.act = "speak"
    BY <1>2, ReceiveStep
  <2>2. e.act = "recv"
    BY <1>2, ReceiveStep
  <2>3. PICK en \in Entries : en.f = e.f /\ en.ts = e.at /\ log' = Append(log, en)
    BY <1>2, ReceiveStep
  <2>4. /\ DOMAIN log = 1 .. Len(log) /\ DOMAIN log' = 1 .. Len(log) + 1 /\ Len(log) \in Nat
        /\ \A j \in 1 .. Len(log) : log'[j] = log[j]
        /\ log'[Len(log) + 1] = en
    BY <2>3, ReceiveLogs
  <2>5. ASSUME Profile.BandwidthBps = 0, NEW x \in heap', x.act = "recv"
        PROVE  x.at <= x.f.ts + LinkDelay
    BY <2>1, <2>5 DEF Fired, LateInv
  <2>6. ASSUME Profile.BandwidthBps = 0, NEW j \in DOMAIN log', log'[j].type = "recv"
        PROVE  log'[j].ts <= log'[j].f.ts + LinkDelay
    <3>1. CASE j \in DOMAIN log
      BY <2>4, <2>6, <3>1 DEF LateInv
    <3>2. CASE j = Len(log) + 1
      BY <2>2, <2>3, <2>4, <2>6, <3>2 DEF LateInv
    <3>. QED
      BY <2>4, <3>1, <3>2
  <2>. QED
    BY <2>5, <2>6 DEF LateInv, LinkDelay
<1>3. CASE \/ HearBargeIn(e) \/ HearWhileTalking(e) \/ HearUtterance(e)
           \/ TimerIsStale(e) \/ Respond(e)
  <2>1. PICK new : Fired(e, new) /\ (\A x \in new : x.act # "recv") /\ log' = log
    BY <1>3, QuietStep
  <2>. QED
    BY <2>1, LateKept
<1>4. CASE AgentSends(e)
  <2>1. Sends(e, SentBy(e), PayloadOf(e)) /\ e.at \in Nat /\ log' = log /\ e \in Events
    BY <1>4, AgentSendsStep
  <2>2. SentBy(e) \in Frames /\ SentBy(e).ts = e.at /\ PayloadOf(e) \in Nat
    BY <1>4, <2>1, SendContext, SentByFacts
  <2>3. PICK o \in Delay(queue, PayloadOf(e), e.at) :
          \/ o.drop /\ Fired(e, {})
          \/ ~o.drop /\ Fired(e, {Arrival(o, SentBy(e))})
    BY <2>1 DEF Sends
  <2>4. CASE o.drop
    BY <2>1, <2>3, <2>4, LateKept
  <2>5. CASE ~o.drop
    <3> DEFINE x == Arrival(o, SentBy(e))
    <3>1. x.at = o.at /\ x.f = SentBy(e)
      BY <2>1, <2>2, <2>5, ArrivalFacts
    <3>2. Profile.BandwidthBps = 0 => o.at <= e.at + LinkDelay
      <4> SUFFICES ASSUME Bps = 0 PROVE o.at <= e.at + LinkDelay
        BY DEF Bps
      <4> DEFINE extra == IF Profile.ReorderProb = "zero" THEN 0 ELSE ReorderExtra
      <4>1. queue \in Queues
        BY DEF TypeOK
      <4>2. o.at <= e.at + Profile.AddedLatencyMs + 2 * Profile.JitterMs + extra
        BY <2>1, <2>2, <2>5, <4>1, DelayBound
      <4>3. LinkDelay = Profile.AddedLatencyMs + 2 * Profile.JitterMs + extra
        BY DEF LinkDelay
      <4>4. extra \in Nat
        BY ProfileFacts DEF ReorderExtra, DefaultReorderDelayMs
      <4>. HIDE DEF extra
      <4>. QED
        BY <2>1, <4>2, <4>3, <4>4, ProfileFacts
    <3>3. Fired(e, {x})
      BY <2>3, <2>5
    <3>. HIDE DEF x
    <3>4. \A y \in {x} : Profile.BandwidthBps = 0 => y.at <= y.f.ts + LinkDelay
      BY <2>2, <3>1, <3>2
    <3>. QED
      BY <2>1, <3>3, <3>4, LateKept
  <2>. QED
    BY <2>4, <2>5
<1>. QED
  BY <1>1, <1>2, <1>3, <1>4, FiresCases

LEMMA LateInvariant == Spec => []LateInv
<1>1. Init => LateInv
  <2> SUFFICES ASSUME Init PROVE LateInv
    OBVIOUS
  <2>1. DOMAIN log = {}
    BY DEF Init
  <2>. QED
    BY <2>1, SpeechOnly DEF LateInv
<1>2. TypeInv /\ HeapFits /\ TurnInv /\ LateInv /\ [Next]_vars => LateInv'
  <2> SUFFICES ASSUME TypeInv, HeapFits, TurnInv, LateInv, [Next]_vars PROVE LateInv'
    OBVIOUS
  <2>1. ASSUME NEW e \in heap, Fires(e) PROVE LateInv'
    BY <2>1, LateStep DEF TypeInv
  <2>2. ASSUME UNCHANGED vars PROVE LateInv'
    BY <2>2 DEF vars, LateInv, LinkDelay
  <2>. QED
    BY <2>1, <2>2 DEF Next, Quiescent
<1>. QED
  BY <1>1, <1>2, TypeInvariant, TurnInvariant, PTL DEF Spec

-----------------------------------------------------------------------------
(* The stop after a barge-in.                                              *)

LEMMA CountedTurns ==
  ASSUME TypeOK, TurnInv, LocatedInv, KindsInv, CountedInv, InPlace
  PROVE  obsTurn <= agent.turn
<1>1. obsTurn \in Nat /\ agent.turn \in Nat
  BY CallerTypes, AgentTypes
<1>2. CASE obsTurn > 0
  <2>1. PICK j \in DOMAIN log : log[j].type = "turn_start" /\ log[j].f.turn = obsTurn
    BY <1>2 DEF CountedInv
  <2>2. log[j].f.kind = "turn_start"
    BY <2>1 DEF KindsInv, KindOf
  <2>3. PICK k \in DOMAIN air : air[k] = log[j].f
    BY <2>2 DEF LocatedInv, Sent
  <2>. QED
    BY <2>1, <2>3, TurnsSent
<1>. QED
  BY <1>1, <1>2

(* What an agent that goes on talking does with its time to stop: a step   *)
(* that sends none of its audio leaves it as it is or cuts it short.       *)
LEMMA ObeyedKept ==
  ASSUME TypeOK, NEW b \in Entries, Obeyed(b), NEW e, NEW new, Fired(e, new),
         agent'.turn = agent.turn, agent'.talking => agent.talking,
         agent'.interrupted = agent.interrupted, agent'.stopAt = agent.stopAt,
         e.act = "hear" => ~agent.talking,
         \A i \in DOMAIN air' :
           (i \in DOMAIN air /\ air'[i] = air[i])
             \/ air'[i].kind # "agent" \/ air'[i].turn # b.turn \/ air'[i].ts <= LastSent(b)
  PROVE  Obeyed(b)'
<1>1. now' = e.at /\ now <= e.at /\ now \in Nat /\ e.at \in Nat /\ b.ts \in Nat
  BY NotPast DEF Entries
<1>2. b.ts <= now'
  BY <1>1 DEF Obeyed
<1>3. \A i \in DOMAIN air' :
        air'[i].kind = "agent" /\ air'[i].turn = b.turn => air'[i].ts <= LastSent(b)
  BY DEF Obeyed
<1>4. ASSUME b.turn = agent'.turn, agent'.talking
      PROVE  \/ agent'.interrupted /\ agent'.stopAt <= LastSent(b)
             \/ \E x \in heap' : x.act = "hear" /\ x.at = b.ts
  <2>1. CASE agent.interrupted /\ agent.stopAt <= LastSent(b)
    BY <2>1
  <2>2. CASE \E x \in heap : x.act = "hear" /\ x.at = b.ts
    <3>1. PICK x \in heap : x.act = "hear" /\ x.at = b.ts
      BY <2>2
    <3>2. x # e
      BY <1>4, <3>1
    <3>3. x \in heap'
      BY <3>2 DEF Fired
    <3>. QED
      BY <3>1, <3>3
  <2>. QED
    BY <1>4, <2>1, <2>2 DEF Obeyed
<1>. QED
  BY <1>2, <1>3, <1>4 DEF Obeyed, LastSent

(* What it sends is not too late either: it has not heard the caller yet,  *)
(* or it stops in time.                                                    *)
LEMMA ObeyedSends ==
  ASSUME TypeOK, HeapFits, TurnInv, NEW b \in Entries, Obeyed(b), NEW e \in heap, AgentSends(e)
  PROVE  Obeyed(b)'
<1>1. /\ e.act \in SendActs /\ ~Stale(e) /\ e.at \in Nat /\ e \in Events
      /\ SentBy(e) \in Frames /\ air' = Append(air, SentBy(e))
  BY AgentSendsStep, SentByFacts
<1>2. /\ agent.talking /\ e.n = agent.turn /\ SentBy(e).turn = agent.turn
      /\ SentBy(e).kind = e.f.kind /\ SentBy(e).ts = e.at
      /\ e.act = "sendTurnStart" => e.f.kind = "turn_start"
      /\ e.act = "emitTurnEnd" => e.f.kind = "turn_end"
  BY SendContext
<1>3. PICK new : Fired(e, new)
  BY SendsDown
<1>4. /\ agent'.turn = agent.turn /\ (agent'.talking => agent.talking)
      /\ agent'.interrupted = agent.interrupted /\ agent'.stopAt = agent.stopAt
  BY <1>2, AgentSendsAgent
<1>5. FakeConfig.StopLatencyMs \in Nat /\ b.ts \in Nat /\ LastSent(b) \in Nat
  BY ConfigFacts DEF Entries, LastSent
<1>6. ASSUME SentBy(e).kind = "agent", SentBy(e).turn = b.turn
      PROVE  SentBy(e).ts <= LastSent(b)
  <2>1. e.act = "emitAgentFrame" /\ b.turn = agent.turn
    BY <1>1, <1>2, <1>6 DEF SendActs, EmitActs
  <2>2. CASE agent.interrupted /\ agent.stopAt <= LastSent(b)
    <3>1. ~(e.f.ts > agent.stopAt)
      BY <1>1, <2>1, <2>2 DEF Stale, StaleFrame
    <3>2. e.f.ts = e.at
      BY <2>1 DEF HeapFits, Fits, EmitActs
    <3>3. agent.stopAt \in Nat
      BY AgentTypes
    <3>. QED
      BY <1>1, <1>2, <1>5, <2>2, <3>1, <3>2, <3>3
  <2>3. CASE \E x \in heap : x.act = "hear" /\ x.at = b.ts
    <3>1. e.at <= b.ts
      BY <1>3, <2>3, NotPast
    <3>. QED
      BY <1>1, <1>2, <1>5, <3>1 DEF LastSent
  <2>. QED
    BY <1>2, <2>1, <2>2, <2>3 DEF Obeyed
<1>7. air \in Seq(Frames)
  BY DEF TypeOK
<1>8. \A i \in DOMAIN air' : (i \in DOMAIN air /\ air'[i] = air[i]) \/ air'[i] = SentBy(e)
  BY <1>1, <1>7, Grown
<1>9. \A i \in DOMAIN air' :
        (i \in DOMAIN air /\ air'[i] = air[i])
          \/ air'[i].kind # "agent" \/ air'[i].turn # b.turn \/ air'[i].ts <= LastSent(b)
  BY <1>6, <1>8
<1>10. e.act # "hear"
  BY <1>1 DEF SendActs, EmitActs
<1>. QED
  BY <1>3, <1>4, <1>9, <1>10, ObeyedKept

LEMMA ObeyedStep ==
  ASSUME TypeOK, HeapFits, TurnInv, StopsSoon, ~FakeConfig.IgnoreBargeIn,
         NEW b \in Entries, Obeyed(b), NEW e \in heap, Fires(e)
  PROVE  Obeyed(b)'
<1>1. b.ts \in Nat /\ b.turn \in Nat /\ FakeConfig.StopLatencyMs \in Nat /\ agent.turn \in Nat
  BY ConfigFacts, AgentTypes DEF Entries
<1>2. CASE Speak(e) \/ ReceiveTurnStart(e) \/ ReceiveOther(e) \/ TimerIsStale(e)
  <2>1. e.act # "hear" /\ agent' = agent /\ air' = air
    BY <1>2, SpeakStep, ReceiveStep, TimerIsStaleStep DEF Stale
  <2>2. PICK new : Fired(e, new)
    BY <1>2, SpeakStep, ReceiveStep, TimerIsStaleStep
  <2>. QED
    BY <2>1, <2>2, ObeyedKept
<1>3. CASE HearUtterance(e)
  <2>1. /\ ~agent.talking /\ agent'.turn = agent.turn /\ agent'.talking = agent.talking
        /\ agent'.interrupted = agent.interrupted /\ agent'.stopAt = agent.stopAt
        /\ Fired(e, {Armed(e)}) /\ air' = air
    BY <1>3, HearUtteranceStep, HearUtteranceAgent
  <2>. QED
    BY <2>1, ObeyedKept
<1>4. CASE AgentSends(e)
  BY <1>4, ObeyedSends
<1>5. CASE HearBargeIn(e) \/ HearWhileTalking(e) \/ Respond(e)
  <2>1. PICK new : Fired(e, new) /\ air' = air
    BY <1>5, QuietStep
  <2>2. now' = e.at /\ now <= e.at /\ now \in Nat /\ e.at \in Nat /\ \A x \in heap : e.at <= x.at
    BY <2>1, NotPast
  <2>3. b.ts <= now' /\ b.turn <= agent.turn
    BY <1>1, <2>2 DEF Obeyed
  <2>4. \A i \in DOMAIN air' :
          air'[i].kind = "agent" /\ air'[i].turn = b.turn => air'[i].ts <= LastSent(b)
    BY <2>1 DEF Obeyed
  <2>5. CASE HearBargeIn(e)
    <3>1. /\ agent.talking /\ ~agent.interrupted /\ agent'.turn = agent.turn
          /\ agent'.interrupted /\ agent'.stopAt = e.at + FakeConfig.StopLatencyMs
      BY <2>5, HearBargeInStep, HearBargeInAgent
    <3>2. ASSUME b.turn = agent.turn PROVE agent'.stopAt <= LastSent(b)
      <4>1. PICK x \in heap : x.act = "hear" /\ x.at = b.ts
        BY <3>1, <3>2 DEF Obeyed
      <4>2. e.at <= b.ts
        BY <2>2, <4>1
      <4>. QED
        BY <1>1, <2>2, <3>1, <4>2 DEF LastSent
    <3>. QED
      BY <2>3, <2>4, <3>1, <3>2 DEF Obeyed, LastSent
  <2>6. CASE HearWhileTalking(e)
    <3>1. agent.talking /\ agent.interrupted
      BY <2>6 DEF HearWhileTalking
    <3>2. agent' = agent
      BY <2>6, HearWhileTalkingStep
    <3>3. agent.stopAt \in Nat /\ agent.stopAt <= now + FakeConfig.StopLatencyMs
      BY <3>1, AgentTypes DEF StopsSoon
    <3>4. ASSUME b.turn = agent.turn
          PROVE  agent.stopAt <= LastSent(b) \/ \E x \in heap' : x.act = "hear" /\ x.at = b.ts
      <4>1. CASE agent.stopAt <= LastSent(b)
        BY <4>1
      <4>2. CASE \E x \in heap : x.act = "hear" /\ x.at = b.ts
        <5>1. PICK x \in heap : x.act = "hear" /\ x.at = b.ts
          BY <4>2
        <5>2. CASE x = e
          <6>1. now <= b.ts
            BY <2>2, <5>1, <5>2
          <6>. QED
            BY <1>1, <2>2, <3>3, <6>1 DEF LastSent
        <5>3. CASE x # e
          BY <2>1, <5>1, <5>3 DEF Fired
        <5>. QED
          BY <5>2, <5>3
      <4>. QED
        BY <3>1, <3>4, <4>1, <4>2 DEF Obeyed
    <3>. QED
      BY <2>3, <2>4, <3>1, <3>2, <3>4 DEF Obeyed, LastSent
  <2>7. CASE Respond(e)
    <3>1. agent'.turn = agent.turn + 1
      BY <2>7, RespondAgent
    <3>2. b.turn <= agent'.turn /\ b.turn # agent'.turn
      BY <1>1, <2>3, <3>1
    <3>. QED
      BY <2>3, <2>4, <3>2 DEF Obeyed, LastSent
  <2>. QED
    BY <1>5, <2>5, <2>6, <2>7
<1>. QED
  BY <1>2, <1>3, <1>4, <1>5, FiresCases

(* A new barge-in: all the agent has sent is from before, and the speech   *)
(* is heard at once.                                                       *)
LEMMA ObeyedBarge ==
  ASSUME TypeOK, HeapFits, AirPast, NEW e \in heap, Speak(e), obsTurn <= agent.turn,
         NEW b, b.ts = e.at, b.turn = obsTurn
  PROVE  Obeyed(b)'
<1> DEFINE x == Event(e.at, e.f.seq, "hear", 0, e.f)
<1>1. /\ Fired(e, {x}) /\ x.at = e.at /\ x.act = "hear"
      /\ agent' = agent /\ air' = air
  BY SpeakStep
<1>. HIDE DEF x
<1>2. now' = e.at /\ now <= e.at /\ now \in Nat /\ e.at \in Nat
  BY <1>1, NotPast
<1>3. x \in heap'
  BY <1>1 DEF Fired
<1>4. FakeConfig.StopLatencyMs \in Nat
  BY ConfigFacts
<1>5. ASSUME NEW i \in DOMAIN air PROVE air[i].ts <= b.ts + FakeConfig.StopLatencyMs
  <2>1. air[i].ts <= now /\ air[i].ts \in Nat
    BY AirShape DEF AirPast
  <2>. QED
    BY <1>2, <1>4, <2>1
<1>6. b.ts <= now'
  BY <1>2
<1>. QED
  BY <1>1, <1>3, <1>5, <1>6 DEF Obeyed, LastSent

LEMMA StopsSoonStep ==
  ASSUME TypeOK, StopsSoon, NEW e \in heap, Fires(e)
  PROVE  StopsSoon'
<1>1. FakeConfig.StopLatencyMs \in Nat /\ agent.stopAt \in Nat
  BY ConfigFacts, AgentTypes
<1>2. now' = e.at /\ now <= e.at /\ now \in Nat /\ e.at \in Nat
  <2>1. \E new : Fired(e, new)
    BY FiresCases, SpeakStep, ReceiveTurnStartStep, ReceiveOtherStep, QuietStep, SendsDown
  <2>. QED
    BY <2>1, NotPast
<1>3. CASE HearBargeIn(e)
  <2>1. agent'.stopAt = e.at + FakeConfig.StopLatencyMs
    BY <1>3, HearBargeInAgent
  <2>. QED
    BY <1>1, <1>2, <2>1 DEF StopsSoon
<1>4. CASE Respond(e)
  <2>1. agent'.interrupted = FALSE
    BY <1>4, RespondAgent
  <2>. QED
    BY <2>1 DEF StopsSoon
<1>5. CASE ~HearBargeIn(e) /\ ~Respond(e)
  <2>1. /\ agent'.talking => agent.talking
        /\ agent'.interrupted = agent.interrupted /\ agent'.stopAt = agent.stopAt
    <3>1. CASE \/ Speak(e) \/ ReceiveTurnStart(e) \/ ReceiveOther(e)
               \/ HearWhileTalking(e) \/ TimerIsStale(e)
      <4>1. agent' = agent
        BY <3>1, SpeakStep, ReceiveTurnStartStep, ReceiveOtherStep, HearWhileTalkingStep,
           TimerIsStaleStep
      <4>. QED
        BY <4>1
    <3>2. CASE HearUtterance(e)
      BY <3>2, HearUtteranceAgent
    <3>3. CASE AgentSends(e)
      BY <3>3, AgentSendsAgent, SendContext
    <3>. QED
      BY <1>5, <3>1, <3>2, <3>3, FiresCases
  <2>2. agent.talking /\ agent.interrupted => agent.stopAt <= now + FakeConfig.StopLatencyMs
    BY DEF StopsSoon
  <2>3. agent.stopAt <= now + FakeConfig.StopLatencyMs
          => agent.stopAt <= now' + FakeConfig.StopLatencyMs
    BY <1>1, <1>2
  <2>. QED
    BY <2>1, <2>2, <2>3 DEF StopsSoon
<1>. QED
  BY <1>3, <1>4, <1>5

LEMMA ObeyStep ==
  ASSUME TypeOK, HeapFits, TurnInv, AirPast, LocatedInv, KindsInv, CountedInv, ObeyInv,
         NEW e \in heap, Fires(e)
  PROVE  ObeyInv'
<1>1. StopsSoon'
  BY StopsSoonStep DEF ObeyInv
<1>2. ASSUME InPlace', ~FakeConfig.IgnoreBargeIn, NEW j \in DOMAIN log', log'[j].type = "barge_in"
      PROVE  Obeyed(log[j])'
  <2>1. InPlace
    BY <1>2, InPlaceBefore
  <2>2. CASE j \in DOMAIN log /\ log'[j] = log[j]
    <3>1. log[j] \in Entries /\ Obeyed(log[j])
      BY <1>2, <2>1, <2>2, LogTypes DEF ObeyInv
    <3>2. PICK b \in Entries : b = log[j] /\ Obeyed(b)
      BY <3>1
    <3>3. Obeyed(b)'
      BY <1>2, <3>2, ObeyedStep DEF ObeyInv
    <3>4. b = log'[j]
      BY <2>2, <3>2
    <3>. QED
      BY <3>3, <3>4 DEF Obeyed, LastSent
  <2>3. CASE ~(j \in DOMAIN log /\ log'[j] = log[j])
    <3>1. Speak(e)
      <4>1. CASE ReceiveTurnStart(e) \/ ReceiveOther(e)
        <5>1. PICK en \in Entries : en.type = TypeFor(e.f.kind) /\ log' = Append(log, en)
          BY <4>1, ReceiveStep
        <5>2. en.type # "barge_in"
          <6>1. e.f.kind \in {"agent", "turn_start", "turn_end"}
            BY <4>1, ReceiveStep
          <6>. QED
            BY <5>1, <6>1 DEF TypeFor
        <5>3. (j \in DOMAIN log /\ log'[j] = log[j]) \/ log'[j] = en
          <6>1. log \in Seq(Entries)
            BY DEF TypeOK
          <6>. QED
            BY <5>1, <6>1, Grown
        <5>. QED
          BY <1>2, <2>3, <5>2, <5>3
      <4>2. CASE \/ HearBargeIn(e) \/ HearWhileTalking(e) \/ HearUtterance(e)
                 \/ TimerIsStale(e) \/ Respond(e) \/ AgentSends(e)
        <5>1. log' = log
          BY <4>2, QuietStep, SendsDown
        <5>. QED
          BY <2>3, <5>1
      <4>. QED
        BY <4>1, <4>2, FiresCases
    <3>2. log'[j].ts = e.at /\ log'[j].turn = obsTurn
      BY <2>3, <3>1, SpeakLogs
    <3>3. obsTurn <= agent.turn
      BY <2>1, CountedTurns
    <3>4. PICK b : b = log'[j]
      OBVIOUS
    <3>5. Obeyed(b)'
      BY <3>1, <3>2, <3>3, <3>4, ObeyedBarge
    <3>. QED
      BY <3>4, <3>5 DEF Obeyed, LastSent
  <2>. QED
    BY <2>2, <2>3
<1>. QED
  BY <1>1, <1>2 DEF ObeyInv, Obeyed, LastSent

LEMMA ObeyInvariant == Spec => []ObeyInv
<1>1. Init => ObeyInv
  BY DEF Init, ObeyInv, StopsSoon
<1>2. /\ TypeInv /\ HeapFits /\ TurnInv /\ StopInv /\ LocatedInv /\ KindsInv /\ CountedInv
      /\ ObeyInv /\ [Next]_vars
      => ObeyInv'
  <2> SUFFICES ASSUME TypeInv, HeapFits, TurnInv, StopInv, LocatedInv, KindsInv, CountedInv,
                      ObeyInv, [Next]_vars
               PROVE  ObeyInv'
    OBVIOUS
  <2>1. ASSUME NEW e \in heap, Fires(e) PROVE ObeyInv'
    BY <2>1, ObeyStep DEF TypeInv, StopInv
  <2>2. ASSUME UNCHANGED vars PROVE ObeyInv'
    BY <2>2 DEF vars, ObeyInv, StopsSoon, InPlace, Counts, StartUnderWay, Obeyed, LastSent
  <2>. QED
    BY <2>1, <2>2 DEF Next, Quiescent
<1>. QED
  BY <1>1, <1>2, TypeInvariant, TurnInvariant, StopInvariant, LocatedInvariant,
     CountedInvariant, PTL DEF Spec

-----------------------------------------------------------------------------
(* Extremes and ranks of sets of naturals.                                 *)

(* A finite set of naturals has an element of each rank.                   *)
LEMMA AscendingIn ==
  ASSUME NEW T \in SUBSET Nat, IsFiniteSet(T), NEW k \in DOMAIN Ascending(T)
  PROVE  Ascending(T)[k] \in T
<1> DEFINE Below(x) == {y \in T : y < x}
           N == Cardinality(T)
           R == {r \in Nat : r < N => \E x \in T : Cardinality(Below(x)) = r}
<1>1. N \in Nat /\ k \in 1 .. N
  BY FS_CardinalityType DEF Ascending
<1>2. \A x : IsFiniteSet(Below(x)) /\ Cardinality(Below(x)) \in Nat
  <2>1. \A x : Below(x) \subseteq T
    OBVIOUS
  <2>. HIDE DEF Below
  <2>. QED
    BY <2>1, FS_Subset, FS_CardinalityType
<1>3. 0 \in R
  <2> SUFFICES ASSUME 0 < N PROVE \E x \in T : Cardinality(Below(x)) = 0
    OBVIOUS
  <2>1. T # {}
    BY FS_EmptySet
  <2>2. PICK m \in T : \A y \in T : m <= y
    BY <2>1, LeastNat
  <2>3. Below(m) = {}
    <3>1. ASSUME NEW y \in T PROVE ~(y < m)
      BY <2>2
    <3>. QED
      BY <3>1
  <2>4. Cardinality(Below(m)) = 0
    BY <2>3, FS_EmptySet
  <2>. QED
    BY <2>4
<1>4. ASSUME NEW r \in Nat, r \in R PROVE r + 1 \in R
  <2> SUFFICES ASSUME r + 1 < N PROVE \E x \in T : Cardinality(Below(x)) = r + 1
    OBVIOUS
  <2>1. r < N
    BY <1>1
  <2>2. PICK x \in T : Cardinality(Below(x)) = r
    BY <1>4, <2>1
  <2> DEFINE U == Below(x) \cup {x}
  <2>3. IsFiniteSet(U) /\ Cardinality(U) = r + 1
    <3>1. x \notin Below(x) /\ IsFiniteSet(Below(x))
      BY <1>2
    <3>. HIDE DEF Below
    <3>. QED
      BY <2>2, <3>1, FS_AddElement
  <2>4. T \ U # {}
    <3> SUFFICES ASSUME T \subseteq U PROVE FALSE
      OBVIOUS
    <3>1. U = T
      OBVIOUS
    <3>2. N = r + 1
      BY <2>3, <3>1
    <3>. QED
      BY <1>1, <3>2
  <2>5. PICK z \in T \ U : \A y \in T \ U : z <= y
    <3>1. T \ U \in SUBSET Nat
      OBVIOUS
    <3>. HIDE DEF U
    <3>. QED
      BY <2>4, <3>1, LeastNat
  <2>6. z \in Nat /\ x \in Nat /\ x < z
    BY <2>5
  <2>7. Below(z) = U
    <3>1. ASSUME NEW y \in T PROVE y < z <=> y \in U
      BY <2>5, <2>6
    <3>. QED
      BY <2>2, <3>1
  <2>8. Cardinality(Below(z)) = r + 1
    <3>. HIDE DEF Below, U
    <3>. QED
      BY <2>3, <2>7
  <2>. QED
    BY <2>8
<1>5. k - 1 \in R
  <2>1. k - 1 \in Nat
    BY <1>1
  <2>. HIDE DEF R
  <2>. QED
    BY <1>3, <1>4, <2>1, NatInduct
<1>6. PICK x \in T : Cardinality(Below(x)) = k - 1
  BY <1>1, <1>5
<1>7. Ascending(T)[k] = CHOOSE y \in T : Cardinality(Below(y)) = k - 1
  BY <1>1 DEF Ascending
<1>. HIDE DEF Below
<1>. QED
  BY <1>6, <1>7

-----------------------------------------------------------------------------
(* What time-to-stop measures.                                             *)

(* The turns it measures are those the caller barged into.                 *)
LEMMA InterruptedFacts ==
  ASSUME TypeOK
  PROVE  Interrupted(SortedLog) \in SUBSET Nat /\ IsFiniteSet(Interrupted(SortedLog))
<1> DEFINE D == {i \in DOMAIN SortedLog : SortedLog[i].type = "barge_in"}
           T == {SortedLog[i].turn : i \in D}
           f == [i \in D |-> SortedLog[i].turn]
<1>1. Interrupted(SortedLog) = T
  BY DEF Interrupted
<1>2. ASSUME NEW i \in D PROVE SortedLog[i].turn \in Nat
  <2>1. PICK j \in DOMAIN log : SortedLog[i] = log[j]
    BY SortedFacts
  <2>. QED
    BY <2>1, LogTypes DEF Entries
<1>3. IsFiniteSet(D)
  <2>1. D \subseteq DOMAIN SortedLog
    OBVIOUS
  <2>. HIDE DEF D
  <2>. QED
    BY <2>1, SortedFacts, FS_Subset
<1>4. f \in Surjection(D, T)
  BY DEF Surjection
<1>5. IsFiniteSet(T)
  <2>. HIDE DEF D, T, f
  <2>. QED
    BY <1>3, <1>4, FS_Surjection
<1>6. T \in SUBSET Nat
  BY <1>2
<1>. QED
  BY <1>1, <1>5, <1>6

(* A turn with a barge-in stops in time: from the first of its barge-ins,  *)
(* what the caller still hears was sent within the agent's latency, and    *)
(* delayed by what the link adds.                                          *)
LEMMA StopMeasured ==
  ASSUME TypeOK, KindsInv, LocatedInv, CountedInv, LateInv, ObeyInv, InPlace,
         ~FakeConfig.IgnoreBargeIn, Profile.BandwidthBps = 0,
         NEW turn \in Interrupted(SortedLog)
  PROVE  TimeToStop(SortedLog, turn) <= FakeConfig.StopLatencyMs + LinkDelay
<1> DEFINE L == FakeConfig.StopLatencyMs
           B == TimesOf(SortedLog, "barge_in", turn)
           T == StillTalking(SortedLog, turn)
           m == BargeAt(SortedLog, turn)
<1>1. L \in Nat /\ LinkDelay \in Nat
  BY ConfigFacts, LinkDelayType
<1>2. B \in SUBSET Nat /\ B # {}
  <2>1. ASSUME NEW i \in DOMAIN SortedLog, SortedLog[i].type = "barge_in"
        PROVE  SortedLog[i].ts \in Nat
    <3>1. PICK j \in DOMAIN log : SortedLog[i] = log[j]
      BY <2>1, SortedFacts
    <3>. QED
      BY <3>1, LogTypes
  <2>2. PICK i \in DOMAIN SortedLog : SortedLog[i].type = "barge_in" /\ SortedLog[i].turn = turn
    BY DEF Interrupted
  <2>. QED
    BY <2>1, <2>2 DEF TimesOf
<1>3. m \in B /\ m \in Nat
  <2>1. m = Min(B)
    BY DEF BargeAt
  <2>. HIDE DEF B, m
  <2>. QED
    BY <1>2, <2>1, MinFacts
<1>4. PICK j \in DOMAIN log : log[j].type = "barge_in" /\ log[j].turn = turn /\ log[j].ts = m
  <2>1. PICK i \in DOMAIN SortedLog :
          SortedLog[i].type = "barge_in" /\ SortedLog[i].turn = turn /\ SortedLog[i].ts = m
    BY <1>3 DEF TimesOf
  <2>2. PICK j \in DOMAIN log : SortedLog[i] = log[j]
    BY <2>1, SortedFacts
  <2>. QED
    BY <2>1, <2>2
<1>5. ASSUME NEW i \in DOMAIN air, air[i].kind = "agent", air[i].turn = turn
      PROVE  air[i].ts <= m + L
  <2>1. Obeyed(log[j])
    BY <1>4 DEF ObeyInv
  <2>. QED
    BY <1>4, <1>5, <2>1 DEF Obeyed, LastSent
<1>. HIDE DEF m
<1>6. ASSUME NEW i \in DOMAIN SortedLog, IsAudio(SortedLog[i]), SortedLog[i].turn = turn
      PROVE  SortedLog[i].ts \in Nat /\ SortedLog[i].ts <= m + L + LinkDelay
  <2>1. PICK l \in DOMAIN log : SortedLog[i] = log[l]
    BY <1>6, SortedFacts DEF IsAudio
  <2>2. log[l].type = "recv" /\ log[l].f.kind = "agent" /\ log[l].turn = turn
    BY <1>6, <2>1 DEF IsAudio
  <2>3. log[l].f.turn = turn
    BY <2>2 DEF CountedInv, Counts
  <2>4. PICK k \in DOMAIN air : air[k] = log[l].f
    BY <2>2 DEF LocatedInv, Sent
  <2>5. log[l].f.ts <= m + L /\ log[l].f.ts \in Nat
    BY <1>5, <2>2, <2>3, <2>4, AirShape
  <2>6. log[l].ts <= log[l].f.ts + LinkDelay /\ log[l].ts \in Nat
    BY <2>2, LogTypes DEF LateInv
  <2>. QED
    BY <1>1, <1>3, <2>1, <2>5, <2>6
<1>7. T \in SUBSET Nat /\ \A t \in T : t <= m + L + LinkDelay
  BY <1>6 DEF StillTalking
<1>8. TimeToStop(SortedLog, turn) = IF T = {} THEN 0 ELSE Max(T) - m
  BY DEF TimeToStop, m
<1>. HIDE DEF T, L
<1>9. CASE T = {}
  BY <1>1, <1>8, <1>9 DEF L
<1>10. CASE T # {}
  <2>1. m + L + LinkDelay \in Nat
    BY <1>1, <1>3
  <2>2. Max(T) \in T
    BY <1>7, <1>10, <2>1, MaxBounded
  <2>3. Max(T) \in Nat /\ Max(T) <= m + L + LinkDelay
    BY <1>7, <2>2
  <2>4. Max(T) - m <= L + LinkDelay
    BY <1>1, <1>3, <2>3
  <2>. QED
    BY <1>8, <1>10, <2>4 DEF L
<1>. QED
  BY <1>9, <1>10

(* time-to-stop tells what it is meant to tell: while TurnStarts keep      *)
(* their places and bandwidth is not limited, an agent that obeys is       *)
(* reported to stop within its latency and the delay of the link, whatever *)
(* audio and TurnEnds are lost or late (metrics.go:6).                     *)
THEOREM StopsMeasuredInTime == Spec => []TimeToStopWithinLatency
<1>1. /\ TypeInv /\ KindsInv /\ LocatedInv /\ CountedInv /\ LateInv /\ ObeyInv
      => TimeToStopWithinLatency
  <2> SUFFICES ASSUME TypeOK, KindsInv, LocatedInv, CountedInv, LateInv, ObeyInv,
                      Done, TurnStartsInPlace, ~FakeConfig.IgnoreBargeIn,
                      Profile.BandwidthBps = 0, NEW k \in DOMAIN Metric.TimeToStopMs
               PROVE  Metric.TimeToStopMs[k] <= FakeConfig.StopLatencyMs + LinkDelay
    BY DEF TimeToStopWithinLatency, TypeInv
  <2>1. InPlace
    BY InPlaceWhenDone
  <2> DEFINE turns == Ascending(Interrupted(SortedLog))
  <2>2. Metric.TimeToStopMs = [n \in DOMAIN turns |-> TimeToStop(SortedLog, turns[n])]
    BY DEF Metric, ComputeSession, SortedLog, timeToStop
  <2>3. k \in DOMAIN turns
    BY <2>2
  <2>4. turns[k] \in Interrupted(SortedLog)
    BY <2>3, InterruptedFacts, AscendingIn
  <2>5. Metric.TimeToStopMs[k] = TimeToStop(SortedLog, turns[k])
    BY <2>2, <2>3
  <2>. HIDE DEF turns
  <2>. QED
    BY <2>1, <2>4, <2>5, StopMeasured
<1>. QED
  BY <1>1, TypeInvariant, LocatedInvariant, CountedInvariant, LateInvariant, ObeyInvariant, PTL

-----------------------------------------------------------------------------
(* What reordered_frames counts.                                           *)

(* The audio up to position m of a log that has a higher number before it. *)
Over(l, m) ==
  {i \in 1 .. m : IsAudio(l[i]) /\
     \E j \in 1 .. m : j < i /\ IsAudio(l[j]) /\ l[j].f.seq > l[i].f.seq}
AudioNumbered(l) == \A k \in 1 .. Len(l) : IsAudio(l[k]) => l[k].f.seq \in Nat

(* What the metric knows when it has seen m entries, and its next step.    *)
Seen(r, l, m) ==
  /\ r \in [top : Nat, count : Nat]
  /\ \A i \in 1 .. m : IsAudio(l[i]) => l[i].f.seq <= r.top
  /\ r.top = 0 \/ \E i \in 1 .. m : IsAudio(l[i]) /\ l[i].f.seq = r.top
  /\ r.count = Cardinality(Over(l, m))
Sees(r, e) == IF IsAudio(e) THEN OutOfOrder(r, e.f.seq) ELSE r
IsSeeing(g, l) ==
  g = [k \in 0 .. Len(l) |->
         IF k = 0 THEN [top |-> 0, count |-> 0]
         ELSE IF IsAudio(l[k]) THEN OutOfOrder(g[k - 1], l[k].f.seq)
         ELSE g[k - 1]]

LEMMA SeenStart == ASSUME NEW l PROVE Seen([top |-> 0, count |-> 0], l, 0)
<1>1. Over(l, 0) = {}
  BY DEF Over
<1>. QED
  BY <1>1, FS_EmptySet DEF Seen

LEMMA SeenOnce ==
  ASSUME NEW l, NEW m \in Nat, m <= Len(l), AudioNumbered(l), Len(l) \in Nat,
         NEW r, NEW s, Seen(r, l, m), Seen(s, l, m)
  PROVE  r = s
<1>1. \A i \in 1 .. m : IsAudio(l[i]) => l[i].f.seq \in Nat
  BY DEF AudioNumbered
<1>2. /\ r \in [top : Nat, count : Nat] /\ s \in [top : Nat, count : Nat]
      /\ r.count = s.count
  BY DEF Seen
<1>3. r.top <= s.top
  BY <1>1, <1>2 DEF Seen
<1>4. s.top <= r.top
  BY <1>1, <1>2 DEF Seen
<1>5. r.top = s.top
  BY <1>2, <1>3, <1>4
<1>. QED
  BY <1>2, <1>5

LEMMA SeenStep ==
  ASSUME NEW l, NEW m \in Nat, m + 1 <= Len(l), AudioNumbered(l), Len(l) \in Nat,
         NEW r, Seen(r, l, m)
  PROVE  Seen(Sees(r, l[m + 1]), l, m + 1)
<1> DEFINE e == l[m + 1]
           x == e.f.seq
           after == Sees(r, e)
<1>1. /\ r \in [top : Nat, count : Nat] /\ r.top \in Nat /\ r.count \in Nat
      /\ \A i \in 1 .. m : IsAudio(l[i]) => l[i].f.seq <= r.top
      /\ r.top = 0 \/ \E i \in 1 .. m : IsAudio(l[i]) /\ l[i].f.seq = r.top
      /\ r.count = Cardinality(Over(l, m))
  BY DEF Seen
<1>2. /\ \A i \in 1 .. m : IsAudio(l[i]) => l[i].f.seq \in Nat
      /\ IsAudio(e) => x \in Nat
  BY DEF AudioNumbered
<1>3. IsFiniteSet(Over(l, m)) /\ m + 1 \notin Over(l, m)
  <2>1. Over(l, m) \in SUBSET (1 .. m) /\ IsFiniteSet(1 .. m)
    BY FS_Interval DEF Over
  <2>2. m + 1 \notin 1 .. m
    OBVIOUS
  <2>. QED
    BY <2>1, <2>2, FS_Subset
<1>4. ASSUME NEW i \in 1 .. m PROVE i \in Over(l, m + 1) <=> i \in Over(l, m)
  <2>1. \A j \in 1 .. m + 1 : j < i => j \in 1 .. m
    OBVIOUS
  <2>. QED
    BY <2>1 DEF Over
<1>5. m + 1 \in Over(l, m + 1) <=> IsAudio(e) /\ x < r.top
  <2>1. m + 1 \in Over(l, m + 1) <=>
          IsAudio(e) /\ \E j \in 1 .. m : IsAudio(l[j]) /\ l[j].f.seq > x
    <3>1. \A j \in 1 .. m + 1 : j < m + 1 <=> j \in 1 .. m
      OBVIOUS
    <3>2. m + 1 \in 1 .. m + 1 /\ \A j \in 1 .. m : j \in 1 .. m + 1
      OBVIOUS
    <3>. QED
      BY <3>1, <3>2 DEF Over
  <2>2. ASSUME IsAudio(e), NEW j \in 1 .. m, IsAudio(l[j]), l[j].f.seq > x PROVE x < r.top
    BY <1>1, <1>2, <2>2
  <2>3. ASSUME IsAudio(e), x < r.top
        PROVE  \E j \in 1 .. m : IsAudio(l[j]) /\ l[j].f.seq > x
    <3>1. r.top # 0
      BY <1>1, <1>2, <2>3
    <3>2. PICK j \in 1 .. m : IsAudio(l[j]) /\ l[j].f.seq = r.top
      BY <1>1, <3>1
    <3>. QED
      BY <1>1, <1>2, <2>3, <3>2
  <2>. QED
    BY <2>1, <2>2, <2>3
<1>6. Over(l, m + 1) \in SUBSET (1 .. m + 1) /\ Over(l, m) \in SUBSET (1 .. m)
  BY DEF Over
<1>7. \A i \in 1 .. m + 1 : i \in 1 .. m \/ i = m + 1
  OBVIOUS
<1>. HIDE DEF e, x
<1>8. CASE ~IsAudio(e)
  <2>1. after = r
    BY <1>8 DEF Sees
  <2>2. Over(l, m + 1) = Over(l, m)
    BY <1>4, <1>5, <1>6, <1>7, <1>8
  <2>3. \A i \in 1 .. m + 1 : IsAudio(l[i]) => i \in 1 .. m
    BY <1>7, <1>8 DEF e
  <2>4. \A i \in 1 .. m : i \in 1 .. m + 1
    OBVIOUS
  <2>. HIDE DEF after
  <2>5. Seen(after, l, m + 1)
    BY <1>1, <2>1, <2>2, <2>3, <2>4 DEF Seen
  <2>. QED
    BY <2>5 DEF after, e
<1>9. CASE IsAudio(e) /\ x < r.top
  <2>1. after = [r EXCEPT !.count = @ + 1]
    BY <1>9 DEF Sees, OutOfOrder, x
  <2>2. after \in [top : Nat, count : Nat] /\ after.top = r.top /\ after.count = r.count + 1
    BY <1>1, <2>1
  <2>3. Over(l, m + 1) = Over(l, m) \cup {m + 1}
    BY <1>4, <1>5, <1>6, <1>7, <1>9
  <2>4. Cardinality(Over(l, m + 1)) = r.count + 1
    BY <1>1, <1>3, <2>3, FS_AddElement
  <2>5. \A i \in 1 .. m + 1 : IsAudio(l[i]) => l[i].f.seq <= r.top
    BY <1>1, <1>2, <1>7, <1>9 DEF e, x
  <2>6. \A i \in 1 .. m : i \in 1 .. m + 1
    OBVIOUS
  <2>. HIDE DEF after
  <2>7. Seen(after, l, m + 1)
    BY <1>1, <2>2, <2>4, <2>5, <2>6 DEF Seen
  <2>. QED
    BY <2>7 DEF after, e
<1>10. CASE IsAudio(e) /\ ~(x < r.top)
  <2>1. after = [r EXCEPT !.top = x]
    BY <1>10 DEF Sees, OutOfOrder, x
  <2>2. after \in [top : Nat, count : Nat] /\ after.top = x /\ after.count = r.count
    BY <1>1, <1>2, <1>10, <2>1
  <2>3. Over(l, m + 1) = Over(l, m)
    BY <1>4, <1>5, <1>6, <1>7, <1>10
  <2>4. \A i \in 1 .. m + 1 : IsAudio(l[i]) => l[i].f.seq <= x
    BY <1>1, <1>2, <1>7, <1>10 DEF e, x
  <2>5. m + 1 \in 1 .. m + 1 /\ IsAudio(l[m + 1]) /\ l[m + 1].f.seq = x
    BY <1>10 DEF e, x
  <2>. HIDE DEF after
  <2>6. Seen(after, l, m + 1)
    BY <1>1, <2>2, <2>3, <2>4, <2>5 DEF Seen
  <2>. QED
    BY <2>6 DEF after, e
<1>. QED
  BY <1>8, <1>9, <1>10

LEMMA ReorderedCounts ==
  ASSUME NEW l, Len(l) \in Nat, AudioNumbered(l)
  PROVE  reorderedFrames(l) = Cardinality(Over(l, Len(l)))
<1> DEFINE N == Len(l)
           start == [top |-> 0, count |-> 0]
           h == [k \in 0 .. N |-> CHOOSE r : Seen(r, l, k)]
           U == {m \in Nat : m <= N => Seen(h[m], l, m)}
<1>1. 0 \in U
  BY SeenStart
<1>2. ASSUME NEW m \in Nat, m \in U PROVE m + 1 \in U
  <2> SUFFICES ASSUME m + 1 <= N PROVE Seen(h[m + 1], l, m + 1)
    OBVIOUS
  <2>1. Seen(h[m], l, m)
    BY <1>2
  <2>. HIDE DEF h
  <2>2. Seen(Sees(h[m], l[m + 1]), l, m + 1)
    BY <2>1, SeenStep
  <2>3. h[m + 1] = CHOOSE r : Seen(r, l, m + 1)
    BY DEF h
  <2>. QED
    BY <2>2, <2>3
<1>3. \A m \in Nat : m \in U
  <2>. HIDE DEF U
  <2>. QED
    BY <1>1, <1>2, NatInduct
<1>. HIDE DEF h
<1>4. ASSUME NEW k \in 0 .. N PROVE h[k] = IF k = 0 THEN start ELSE Sees(h[k - 1], l[k])
  <2>1. Seen(h[k], l, k)
    BY <1>3
  <2>2. CASE k = 0
    <3>1. Seen(start, l, k)
      BY <2>2, SeenStart
    <3>. HIDE DEF start
    <3>2. h[k] = start
      BY <2>1, <3>1, SeenOnce
    <3>. QED
      BY <2>2, <3>2
  <2>3. CASE k # 0
    <3>1. k - 1 \in Nat /\ k - 1 <= N /\ k - 1 + 1 = k
      BY <2>3
    <3>2. Seen(h[k - 1], l, k - 1)
      BY <1>3, <3>1
    <3>3. Seen(Sees(h[k - 1], l[k]), l, k)
      BY <3>1, <3>2, SeenStep
    <3>. QED
      BY <2>1, <2>3, <3>3, SeenOnce
  <2>. QED
    BY <2>2, <2>3
<1>5. IsSeeing(h, l)
  <2>1. h = [k \in 0 .. N |-> h[k]]
    BY DEF h
  <2>2. \A k \in 0 .. N :
          h[k] = IF k = 0 THEN start
                 ELSE IF IsAudio(l[k]) THEN OutOfOrder(h[k - 1], l[k].f.seq) ELSE h[k - 1]
    BY <1>4 DEF Sees
  <2>. QED
    BY <2>1, <2>2 DEF IsSeeing
<1> DEFINE g == CHOOSE f : IsSeeing(f, l)
<1>6. IsSeeing(g, l)
  BY <1>5
<1>7. reorderedFrames(l) = g[N].count
  BY DEF reorderedFrames, IsSeeing
<1>. HIDE DEF g
<1> DEFINE V == {m \in Nat : m <= N => Seen(g[m], l, m)}
<1>8. 0 \in V
  <2>1. g[0] = start
    BY <1>6 DEF IsSeeing
  <2>. QED
    BY <2>1, SeenStart
<1>9. ASSUME NEW m \in Nat, m \in V PROVE m + 1 \in V
  <2> SUFFICES ASSUME m + 1 <= N PROVE Seen(g[m + 1], l, m + 1)
    OBVIOUS
  <2>1. m + 1 \in 0 .. N /\ m + 1 # 0 /\ (m + 1) - 1 = m
    OBVIOUS
  <2>2. g[m + 1] = Sees(g[m], l[m + 1])
    BY <1>6, <2>1 DEF IsSeeing, Sees
  <2>3. Seen(g[m], l, m)
    BY <1>9
  <2>. QED
    BY <2>2, <2>3, SeenStep
<1>10. N \in V
  <2>. HIDE DEF V
  <2>. QED
    BY <1>8, <1>9, NatInduct
<1>. QED
  BY <1>7, <1>10 DEF Seen

-----------------------------------------------------------------------------
(* The order of arrival.                                                   *)

(* What the caller receives at a time, and with a number, comes after what *)
(* it has logged.                                                          *)
Follows(at, seq, en) == at > en.ts \/ (at = en.ts /\ seq > en.f.seq)
ArrivedInv ==
  /\ \A j \in Audio : log[j].ts <= now
  /\ \A i, j \in Audio : i < j => Follows(log[j].ts, log[j].f.seq, log[i])
  /\ \A x \in heap : x.act = "recv" => \A j \in Audio : Follows(x.at, x.seq, log[j])

(* No two arrivals have a number in common.                                *)
LEMMA ArrivalsDiffer ==
  ASSUME TypeOK, HeapFits, NumberedInv, LocatedInv, NEW x \in heap, NEW y \in heap,
         x.act = "recv", y.act = "recv", x.seq = y.seq
  PROVE  x = y
<1>1. x.f.seq = x.seq /\ y.f.seq = y.seq
  BY DEF HeapFits, Fits
<1>2. PICK i \in DOMAIN air : air[i] = x.f
  BY DEF LocatedInv, Sent
<1>3. PICK j \in DOMAIN air : air[j] = y.f
  BY DEF LocatedInv, Sent
<1>4. /\ air[i].seq \in Nat /\ air[j].seq \in Nat /\ air[i].seq = air[j].seq
      /\ i \in Nat /\ j \in Nat
  <2>1. air \in Seq(Frames)
    BY DEF TypeOK
  <2>2. DOMAIN air = 1 .. Len(air) /\ Len(air) \in Nat
    BY <2>1, LenProperties
  <2>. QED
    BY <1>1, <1>2, <1>3, <2>2, SentTypes
<1>5. i = j
  BY <1>4 DEF NumberedInv
<1>6. x \in Ways(heap, air[i]) /\ y \in Ways(heap, air[i])
  BY <1>2, <1>3, <1>5 DEF Ways
<1>7. Once(heap, log, dropped, air[i])
  BY DEF LocatedInv
<1>. QED
  BY <1>6, <1>7 DEF Once

LEMMA AudioTypes ==
  ASSUME TypeOK
  PROVE  \A j \in Audio : /\ j \in Nat /\ log[j].ts \in Nat /\ log[j].f \in Frames
                          /\ log[j].f.seq \in Nat /\ log[j].f.kind = "agent"
<1>1. log \in Seq(Entries)
  BY DEF TypeOK
<1>2. DOMAIN log = 1 .. Len(log) /\ Len(log) \in Nat /\ \A j \in DOMAIN log : log[j] \in Entries
  BY <1>1, LenProperties, ElementOfSeq
<1>. QED
  BY <1>2 DEF Audio, IsAudio, Entries, Frames

LEMMA ArrivedKept ==
  ASSUME TypeOK, ArrivedInv, NEW e, NEW new, Fired(e, new), Kept(log, log'),
         \A j \in DOMAIN log' : (j \in DOMAIN log /\ log'[j] = log[j]) \/ ~IsAudio(log'[j]),
         \A x \in new : x.act = "recv" => \A j \in Audio : Follows(x.at, x.seq, log[j])
  PROVE  ArrivedInv'
<1>1. ASSUME NEW j \in Audio' PROVE j \in Audio /\ log'[j] = log[j]
  BY DEF Audio
<1>2. now \in Nat /\ now' \in Nat /\ now <= now'
  BY DEF Fired, Events
<1>3. \A j \in Audio : log[j].ts <= now'
  BY <1>2, AudioTypes DEF ArrivedInv
<1>4. \A x \in heap' : x.act = "recv" => \A j \in Audio : Follows(x.at, x.seq, log[j])
  BY DEF ArrivedInv, Fired
<1>5. \A j \in Audio' : log'[j].ts <= now'
  BY <1>1, <1>3
<1>6. \A i, j \in Audio' : i < j => Follows(log'[j].ts, log'[j].f.seq, log'[i])
  BY <1>1 DEF ArrivedInv
<1>7. \A x \in heap' : x.act = "recv" => \A j \in Audio' : Follows(x.at, x.seq, log'[j])
  BY <1>1, <1>4
<1>. QED
  BY <1>5, <1>6, <1>7 DEF ArrivedInv, Follows

LEMMA ArrivedReceive ==
  ASSUME TypeOK, HeapFits, NumberedInv, LocatedInv, ArrivedInv,
         NEW e \in heap, ReceiveTurnStart(e) \/ ReceiveOther(e)
  PROVE  ArrivedInv'
<1>1. PICK new : Fired(e, new) /\ \A x \in new : x.act = "speak"
  BY ReceiveStep
<1>2. e.act = "recv"
  BY ReceiveStep
<1>3. PICK en \in Entries : en.f = e.f /\ en.ts = e.at /\ log' = Append(log, en)
  BY ReceiveStep
<1>4. /\ DOMAIN log = 1 .. Len(log) /\ DOMAIN log' = 1 .. Len(log) + 1 /\ Len(log) \in Nat
      /\ \A j \in 1 .. Len(log) : log'[j] = log[j]
      /\ log'[Len(log) + 1] = en
  BY <1>3, ReceiveLogs
<1>5. /\ e.at \in Nat /\ e.seq \in Nat /\ e.f.seq = e.seq /\ now \in Nat /\ now <= e.at
      /\ now' = e.at /\ heap' = (heap \ {e}) \cup new
  BY <1>1, <1>2 DEF Fired, Events, HeapFits, Fits
<1>6. ASSUME NEW j \in Audio'
      PROVE  \/ j \in Audio /\ log'[j] = log[j] /\ j \in 1 .. Len(log)
             \/ j = Len(log) + 1 /\ log'[j] = en
  BY <1>4 DEF Audio
<1>7. \A j \in Audio : log[j].ts <= now' /\ Follows(e.at, e.seq, log[j])
  BY <1>2, <1>5, AudioTypes DEF ArrivedInv
<1>8. ASSUME NEW x \in heap', x.act = "recv"
      PROVE  x \in heap /\ x # e /\ Follows(x.at, x.seq, en)
  <2>1. x \in heap /\ x # e
    BY <1>1, <1>5, <1>8
  <2>2. x.at \in Nat /\ x.seq \in Nat /\ e.at <= x.at /\ (x.at = e.at => e.seq <= x.seq)
    BY <1>1, <2>1 DEF Fired, Events
  <2>3. x.seq # e.seq
    BY <1>2, <1>8, <2>1, ArrivalsDiffer
  <2>. QED
    BY <1>3, <1>5, <2>1, <2>2, <2>3 DEF Follows
<1>9. \A j \in Audio' : log'[j].ts <= now'
  BY <1>3, <1>5, <1>6, <1>7
<1>10. ASSUME NEW i \in Audio', NEW j \in Audio', i < j
       PROVE  Follows(log'[j].ts, log'[j].f.seq, log'[i])
  <2>1. CASE j = Len(log) + 1 /\ log'[j] = en
    <3>1. i \in Audio /\ log'[i] = log[i]
      BY <1>4, <1>6, <1>10, <2>1
    <3>. QED
      BY <1>3, <1>5, <1>7, <2>1, <3>1
  <2>2. CASE j \in Audio /\ log'[j] = log[j] /\ j \in 1 .. Len(log)
    <3>1. i \in Audio /\ log'[i] = log[i]
      BY <1>4, <1>6, <1>10, <2>2
    <3>. QED
      BY <1>10, <2>2, <3>1 DEF ArrivedInv
  <2>. QED
    BY <1>6, <2>1, <2>2
<1>11. \A x \in heap' : x.act = "recv" => \A j \in Audio' : Follows(x.at, x.seq, log'[j])
  BY <1>6, <1>8 DEF ArrivedInv
<1>. QED
  BY <1>9, <1>10, <1>11 DEF ArrivedInv, Follows

LEMMA ArrivedSends ==
  ASSUME TypeOK, HeapFits, TurnInv, NumberedInv, LocatedInv, ArrivedInv,
         NEW e \in heap, AgentSends(e)
  PROVE  ArrivedInv'
<1>1. PICK new : /\ Fired(e, new)
                 /\ \A x \in new : /\ x.act = "recv" /\ x.n = 0 /\ x.f = SentBy(e)
                                   /\ x.seq = SentBy(e).seq
  BY AgentSendsFired
<1>2. /\ SentBy(e).seq \in Nat /\ \A i \in DOMAIN air : air[i].seq < SentBy(e).seq
  BY SendsNext DEF Frames
<1>3. ASSUME NEW x \in new, NEW j \in Audio PROVE Follows(x.at, x.seq, log[j])
  <2>1. PICK i \in DOMAIN air : air[i] = log[j].f
    BY AudioTypes DEF LocatedInv, Sent, Audio
  <2>2. x.seq > log[j].f.seq
    BY <1>1, <1>2, <2>1, AudioTypes
  <2>3. x.at \in Nat /\ x.at >= e.at /\ e.at >= now /\ e.at \in Nat /\ now \in Nat
    BY <1>1 DEF Fired, Events
  <2>4. log[j].ts <= now /\ log[j].ts \in Nat
    BY AudioTypes DEF ArrivedInv
  <2>. QED
    BY <2>2, <2>3, <2>4 DEF Follows
<1>4. log' = log
  BY AgentSendsStep
<1>5. Kept(log, log')
  BY <1>4 DEF Kept
<1>. QED
  BY <1>1, <1>3, <1>4, <1>5, ArrivedKept

LEMMA ArrivedStep ==
  ASSUME TypeOK, HeapFits, TurnInv, NumberedInv, LocatedInv, ArrivedInv,
         NEW e \in heap, Fires(e)
  PROVE  ArrivedInv'
<1>1. CASE Speak(e)
  <2> DEFINE x == Event(e.at, e.f.seq, "hear", 0, e.f)
  <2>1. Fired(e, {x}) /\ x.act = "hear"
    BY <1>1, SpeakStep
  <2>. HIDE DEF x
  <2>2. /\ Kept(log, log')
        /\ \A j \in DOMAIN log' : (j \in DOMAIN log /\ log'[j] = log[j]) \/ ~IsAudio(log'[j])
    BY <1>1, SpeakLogs DEF IsAudio
  <2>3. \A y \in {x} : y.act # "recv"
    BY <2>1
  <2>. QED
    BY <2>1, <2>2, <2>3, ArrivedKept
<1>2. CASE ReceiveTurnStart(e) \/ ReceiveOther(e)
  BY <1>2, ArrivedReceive
<1>3. CASE \/ HearBargeIn(e) \/ HearWhileTalking(e) \/ HearUtterance(e)
           \/ TimerIsStale(e) \/ Respond(e)
  <2>1. PICK new : Fired(e, new) /\ (\A x \in new : x.act # "recv") /\ log' = log
    BY <1>3, QuietStep
  <2>2. Kept(log, log')
    BY <2>1 DEF Kept
  <2>. QED
    BY <2>1, <2>2, ArrivedKept
<1>4. CASE AgentSends(e)
  BY <1>4, ArrivedSends
<1>. QED
  BY <1>1, <1>2, <1>3, <1>4, FiresCases

LEMMA ArrivedInvariant == Spec => []ArrivedInv
<1>1. Init => ArrivedInv
  <2> SUFFICES ASSUME Init PROVE ArrivedInv
    OBVIOUS
  <2>1. Audio = {}
    BY DEF Init, Audio
  <2>. QED
    BY <2>1 DEF ArrivedInv
<1>2. /\ TypeInv /\ HeapFits /\ TurnInv /\ NumberedInv /\ LocatedInv /\ ArrivedInv
      /\ [Next]_vars
      => ArrivedInv'
  <2> SUFFICES ASSUME TypeInv, HeapFits, TurnInv, NumberedInv, LocatedInv, ArrivedInv,
                      [Next]_vars
               PROVE  ArrivedInv'
    OBVIOUS
  <2>1. ASSUME NEW e \in heap, Fires(e) PROVE ArrivedInv'
    BY <2>1, ArrivedStep DEF TypeInv
  <2>2. ASSUME UNCHANGED vars PROVE ArrivedInv'
    BY <2>2 DEF vars, ArrivedInv, Audio, Follows
  <2>. QED
    BY <2>1, <2>2 DEF Next, Quiescent
<1>. QED
  BY <1>1, <1>2, TypeInvariant, TurnInvariant, LocatedInvariant, PTL DEF Spec

(* In the sorted log as in the caller's own, audio has been overtaken when *)
(* some was logged at an earlier time with a higher number.                *)
Overtaken(k) == \E m \in Audio : log[m].ts < log[k].ts /\ log[m].f.seq > log[k].f.seq

LEMMA OvertakenInLog ==
  ASSUME TypeOK, ArrivedInv, NEW k \in Audio
  PROVE  Overtaken(k) <=> \E j \in Audio : j < k /\ log[j].f.seq > log[k].f.seq
<1>1. /\ k \in Nat /\ log[k].ts \in Nat /\ log[k].f.seq \in Nat
      /\ \A j \in Audio : j \in Nat /\ log[j].ts \in Nat /\ log[j].f.seq \in Nat
  BY AudioTypes
<1>2. ASSUME NEW m \in Audio, log[m].ts < log[k].ts, log[m].f.seq > log[k].f.seq
      PROVE  m < k
  <2>1. m # k
    BY <1>1, <1>2
  <2>2. k < m => Follows(log[m].ts, log[m].f.seq, log[k])
    BY DEF ArrivedInv
  <2>. QED
    BY <1>1, <1>2, <2>1, <2>2 DEF Follows
<1>3. ASSUME NEW j \in Audio, j < k, log[j].f.seq > log[k].f.seq
      PROVE  log[j].ts < log[k].ts
  <2>1. Follows(log[k].ts, log[k].f.seq, log[j])
    BY <1>3 DEF ArrivedInv
  <2>. QED
    BY <1>1, <1>3, <2>1 DEF Follows
<1>. QED
  BY <1>2, <1>3 DEF Overtaken

LEMMA SortedAudio ==
  ASSUME TypeOK, NEW p, SortedBy(p), NEW i \in 1 .. Len(SortedLog)
  PROVE  /\ IsAudio(SortedLog[i]) <=> p[i] \in Audio
         /\ p[i] \in Audio => SortedLog[i] = log[p[i]]
BY DEF SortedBy, Audio, IsAudio

LEMMA OvertakenSorted ==
  ASSUME TypeOK, NEW p, SortedBy(p), NEW i \in 1 .. Len(SortedLog), p[i] \in Audio
  PROVE  i \in Over(SortedLog, Len(SortedLog)) <=> Overtaken(p[i])
<1> DEFINE N == Len(SortedLog)
<1>1. /\ N \in Nat /\ IsPermutation(p, N) /\ Ordered(SortedLog)
      /\ DOMAIN SortedLog = 1 .. N /\ \A k \in DOMAIN log : k \in 1 .. N
  BY DEF SortedBy
<1>2. /\ \A j \in 1 .. N : IsAudio(SortedLog[j]) <=> p[j] \in Audio
      /\ \A j \in 1 .. N : p[j] \in Audio => SortedLog[j] = log[p[j]]
  BY SortedAudio
<1>3. \A j \in Audio : log[j].ts \in Nat /\ log[j].f.seq \in Nat /\ IsAudio(log[j])
  BY AudioTypes DEF Audio
<1>. HIDE DEF N
<1>4. ASSUME NEW j \in 1 .. N, p[j] \in Audio, log[p[j]].f.seq > log[p[i]].f.seq
      PROVE  j < i <=> log[p[j]].ts < log[p[i]].ts
  <2> DEFINE a == log[p[j]]
             b == log[p[i]]
  <2>1. SortedLog[j] = a /\ SortedLog[i] = b
    BY <1>2, <1>4 DEF N
  <2>2. /\ a.ts \in Nat /\ b.ts \in Nat /\ a.f.seq \in Nat /\ b.f.seq \in Nat
        /\ a.type = "recv" /\ b.type = "recv"
    BY <1>3, <1>4 DEF IsAudio
  <2>3. a.f.seq > b.f.seq
    BY <1>4
  <2>4. j < i => ~canonicalLess(b, a)
    BY <1>1, <2>1 DEF Ordered, N
  <2>5. i < j => ~canonicalLess(a, b)
    BY <1>1, <2>1 DEF Ordered, N
  <2>. HIDE DEF a, b
  <2>6. FrameSeq(a) = a.f.seq /\ FrameSeq(b) = b.f.seq
    BY <2>2 DEF FrameSeq, IsMarker
  <2>7. canonicalLess(b, a) <=> b.ts < a.ts \/ (b.ts = a.ts /\ b.f.seq < a.f.seq)
    <3>1. ~(TypeOrder(b.type) < TypeOrder(a.type))
      <4>1. TypeOrder("recv") \in 1 .. 6
        BY TypesOrdered DEF Types
      <4>. QED
        BY <2>2, <4>1
    <3>. QED
      BY <2>2, <2>6, <3>1 DEF canonicalLess
  <2>8. a.ts < b.ts => canonicalLess(a, b)
    BY DEF canonicalLess
  <2>9. i # j
    <3>1. i = j => a = b
      BY DEF a, b
    <3>. QED
      BY <2>2, <2>3, <3>1
  <2>10. i \in Nat /\ j \in Nat
    BY <1>1 DEF N
  <2>. QED
    BY <2>2, <2>3, <2>4, <2>5, <2>7, <2>8, <2>9, <2>10 DEF a, b
<1>5. ASSUME i \in Over(SortedLog, N) PROVE Overtaken(p[i])
  <2>1. PICK j \in 1 .. N :
          j < i /\ IsAudio(SortedLog[j]) /\ SortedLog[j].f.seq > SortedLog[i].f.seq
    BY <1>5 DEF Over
  <2>2. p[j] \in Audio /\ SortedLog[j] = log[p[j]] /\ SortedLog[i] = log[p[i]]
    BY <1>2, <2>1 DEF N
  <2>3. log[p[j]].ts < log[p[i]].ts
    BY <1>4, <2>1, <2>2
  <2>. QED
    BY <2>1, <2>2, <2>3 DEF Overtaken
<1>6. ASSUME Overtaken(p[i]) PROVE i \in Over(SortedLog, N)
  <2>1. PICK m \in Audio : log[m].ts < log[p[i]].ts /\ log[m].f.seq > log[p[i]].f.seq
    BY <1>6 DEF Overtaken
  <2>2. PICK j \in 1 .. N : p[j] = m
    BY <1>1 DEF IsPermutation, Audio
  <2>3. j < i
    BY <1>4, <2>1, <2>2
  <2>4. IsAudio(SortedLog[j]) /\ IsAudio(SortedLog[i])
        /\ SortedLog[j] = log[m] /\ SortedLog[i] = log[p[i]]
    BY <1>2, <2>2 DEF N
  <2>5. i \in 1 .. N
    BY DEF N
  <2>. QED
    BY <2>1, <2>3, <2>4, <2>5 DEF Over
<1>. QED
  BY <1>5, <1>6 DEF N

LEMMA ReorderedMeasured == TypeOK /\ ArrivedInv => ReorderedIsOvertaken
<1> SUFFICES ASSUME TypeOK, ArrivedInv
             PROVE  Metric.ReorderedFrames =
                      Cardinality({i \in Audio : \E j \in Audio :
                                     j < i /\ log[j].f.seq > log[i].f.seq})
  BY DEF ReorderedIsOvertaken
<1> DEFINE N == Len(SortedLog)
           O == Over(SortedLog, N)
           T == {i \in Audio : \E j \in Audio : j < i /\ log[j].f.seq > log[i].f.seq}
<1>1. PICK p : SortedBy(p)
  BY SortedLogBy
<1>2. N \in Nat /\ IsPermutation(p, N) /\ \A k \in DOMAIN log : k \in 1 .. N
  BY <1>1 DEF SortedBy
<1>3. /\ \A i \in 1 .. N : IsAudio(SortedLog[i]) <=> p[i] \in Audio
      /\ \A i \in 1 .. N : p[i] \in Audio => SortedLog[i] = log[p[i]]
  BY <1>1, SortedAudio
<1>4. AudioNumbered(SortedLog)
  BY <1>3, AudioTypes DEF AudioNumbered
<1>5. Metric.ReorderedFrames = reorderedFrames(SortedLog)
  BY DEF Metric, ComputeSession, SortedLog
<1>6. reorderedFrames(SortedLog) = Cardinality(O)
  BY <1>2, <1>4, ReorderedCounts
<1>7. T = {k \in Audio : Overtaken(k)}
  BY OvertakenInLog
<1>8. \A i \in 1 .. N : p[i] \in Audio => (i \in O <=> Overtaken(p[i]))
  BY <1>1, OvertakenSorted
<1>9. O \subseteq 1 .. N /\ \A i \in O : p[i] \in Audio
  BY <1>3 DEF Over
<1>10. IsFiniteSet(O)
  <2>1. IsFiniteSet(1 .. N)
    BY <1>2, FS_Interval
  <2>. QED
    BY <1>9, <2>1, FS_Subset
<1>11. Audio \subseteq 1 .. N
  BY <1>2 DEF Audio
<1>. HIDE DEF N, O, T
<1> DEFINE f == [i \in O |-> p[i]]
<1>12. f \in [O -> T]
  BY <1>7, <1>8, <1>9
<1>13. \A x, y \in O : f[x] = f[y] => x = y
  BY <1>2, <1>9 DEF IsPermutation
<1>14. ASSUME NEW k \in T PROVE \E i \in O : f[i] = k
  <2>1. k \in Audio /\ Overtaken(k)
    BY <1>7
  <2>2. PICK i \in 1 .. N : p[i] = k
    BY <1>2, <1>11, <2>1 DEF IsPermutation
  <2>. QED
    BY <1>8, <2>1, <2>2
<1>15. Cardinality(T) = Cardinality(O)
  <2>. HIDE DEF f
  <2>. QED
    BY <1>10, <1>12, <1>13, <1>14, SameSize
<1>. QED
  BY <1>5, <1>6, <1>15 DEF T

(* reordered_frames counts the frames that arrived after one the agent had *)
(* sent later: the sort keeps audio in the order it arrived in             *)
(* (metrics.go:233).                                                       *)
THEOREM ReorderedMeansOvertaken == Spec => []ReorderedIsOvertaken
BY ReorderedMeasured, TypeInvariant, ArrivedInvariant, PTL DEF TypeInv

-----------------------------------------------------------------------------
(* What double-talk adds up.                                               *)

LEMMA OverlapFacts ==
  ASSUME NEW a \in Nat, NEW b \in Nat, NEW dur \in Nat
  PROVE  /\ OverlapMs(a, b, dur) \in Nat /\ LaterOf(a, b) \in Nat
         /\ \A t \in Int : t \in a .. a + dur - 1 /\ t \in b .. b + dur - 1
              <=> t - LaterOf(a, b) + 1 \in 1 .. OverlapMs(a, b, dur)
BY DEF OverlapMs, LaterOf, EarlierOf

CallerOf(l) == {i \in DOMAIN l : l[i].type = "send"}
AgentOf(l) == {i \in DOMAIN l : IsAudio(l[i])}
Overlaps(l, dur) ==
  [q \in CallerOf(l) \X AgentOf(l) |-> OverlapMs(l[q[1]].ts, l[q[2]].ts, dur)]

LEMMA DoubleTalkCounts ==
  ASSUME NEW l, IsFiniteSet(DOMAIN l), NEW dur \in Nat,
         \A i \in CallerOf(l) \cup AgentOf(l) : l[i].ts \in Nat
  PROVE  /\ IsFiniteSet(Units(Overlaps(l, dur), CallerOf(l) \X AgentOf(l)))
         /\ doubleTalk(l, dur) =
              Cardinality(Units(Overlaps(l, dur), CallerOf(l) \X AgentOf(l)))
<1> DEFINE S == CallerOf(l) \X AgentOf(l)
           w == Overlaps(l, dur)
           c == [s \in SUBSET S |-> CHOOSE x \in s : TRUE]
           Of(q) == OverlapMs(l[q[1]].ts, l[q[2]].ts, dur)
           Step(g) == [s \in SUBSET S |->
                         IF s = {} THEN 0
                         ELSE Of(CHOOSE x \in s : TRUE) + g[s \ {CHOOSE x \in s : TRUE}]]
<1>1. IsFiniteSet(S)
  <2>1. IsFiniteSet(CallerOf(l)) /\ IsFiniteSet(AgentOf(l))
    <3>1. CallerOf(l) \subseteq DOMAIN l /\ AgentOf(l) \subseteq DOMAIN l
      BY DEF CallerOf, AgentOf
    <3>. QED
      BY <3>1, FS_Subset
  <2>. QED
    BY <2>1, FS_Product
<1>2. ASSUME NEW q \in S PROVE w[q] = Of(q) /\ w[q] \in Nat
  <2>1. l[q[1]].ts \in Nat /\ l[q[2]].ts \in Nat
    OBVIOUS
  <2>2. w[q] = Of(q)
    BY DEF Overlaps
  <2>3. \A a, b \in Nat : OverlapMs(a, b, dur) \in Nat
    BY OverlapFacts
  <2>4. Of(q) \in Nat
    BY <2>1, <2>3
  <2>. HIDE DEF Of, w
  <2>. QED
    BY <2>2, <2>4
<1>3. \A s \in SUBSET S : s # {} => c[s] \in s /\ c[s] = CHOOSE x \in s : TRUE
  OBVIOUS
<1>. HIDE DEF S, w, c
<1>4. ASSUME NEW g PROVE Step(g) = [s \in SUBSET S |-> IF s = {} THEN 0
                                                       ELSE w[c[s]] + g[s \ {c[s]}]]
  <2>1. ASSUME NEW s \in SUBSET S, s # {}
        PROVE  Of(CHOOSE x \in s : TRUE) + g[s \ {CHOOSE x \in s : TRUE}]
                 = w[c[s]] + g[s \ {c[s]}]
    <3>1. c[s] \in S /\ c[s] = CHOOSE x \in s : TRUE
      BY <1>3, <2>1
    <3>2. w[c[s]] = Of(c[s])
      BY <1>2, <3>1
    <3>. HIDE DEF Of
    <3>. QED
      BY <3>1, <3>2
  <2>. HIDE DEF Of
  <2>. QED
    BY <2>1
<1>. HIDE DEF Of
<1>5. PICK g : g = Step(g)
  <2>1. \E g : IsFold(g, w, S, c)
    BY <1>1, <1>2, <1>3, FoldExists
  <2>. HIDE DEF Step
  <2>. QED
    BY <1>4, <2>1 DEF IsFold
<1> DEFINE h == CHOOSE e : e = Step(e)
<1>6. h = Step(h)
  <2>. HIDE DEF Step
  <2>. QED
    BY <1>5
<1>7. doubleTalk(l, dur) = h[S]
  BY DEF doubleTalk, MapThenSumSet, MapThenFoldSet, S, Of, CallerOf, AgentOf
<1>8. IsFold(h, w, S, c)
  <2>. HIDE DEF Step, h
  <2>. QED
    BY <1>4, <1>6 DEF IsFold
<1>. HIDE DEF h, Step
<1>9. h[S] = Cardinality(Units(w, S))
  BY <1>1, <1>2, <1>3, <1>8, FoldCounts
<1>10. IsFiniteSet(Units(w, S))
  BY <1>1, <1>2, UnitsFinite
<1>. QED
  BY <1>7, <1>9, <1>10 DEF S, w

(* A millisecond at which both sides are heard is one of the overlap of    *)
(* exactly one frame of each.                                              *)
LEMMA DoubleTalkMeasured == TypeOK => DoubleTalkIsSharedTime
<1> DEFINE C == {i \in DOMAIN log : log[i].type = "send"}
           SoundOf(S) == UNION {Sounds(log[i].ts) : i \in S}
           T == SoundOf(C) \cap SoundOf(Audio)
<1> SUFFICES ASSUME TypeOK, Disjoint(C), Disjoint(Audio)
             PROVE  Metric.DoubleTalkMs = Cardinality(T)
  BY DEF DoubleTalkIsSharedTime
<1>1. PICK p : SortedBy(p)
  BY SortedLogBy
<1> DEFINE N == Len(SortedLog)
           A == CallerOf(SortedLog)
           B == AgentOf(SortedLog)
           w == Overlaps(SortedLog, FrameMs)
           U == Units(w, A \X B)
           at(i) == SortedLog[i].ts
<1>2. /\ N \in Nat /\ IsPermutation(p, N) /\ DOMAIN SortedLog = 1 .. N
      /\ \A k \in DOMAIN log : k \in 1 .. N
      /\ \A i \in 1 .. N :
           \/ p[i] \in DOMAIN log /\ SortedLog[i] = log[p[i]]
           \/ p[i] \notin DOMAIN log /\ SortedLog[i].type = "drop"
  BY <1>1 DEF SortedBy
<1>3. \A k \in DOMAIN log : log[k].ts \in Nat
  BY LogTypes
<1>4. /\ A \subseteq 1 .. N /\ B \subseteq 1 .. N
      /\ \A i \in 1 .. N : i \in A <=> p[i] \in C
      /\ \A i \in 1 .. N : i \in B <=> p[i] \in Audio
      /\ \A i \in A \cup B : at(i) \in Nat /\ at(i) = log[p[i]].ts
  BY <1>2, <1>3 DEF CallerOf, AgentOf, Audio, IsAudio
<1>5. FrameMs \in Nat
  BY ConfigFacts
<1>6. /\ IsFiniteSet(U) /\ Metric.DoubleTalkMs = Cardinality(U)
  <2>1. IsFiniteSet(DOMAIN SortedLog)
    BY SortedFacts
  <2>2. \A i \in A \cup B : SortedLog[i].ts \in Nat
    BY <1>4
  <2>3. IsFiniteSet(U) /\ doubleTalk(SortedLog, FrameMs) = Cardinality(U)
    BY <1>5, <2>1, <2>2, DoubleTalkCounts
  <2>4. Metric.DoubleTalkMs = doubleTalk(SortedLog, FrameMs)
    BY DEF Metric, ComputeSession, SortedLog
  <2>. QED
    BY <2>3, <2>4
<1>7. \A q \in A \X B : w[q] = OverlapMs(at(q[1]), at(q[2]), FrameMs)
  BY DEF Overlaps
<1>8. \A u \in (A \X B) \X Nat : u \in U <=> u[2] \in 1 .. w[u[1]]
  BY DEF Units
<1>9. U \subseteq (A \X B) \X Nat
  BY DEF Units
<1>10. ASSUME NEW t
       PROVE  t \in T <=> \E k \in C, m \in Audio : t \in Sounds(log[k].ts) /\ t \in Sounds(log[m].ts)
  OBVIOUS
<1>11. C \subseteq 1 .. N /\ Audio \subseteq 1 .. N
  BY <1>2 DEF Audio
<1>12. \A i \in A \cup B : Sounds(log[p[i]].ts) = at(i) .. at(i) + FrameMs - 1
  BY <1>4 DEF Sounds
<1>. HIDE DEF N, A, B, w, U, at, T, C
<1> DEFINE g(u) == LaterOf(at(u[1][1]), at(u[1][2])) + u[2] - 1
           f == [u \in U |-> g(u)]
<1>13. ASSUME NEW i \in A, NEW j \in B, NEW t \in Int
       PROVE  /\ LaterOf(at(i), at(j)) \in Nat
              /\ t \in Sounds(log[p[i]].ts) /\ t \in Sounds(log[p[j]].ts)
                   <=> t - LaterOf(at(i), at(j)) + 1 \in 1 .. w[<<i, j>>]
  <2>1. at(i) \in Nat /\ at(j) \in Nat
    BY <1>4
  <2>2. w[<<i, j>>] = OverlapMs(at(i), at(j), FrameMs)
    BY <1>7
  <2>3. /\ LaterOf(at(i), at(j)) \in Nat
        /\ t \in at(i) .. at(i) + FrameMs - 1 /\ t \in at(j) .. at(j) + FrameMs - 1
              <=> t - LaterOf(at(i), at(j)) + 1 \in 1 .. OverlapMs(at(i), at(j), FrameMs)
    BY <1>5, <2>1, OverlapFacts
  <2>. QED
    BY <1>12, <2>2, <2>3
<1>14. ASSUME NEW u \in U
       PROVE  /\ u = <<<<u[1][1], u[1][2]>>, u[2]>>
              /\ u[1][1] \in A /\ u[1][2] \in B /\ u[2] \in Nat /\ g(u) \in Int
              /\ g(u) \in Sounds(log[p[u[1][1]]].ts) /\ g(u) \in Sounds(log[p[u[1][2]]].ts)
              /\ u[2] = g(u) - LaterOf(at(u[1][1]), at(u[1][2])) + 1
  <2>1. PICK i \in A, j \in B, n \in Nat : u = <<<<i, j>>, n>>
    BY <1>9
  <2>2. n \in 1 .. w[<<i, j>>]
    BY <1>8, <2>1
  <2> DEFINE t == LaterOf(at(i), at(j)) + n - 1
  <2>3. LaterOf(at(i), at(j)) \in Nat
    <3>1. 0 \in Int
      OBVIOUS
    <3>. QED
      BY <1>13, <3>1
  <2>4. t \in Int /\ t - LaterOf(at(i), at(j)) + 1 = n
    BY <2>3
  <2>. HIDE DEF t
  <2>5. t \in Sounds(log[p[i]].ts) /\ t \in Sounds(log[p[j]].ts)
    BY <1>13, <2>2, <2>4
  <2>6. g(u) = t /\ u[1][1] = i /\ u[1][2] = j /\ u[2] = n
    BY <2>1 DEF t
  <2>. QED
    BY <2>1, <2>4, <2>5, <2>6
<1>. HIDE DEF g
<1>15. f \in [U -> T]
  <2>1. ASSUME NEW u \in U PROVE g(u) \in T
    BY <1>4, <1>10, <1>14
  <2>. QED
    BY <2>1
<1>16. ASSUME NEW u \in U, NEW v \in U, f[u] = f[v] PROVE u = v
  <2>1. g(u) = g(v)
    BY <1>16
  <2>2. /\ u[1][1] \in A /\ v[1][1] \in A /\ u[1][2] \in B /\ v[1][2] \in B
        /\ g(u) \in Sounds(log[p[u[1][1]]].ts) /\ g(u) \in Sounds(log[p[v[1][1]]].ts)
        /\ g(u) \in Sounds(log[p[u[1][2]]].ts) /\ g(u) \in Sounds(log[p[v[1][2]]].ts)
    BY <1>14, <2>1
  <2>3. p[u[1][1]] \in C /\ p[v[1][1]] \in C /\ p[u[1][2]] \in Audio /\ p[v[1][2]] \in Audio
    BY <1>4, <2>2
  <2>4. p[u[1][1]] = p[v[1][1]]
    BY <2>2, <2>3 DEF Disjoint
  <2>5. p[u[1][2]] = p[v[1][2]]
    BY <2>2, <2>3 DEF Disjoint
  <2>6. u[1][1] = v[1][1] /\ u[1][2] = v[1][2]
    <3>1. \A i, j \in 1 .. N : p[i] = p[j] => i = j
      BY <1>2 DEF IsPermutation
    <3>2. \A i, j \in A \cup B : p[i] = p[j] => i = j
      BY <1>4, <3>1
    <3>. QED
      BY <2>2, <2>4, <2>5, <3>2
  <2>7. u[2] = v[2]
    BY <1>14, <2>1, <2>6
  <2>. QED
    BY <1>14, <2>6, <2>7
<1>17. ASSUME NEW t \in T PROVE \E u \in U : f[u] = t
  <2>1. PICK k \in C, m \in Audio : t \in Sounds(log[k].ts) /\ t \in Sounds(log[m].ts)
    BY <1>10
  <2>2. PICK i \in 1 .. N, j \in 1 .. N : p[i] = k /\ p[j] = m
    BY <1>2, <1>11, <2>1 DEF IsPermutation
  <2>3. i \in A /\ j \in B
    BY <1>4, <2>1, <2>2
  <2>4. t \in Int
    <3>1. t \in at(i) .. at(i) + FrameMs - 1 /\ at(i) \in Nat
      BY <1>4, <1>12, <2>1, <2>2, <2>3
    <3>. QED
      BY <1>5, <3>1
  <2> DEFINE L == LaterOf(at(i), at(j))
             n == t - L + 1
             u == <<<<i, j>>, n>>
  <2>5. L \in Nat /\ n \in 1 .. w[<<i, j>>]
    BY <1>13, <2>1, <2>2, <2>3, <2>4
  <2>6. n \in Nat
    BY <2>5
  <2>7. u \in U
    BY <1>8, <2>3, <2>5, <2>6
  <2>8. g(u) = L + n - 1
    BY DEF g
  <2>9. g(u) = t
    BY <2>4, <2>5, <2>8
  <2>. QED
    BY <2>7, <2>9
<1>18. Cardinality(T) = Cardinality(U)
  <2>. HIDE DEF f
  <2>. QED
    BY <1>6, <1>15, <1>16, <1>17, SameSize
<1>. QED
  BY <1>6, <1>18

(* Double-talk is the time both sides are heard at once, of which the      *)
(* metric adds up the overlaps of single frames (metrics.go:10).           *)
THEOREM DoubleTalkIsShared == Spec => []DoubleTalkIsSharedTime
BY DoubleTalkMeasured, TypeInvariant, PTL DEF TypeInv

-----------------------------------------------------------------------------
(* What a session measures is what the gate takes the sessions of a run    *)
(* to have measured.                                                       *)

LEMMA SortedTimes ==
  ASSUME TypeOK
  PROVE  /\ IsFiniteSet(DOMAIN SortedLog)
         /\ Len(SortedLog) \in Nat /\ DOMAIN SortedLog = 1 .. Len(SortedLog)
         /\ \A i \in DOMAIN SortedLog : SortedLog[i].ts \in Nat
<1>1. FoldedLog \in Seq(Measured) /\ Sortable(Measured)
  BY FoldedFacts
<1>2. SortedLog \in Seq(Measured)
  BY <1>1, SortType DEF SortedLog
<1>3. \A i \in DOMAIN SortedLog : SortedLog[i] \in Measured
  BY <1>2, LenProperties, ElementOfSeq
<1>. QED
  BY <1>1, <1>2, <1>3, SortedFacts, LenProperties DEF Sortable

(* A turn with a barge-in stops at or after it.                            *)
LEMMA StopTyped ==
  ASSUME TypeOK, NEW turn \in Interrupted(SortedLog)
  PROVE  TimeToStop(SortedLog, turn) \in Nat
<1> DEFINE B == TimesOf(SortedLog, "barge_in", turn)
           I == {j \in DOMAIN SortedLog :
                   /\ IsAudio(SortedLog[j]) /\ SortedLog[j].turn = turn
                   /\ SortedLog[j].ts >= BargeAt(SortedLog, turn)
                   /\ Open(SortedLog, turn, SortedLog[j].ts)}
           T == {SortedLog[i].ts : i \in I}
           m == BargeAt(SortedLog, turn)
<1>1. m \in Nat
  <2>1. B \in SUBSET Nat
    BY SortedTimes DEF TimesOf
  <2>2. B # {}
    BY DEF Interrupted, TimesOf
  <2>3. m = Min(B)
    BY DEF BargeAt
  <2>. HIDE DEF B, m
  <2>. QED
    BY <2>1, <2>2, <2>3, MinFacts
<1>2. TimeToStop(SortedLog, turn) = IF T = {} THEN 0 ELSE Max(T) - m
  BY DEF TimeToStop, StillTalking
<1>3. T \in SUBSET Nat /\ \A t \in T : t >= m
  BY SortedTimes
<1>4. IsFiniteSet(T)
  <2>1. IsFiniteSet(I)
    <3>1. I \subseteq DOMAIN SortedLog
      OBVIOUS
    <3>. HIDE DEF I
    <3>. QED
      BY <3>1, SortedTimes, FS_Subset
  <2> DEFINE f == [i \in I |-> SortedLog[i].ts]
  <2>2. f \in Surjection(I, T)
    <3>. HIDE DEF I
    <3>. QED
      BY DEF Surjection
  <2>. HIDE DEF I, T, f
  <2>. QED
    BY <2>1, <2>2, FS_Surjection
<1>. HIDE DEF T, m
<1>5. ASSUME T # {} PROVE Max(T) - m \in Nat
  <2>1. Max(T) \in T
    BY <1>3, <1>4, <1>5, FiniteBound, MaxBounded
  <2>2. Max(T) \in Nat /\ Max(T) >= m
    BY <1>3, <2>1
  <2>. QED
    BY <1>1, <2>2
<1>. QED
  BY <1>2, <1>5

LEMMA StallsTyped ==
  ASSUME TypeOK
  PROVE  /\ IsFiniteSet(stalls(SortedLog, StallThreshold))
         /\ \A q \in stalls(SortedLog, StallThreshold) :
              SortedLog[q[2]].ts - SortedLog[q[1]].ts \in Nat
<1> DEFINE D == DOMAIN SortedLog
           S == stalls(SortedLog, StallThreshold)
<1>1. StallThreshold \in Nat
  BY ThresholdAssumption DEF StallThreshold, DefaultStallThresholdMs, DefaultFrameMs
<1>2. ASSUME NEW q \in S
      PROVE  /\ q \in D \X D /\ SortedLog[q[2]].ts - SortedLog[q[1]].ts > StallThreshold
             /\ SortedLog[q[1]].ts \in Nat /\ SortedLog[q[2]].ts \in Nat
  <2>1. q \in D \X D /\ SortedLog[q[2]].ts - SortedLog[q[1]].ts > StallThreshold
    BY DEF stalls, Neighbours, AudioOf
  <2>2. q[1] \in D /\ q[2] \in D
    BY <2>1
  <2>. QED
    BY <2>1, <2>2, SortedTimes
<1>3. IsFiniteSet(S)
  <2>1. IsFiniteSet(D \X D)
    BY SortedTimes, FS_Product
  <2>2. S \subseteq D \X D
    BY <1>2
  <2>. HIDE DEF S, D
  <2>. QED
    BY <2>1, <2>2, FS_Subset
<1>. HIDE DEF S
<1>4. ASSUME NEW q \in S PROVE SortedLog[q[2]].ts - SortedLog[q[1]].ts \in Nat
  BY <1>1, <1>2
<1>. QED
  BY <1>3, <1>4 DEF S

LEMMA StallMsTyped == TypeOK => StallMs(SortedLog, StallThreshold) \in Nat
<1> SUFFICES ASSUME TypeOK PROVE StallMs(SortedLog, StallThreshold) \in Nat
  OBVIOUS
<1> DEFINE l == SortedLog
           S == stalls(l, StallThreshold)
           Of(q) == l[q[2]].ts - l[q[1]].ts
           w == [q \in S |-> Of(q)]
           c == [s \in SUBSET S |-> CHOOSE x \in s : TRUE]
           Step(g) == [s \in SUBSET S |->
                         IF s = {} THEN 0
                         ELSE Of(CHOOSE x \in s : TRUE) + g[s \ {CHOOSE x \in s : TRUE}]]
<1>1. IsFiniteSet(S) /\ \A q \in S : Of(q) \in Nat
  BY StallsTyped
<1>2. \A q \in S : w[q] = Of(q) /\ w[q] \in Nat
  BY <1>1
<1>3. \A s \in SUBSET S : s # {} => c[s] \in s /\ c[s] = CHOOSE x \in s : TRUE
  OBVIOUS
<1> DEFINE h == CHOOSE g : g = Step(g)
<1>4. StallMs(l, StallThreshold) = h[S]
  BY DEF StallMs, MapThenSumSet, MapThenFoldSet
<1>. HIDE DEF S, w, c, Of
<1>5. ASSUME NEW g PROVE Step(g) = [s \in SUBSET S |-> IF s = {} THEN 0
                                                       ELSE w[c[s]] + g[s \ {c[s]}]]
  <2>1. ASSUME NEW s \in SUBSET S, s # {}
        PROVE  Of(CHOOSE x \in s : TRUE) + g[s \ {CHOOSE x \in s : TRUE}]
                 = w[c[s]] + g[s \ {c[s]}]
    <3>1. c[s] \in S /\ c[s] = CHOOSE x \in s : TRUE
      BY <1>3, <2>1
    <3>2. w[c[s]] = Of(c[s])
      BY <1>2, <3>1
    <3>. QED
      BY <3>1, <3>2
  <2>. QED
    BY <2>1
<1>. HIDE DEF Step
<1>6. PICK g : g = Step(g)
  <2>1. \E g : IsFold(g, w, S, c)
    BY <1>1, <1>2, <1>3, FoldExists
  <2>. QED
    BY <1>5, <2>1 DEF IsFold
<1>7. h = Step(h)
  BY <1>6
<1>. HIDE DEF h
<1>8. IsFold(h, w, S, c)
  BY <1>5, <1>7 DEF IsFold
<1>9. h[S] \in Nat
  BY <1>1, <1>2, <1>3, <1>8, FoldCounts
<1>. QED
  BY <1>4, <1>9

LEMMA TimeToStopTyped == TypeOK => timeToStop(SortedLog) \in Seq(Nat)
<1> SUFFICES ASSUME TypeOK PROVE timeToStop(SortedLog) \in Seq(Nat)
  OBVIOUS
<1> DEFINE T == Interrupted(SortedLog)
           turns == Ascending(T)
           n == Cardinality(T)
<1>1. T \in SUBSET Nat /\ IsFiniteSet(T)
  BY InterruptedFacts
<1>2. n \in Nat
  BY <1>1, FS_CardinalityType
<1>3. DOMAIN turns = 1 .. n
  BY DEF Ascending
<1>4. timeToStop(SortedLog) = [k \in DOMAIN turns |-> TimeToStop(SortedLog, turns[k])]
  BY DEF timeToStop
<1>. HIDE DEF turns, n
<1>5. ASSUME NEW k \in 1 .. n PROVE TimeToStop(SortedLog, turns[k]) \in Nat
  <2>1. turns[k] \in T
    BY <1>1, <1>3, AscendingIn DEF turns
  <2>. QED
    BY <2>1, StopTyped
<1>6. timeToStop(SortedLog) \in [1 .. n -> Nat]
  BY <1>3, <1>4, <1>5
<1>. QED
  BY <1>2, <1>6, SeqDef

LEMMA CountsTyped ==
  ASSUME TypeOK
  PROVE  /\ doubleTalk(SortedLog, FrameMs) \in Nat
         /\ droppedFrames(SortedLog) \in Nat
         /\ reorderedFrames(SortedLog) \in Nat
<1> DEFINE l == SortedLog
           N == Len(l)
<1>1. N \in Nat /\ DOMAIN l = 1 .. N /\ IsFiniteSet(DOMAIN l)
  BY SortedTimes
<1>2. doubleTalk(l, FrameMs) \in Nat
  <2>1. \A i \in CallerOf(l) \cup AgentOf(l) : l[i].ts \in Nat
    BY SortedTimes DEF CallerOf, AgentOf
  <2>2. FrameMs \in Nat
    BY ConfigFacts
  <2>. HIDE DEF l
  <2>. QED
    BY <1>1, <2>1, <2>2, DoubleTalkCounts, FS_CardinalityType
<1>3. droppedFrames(l) \in Nat
  <2> DEFINE D == {i \in DOMAIN l : l[i].type = "drop"}
  <2>1. D \subseteq DOMAIN l /\ droppedFrames(l) = Cardinality(D)
    BY DEF droppedFrames
  <2>. HIDE DEF D, l
  <2>. QED
    BY <1>1, <2>1, FS_Subset, FS_CardinalityType
<1>4. reorderedFrames(l) \in Nat
  <2>1. PICK p : SortedBy(p)
    BY SortedLogBy
  <2>2. AudioNumbered(l)
    <3>1. \A i \in 1 .. N : IsAudio(l[i]) <=> p[i] \in Audio
      BY <2>1, SortedAudio
    <3>2. \A i \in 1 .. N : p[i] \in Audio => l[i] = log[p[i]]
      BY <2>1, SortedAudio
    <3>. QED
      BY <3>1, <3>2, AudioTypes DEF AudioNumbered
  <2>3. Over(l, N) \subseteq DOMAIN l
    BY <1>1 DEF Over
  <2>. HIDE DEF l
  <2>. QED
    BY <1>1, <2>2, <2>3, ReorderedCounts, FS_Subset, FS_CardinalityType
<1>. QED
  BY <1>2, <1>3, <1>4

(* Whatever the link does to a conversation, and however far it has come,  *)
(* what ComputeSession measures of it is in range: every count is a        *)
(* natural number and no time-to-stop or stall is negative                 *)
(* (metrics.go:59).  It is what the gate takes each session of a run to    *)
(* have measured.                                                          *)
THEOREM MetricInRange == Spec => [](Metric \in SessionMetrics)
<1>1. TypeInv => Metric \in SessionMetrics
  <2> SUFFICES ASSUME TypeOK PROVE Metric \in SessionMetrics
    BY DEF TypeInv
  <2>1. Metric = [TimeToStopMs |-> timeToStop(SortedLog),
                  DoubleTalkMs |-> doubleTalk(SortedLog, FrameMs),
                  StallCount |-> Cardinality(stalls(SortedLog, StallThreshold)),
                  StallMs |-> StallMs(SortedLog, StallThreshold),
                  DroppedFrames |-> droppedFrames(SortedLog),
                  ReorderedFrames |-> reorderedFrames(SortedLog)]
    BY DEF Metric, ComputeSession, SortedLog
  <2>2. Cardinality(stalls(SortedLog, StallThreshold)) \in Nat
    BY StallsTyped, FS_CardinalityType
  <2>. QED
    BY <2>1, <2>2, TimeToStopTyped, CountsTyped, StallMsTyped DEF SessionMetrics
<1>. QED
  BY <1>1, TypeInvariant, PTL
=============================================================================
