--------------------------- MODULE CommandProofs ---------------------------
(***************************************************************************)
(* Safety of the command and of the live run under it, for every number of *)
(* sessions and messages and every point at which a dial fails, an         *)
(* endpoint hangs up, a bound passes or Ctrl-C is pressed; the audio of a  *)
(* Gemini endpoint, which announces no turn, is logged within turns; and   *)
(* the gate, in floats of any precision, judges the sessions that were     *)
(* measured.                                                               *)
(***************************************************************************)
EXTENDS Command, DataLemmas

-----------------------------------------------------------------------------
(* The invariant.                                                          *)

(* Where a session's connection and pump are, by RunLive's place. *)
Placed(s) ==
  /\ pc = "off" => conn[s] = "none" /\ pump[s] = "off"
  /\ pc = "dial" => /\ pump[s] = "off"
                    /\ s < next => conn[s] = "open"
                    /\ s = next => conn[s] \in {"none", "handshake"}
                    /\ s > next => conn[s] = "none"
  /\ pc = "launch" => /\ s < next => pump[s] # "off"
                      /\ s >= next => pump[s] = "off"
  /\ pc = "wait" => pump[s] # "off"
  /\ pc = "close" => pump[s] # "off" /\ (s < next => conn[s] = "closed")
  /\ pc = "join" => pump[s] # "off" /\ conn[s] = "closed"
  /\ pc = "returned" => pump[s] # "run" /\ conn[s] \in {"none", "closed"}

(* A token and a count for each running pump. *)
RunningPumps == {s \in Sessions : pump[s] = "run"}
Counted == tokens = Cardinality(RunningPumps) /\ live = tokens

LiveInv == LiveTypeOK /\ (\A s \in Sessions : Placed(s)) /\ Counted

(* Why a context has ended. *)
Causes ==
  /\ "Canceled" \in {ctxErr, runErr} => sigint
  /\ ctxErr = "DeadlineExceeded" => timeout
  /\ runErr # "none" /\ ctxErr = "none" => bounded /\ runErr = "DeadlineExceeded"
  /\ RunsLive /\ timeout /\ pc # "off" => ~bounded
  /\ pc \in {"close", "join"} => runErr # "none"
  /\ ~RunsLive => pc \in {"off", "returned"}

(* What the error of a run that has returned tells. *)
ErrTells ==
  pc = "returned" =>
    /\ err = "Canceled" => sigint
    /\ err = "none" => Whole
    /\ RunsLive /\ AllDialed /\ ~sigint => err = IF timeout THEN "DeadlineExceeded" ELSE "none"

Exited ==
  /\ ~exited => exit = 0 /\ report = << >>
  /\ exited => ~Running

IInv == TypeOK /\ LiveInv /\ Causes /\ ErrTells /\ Exited /\ ExitTellsTheEnd /\ BaselineIsComplete

-----------------------------------------------------------------------------
(* Running pumps.                                                          *)

LEMMA SessionsFinite == IsFiniteSet(Sessions) /\ Cardinality(Sessions) = Callers
BY LiveAssumption, FS_Interval DEF Sessions

LEMMA PumpsFinite ==
  /\ IsFiniteSet(RunningPumps)
  /\ Cardinality(RunningPumps) \in 0 .. Callers
<1>1. RunningPumps \in SUBSET Sessions
  BY DEF RunningPumps
<1>2. IsFiniteSet(RunningPumps) /\ Cardinality(RunningPumps) <= Callers
  BY <1>1, SessionsFinite, FS_Subset
<1>. QED
  BY <1>2, FS_CardinalityType, LiveAssumption

(* While the pumps are launched, a token is left. *)
LEMMA TokenLeft ==
  ASSUME LiveInv, pc = "launch"
  PROVE  tokens < Callers
<1>1. next \in Nat /\ next - 1 < Callers /\ next >= 1
  BY LiveAssumption DEF LiveInv, LiveTypeOK, Sessions
<1>2. RunningPumps \in SUBSET (1 .. (next - 1))
  BY LiveAssumption DEF LiveInv, LiveTypeOK, Placed, RunningPumps, Sessions
<1>3. IsFiniteSet(1 .. (next - 1)) /\ Cardinality(1 .. (next - 1)) = next - 1
  BY <1>1, FS_Interval
<1>4. Cardinality(RunningPumps) <= next - 1
  BY <1>2, <1>3, FS_Subset
<1>. QED
  BY <1>1, <1>4, PumpsFinite, LiveAssumption DEF LiveInv, Counted

LEMMA PumpStarts ==
  ASSUME LiveInv, NEW s \in Sessions, pump[s] = "off",
         pump' = [pump EXCEPT ![s] = "run"]
  PROVE  Cardinality(RunningPumps') = Cardinality(RunningPumps) + 1
<1>1. RunningPumps' = RunningPumps \cup {s} /\ s \notin RunningPumps
  BY DEF LiveInv, LiveTypeOK, RunningPumps
<1>. QED
  BY <1>1, PumpsFinite, FS_AddElement

LEMMA PumpStops ==
  ASSUME LiveInv, NEW s \in Sessions, pump[s] = "run",
         pump' = [pump EXCEPT ![s] = "ended"]
  PROVE  Cardinality(RunningPumps') = Cardinality(RunningPumps) - 1
<1>1. RunningPumps' = RunningPumps \ {s} /\ s \in RunningPumps
  BY DEF LiveInv, LiveTypeOK, RunningPumps
<1>. QED
  BY <1>1, PumpsFinite, FS_RemoveElement

-----------------------------------------------------------------------------
(* The live run's steps.                                                   *)

LEMMA LiveStarts == LiveInit => LiveInv
<1>. SUFFICES ASSUME LiveInit PROVE LiveInv
  OBVIOUS
<1>1. RunningPumps = {}
  BY DEF LiveInit, RunningPumps
<1>2. LiveTypeOK
  BY LiveAssumption DEF LiveInit, LiveTypeOK, Sessions
<1>. QED
  BY <1>1, <1>2, FS_EmptySet DEF LiveInit, LiveInv, Placed, Counted

(* A step that leaves the pumps alone. *)
LEMMA PumpsAlone ==
  ASSUME LiveInv, UNCHANGED pumpVars
  PROVE  Counted'
BY DEF LiveInv, Counted, RunningPumps, pumpVars

(* Where RunLive goes on to is a session again. *)
LEMMA NextSession ==
  ASSUME LiveTypeOK, NEW place, NEW following, AfterSession(place, following)
  PROVE  /\ next' \in Sessions
         /\ \/ next < Callers /\ pc' = place /\ next' = next + 1
            \/ next = Callers /\ pc' = following /\ next' = 1
BY LiveAssumption DEF LiveTypeOK, AfterSession, Goto, Sessions

LEMMA DialFailsKeeps ==
  ASSUME LiveInv, pc = "dial", NEW why \in {"Canceled", "DeadlineExceeded", "other"},
         DialFails(why), UNCHANGED <<ctxVars, pumpVars>>
  PROVE  LiveInv'
<1>1. LiveTypeOK'
  BY DEF LiveInv, LiveTypeOK, DialFails, Goto, ctxVars, pumpVars
<1>2. \A s \in Sessions : Placed(s)'
  BY DEF LiveInv, Placed, DialFails, Goto, pumpVars
<1>. QED
  BY <1>1, <1>2, PumpsAlone DEF LiveInv

LEMMA PumpEndsKeeps ==
  ASSUME LiveInv, NEW s \in Sessions, pump[s] = "run", PumpEnds(s),
         messages' \in 0 .. MaxMessages, UNCHANGED <<ctxVars, pc, next, conn, err>>
  PROVE  LiveInv'
<1>1. /\ pump' = [pump EXCEPT ![s] = "ended"]
      /\ live' = live - 1 /\ tokens' = tokens - 1 /\ peak' = peak
  BY DEF PumpEnds
<1>2. Counted'
  BY <1>1, PumpStops, PumpsFinite, LiveAssumption DEF LiveInv, Counted
<1>3. tokens' \in 0 .. Callers
  <2>1. IsFiniteSet(Sessions) /\ RunningPumps' \in SUBSET Sessions
    BY SessionsFinite DEF RunningPumps
  <2>2. Cardinality(RunningPumps') \in Nat
    BY <2>1, FS_Subset, FS_CardinalityType
  <2>. QED
    BY <1>1, <1>2, <2>2, LiveAssumption DEF LiveInv, LiveTypeOK, Counted
<1>4. LiveTypeOK'
  BY <1>1, <1>2, <1>3 DEF LiveInv, LiveTypeOK, Counted, ctxVars
<1>5. \A t \in Sessions : Placed(t)'
  BY <1>1 DEF LiveInv, LiveTypeOK, Placed
<1>. QED
  BY <1>2, <1>4, <1>5 DEF LiveInv

LEMMA LiveStep ==
  ASSUME LiveInv, LiveNext
  PROVE  LiveInv'
<1>1. CASE BoundPasses
  <2>1. LiveTypeOK' /\ \A s \in Sessions : Placed(s)'
    BY <1>1 DEF BoundPasses, LiveInv, LiveTypeOK, Placed, pumpVars
  <2>. QED
    BY <1>1, <2>1, PumpsAlone DEF BoundPasses, LiveInv
<1>2. CASE DialConnects
  <2>1. CASE conn' = [conn EXCEPT ![next] = "handshake"] /\ UNCHANGED <<err, pc, next>>
    <3>1. LiveTypeOK' /\ \A s \in Sessions : Placed(s)'
      BY <1>2, <2>1 DEF DialConnects, LiveInv, LiveTypeOK, Placed, ctxVars, pumpVars
    <3>. QED
      BY <1>2, <3>1, PumpsAlone DEF DialConnects, LiveInv
  <2>2. CASE DialFails(IF runErr = "none" THEN "other" ELSE runErr)
    BY <1>2, <2>2, DialFailsKeeps DEF DialConnects, LiveInv, LiveTypeOK
  <2>. QED
    BY <1>2, <2>1, <2>2 DEF DialConnects
<1>3. CASE HandshakeEnds
  <2>1. CASE /\ conn' = [conn EXCEPT ![next] = "open"]
             /\ AfterSession("dial", "launch") /\ UNCHANGED err
    <3>1. LiveTypeOK'
      BY <1>3, <2>1, NextSession DEF HandshakeEnds, LiveInv, LiveTypeOK, ctxVars, pumpVars
    <3>2. \A s \in Sessions : Placed(s)'
      BY <1>3, <2>1, NextSession, LiveAssumption
         DEF HandshakeEnds, LiveInv, LiveTypeOK, Placed, Sessions, pumpVars
    <3>. QED
      BY <1>3, <3>1, <3>2, PumpsAlone DEF HandshakeEnds, LiveInv
  <2>2. CASE \E why \in {"other"} \cup ({runErr} \ {"none"}) : DialFails(why)
    BY <1>3, <2>2, DialFailsKeeps DEF HandshakeEnds, LiveInv, LiveTypeOK
  <2>. QED
    BY <1>3, <2>1, <2>2 DEF HandshakeEnds
<1>4. CASE Launch
  <2>1. pump[next] = "off" /\ next \in Sessions
    BY <1>4 DEF Launch, LiveInv, LiveTypeOK, Placed, Sessions
  <2>2. Counted'
    BY <1>4, <2>1, PumpStarts, PumpsFinite DEF Launch, LiveInv, Counted
  <2>3. tokens' \in 0 .. Callers /\ live' \in 0 .. Callers /\ peak' \in 0 .. Callers
    BY <1>4, TokenLeft, LiveAssumption DEF Launch, LiveInv, LiveTypeOK, Counted
  <2>4. LiveTypeOK'
    BY <1>4, <2>1, <2>3, NextSession DEF Launch, LiveInv, LiveTypeOK, ctxVars
  <2>5. \A s \in Sessions : Placed(s)'
    BY <1>4, <2>1, NextSession, LiveAssumption
       DEF Launch, LiveInv, LiveTypeOK, Placed, Sessions
  <2>. QED
    BY <2>2, <2>4, <2>5 DEF LiveInv
<1>5. CASE ContextEnds
  <2>1. LiveTypeOK' /\ \A s \in Sessions : Placed(s)'
    BY <1>5, LiveAssumption
       DEF ContextEnds, Goto, LiveInv, LiveTypeOK, Placed, Sessions, ctxVars, pumpVars
  <2>. QED
    BY <1>5, <2>1, PumpsAlone DEF ContextEnds, LiveInv
<1>6. CASE CloseOne
  <2>1. LiveTypeOK'
    BY <1>6, NextSession DEF CloseOne, LiveInv, LiveTypeOK, ctxVars, pumpVars
  <2>2. \A s \in Sessions : Placed(s)'
    BY <1>6, NextSession, LiveAssumption
       DEF CloseOne, LiveInv, LiveTypeOK, Placed, Sessions, pumpVars
  <2>. QED
    BY <1>6, <2>1, <2>2, PumpsAlone DEF CloseOne, LiveInv
<1>7. CASE Returns
  <2>1. LiveTypeOK' /\ \A s \in Sessions : Placed(s)'
    BY <1>7, LiveAssumption
       DEF Returns, Joined, Goto, LiveInv, LiveTypeOK, Placed, Sessions, ctxVars, pumpVars
  <2>. QED
    BY <1>7, <2>1, PumpsAlone DEF Returns, LiveInv
<1>8. ASSUME NEW s \in Sessions, PumpReads(s) PROVE LiveInv'
  <2>1. messages' \in 0 .. MaxMessages
    BY <1>8, LiveAssumption DEF PumpReads, LiveInv, LiveTypeOK
  <2>2. PICK msg \in Messages(codec) :
          LET d == DecodeRecv(codec, talking[s], msg) IN
          IF d.ok THEN UNCHANGED <<pump, tokens, live, peak>> ELSE PumpEnds(s)
    BY <1>8 DEF PumpReads
  <2>3. CASE UNCHANGED <<pump, tokens, live, peak>>
    BY <1>8, <2>1, <2>3
       DEF PumpReads, LiveInv, LiveTypeOK, Placed, Counted, RunningPumps, ctxVars
  <2>4. CASE PumpEnds(s)
    BY <1>8, <2>1, <2>4, PumpEndsKeeps DEF PumpReads
  <2>. QED
    BY <2>2, <2>3, <2>4
<1>9. ASSUME NEW s \in Sessions, PumpFails(s) PROVE LiveInv'
  BY <1>9, PumpEndsKeeps DEF PumpFails, LiveInv, LiveTypeOK
<1>10. ASSUME NEW s \in Sessions, PumpLogs(s) PROVE LiveInv'
  BY <1>10 DEF PumpLogs, LiveInv, LiveTypeOK, Placed, Counted, RunningPumps, ctxVars
<1>. QED
  BY <1>1, <1>2, <1>3, <1>4, <1>5, <1>6, <1>7, <1>8, <1>9, <1>10 DEF LiveNext

-----------------------------------------------------------------------------
(* The command's steps.                                                    *)

(* A context's end, however the command comes to it. *)
LEMMA CtxEndsKeeps ==
  ASSUME LiveInv, NEW why \in {"Canceled", "DeadlineExceeded"}, CtxEnds(why)
  PROVE  LiveInv'
<1>1. LiveTypeOK' /\ \A s \in Sessions : Placed(s)'
  BY DEF CtxEnds, LiveInv, LiveTypeOK, Placed, pumpVars
<1>. QED
  BY <1>1, PumpsAlone DEF CtxEnds, LiveInv

LEMMA Unmoved ==
  ASSUME LiveInv, UNCHANGED liveVars
  PROVE  LiveInv'
BY DEF liveVars, ctxVars, pumpVars, LiveInv, LiveTypeOK, Placed, Counted, RunningPumps

LEMMA LiveInvStep ==
  ASSUME LiveInv, [Next]_vars
  PROVE  LiveInv'
<1>1. CASE Interrupt
  BY <1>1, CtxEndsKeeps, Unmoved DEF Interrupt
<1>2. CASE TimeoutPasses
  BY <1>2, CtxEndsKeeps DEF TimeoutPasses
<1>3. CASE BadUsage \/ LoadFails \/ RunExits \/ SaveExits \/ CheckExits \/ CompareExits
  <2>1. UNCHANGED liveVars
    BY <1>3 DEF BadUsage, LoadFails, RunExits, SaveExits, CheckExits, CompareExits
  <2>. QED
    BY <2>1, Unmoved
<1>4. CASE StartsLive
  <2>1. LiveTypeOK' /\ \A s \in Sessions : Placed(s)'
    BY <1>4, LiveAssumption
       DEF StartsLive, Starting, Goto, LiveInv, LiveTypeOK, Placed, Sessions, pumpVars
  <2>. QED
    BY <1>4, <2>1, PumpsAlone DEF StartsLive, LiveInv
<1>5. CASE OfflineReturns
  <2>1. LiveTypeOK' /\ \A s \in Sessions : Placed(s)'
    BY <1>5, LiveAssumption
       DEF OfflineReturns, Starting, Goto, LiveInv, LiveTypeOK, Placed, Sessions,
           ctxVars, pumpVars
  <2>. QED
    BY <1>5, <2>1, PumpsAlone DEF OfflineReturns, LiveInv
<1>6. CASE LiveNext
  BY <1>6, LiveStep
<1>7. CASE UNCHANGED vars
  BY <1>7, Unmoved DEF vars
<1>. QED
  BY <1>1, <1>2, <1>3, <1>4, <1>5, <1>6, <1>7 DEF Next, Done

(* The steps that leave the run as it is and what led to it. *)
Exiting == BadUsage \/ LoadFails \/ RunExits \/ SaveExits \/ CheckExits \/ CompareExits

LEMMA ExitingKeeps ==
  ASSUME Exiting
  PROVE  /\ UNCHANGED <<liveVars, cmd, timeout, writable, sigint, whole>>
         /\ ~exited /\ exited' = TRUE /\ exit' \in {0, 1, 2, 3}
         /\ ~Running
<1>1. UNCHANGED <<liveVars, cmd, timeout, writable, sigint, whole>>
  BY DEF Exiting, BadUsage, LoadFails, RunExits, SaveExits, CheckExits, CompareExits
<1>2. ~Running
  BY DEF Exiting, BadUsage, LoadFails, RunExits, SaveExits, CheckExits, CompareExits,
         Running, Starting, Returned
<1>3. CASE BadUsage \/ LoadFails
  BY <1>1, <1>2, <1>3 DEF BadUsage, LoadFails, Exits
<1>4. CASE RunExits
  BY <1>1, <1>2, <1>4 DEF RunExits, Exits
<1>5. CASE SaveExits
  BY <1>1, <1>2, <1>5 DEF SaveExits, Exits
<1>6. CASE CheckExits
  BY <1>1, <1>2, <1>6 DEF CheckExits, Judges, Exits
<1>7. CASE CompareExits
  BY <1>1, <1>2, <1>7 DEF CompareExits, Judges, Exits
<1>. QED
  BY <1>3, <1>4, <1>5, <1>6, <1>7 DEF Exiting

(* What a step of the live run does to its contexts and its place. *)
LEMMA LiveMoves ==
  ASSUME LiveInv, LiveNext
  PROVE  /\ Running
         /\ UNCHANGED <<ctxErr, bounded>>
         /\ \/ runErr' = runErr
            \/ bounded /\ runErr = "none" /\ runErr' = "DeadlineExceeded"
         /\ pc' # "off"
         /\ pc' \in {"close", "join"} => pc \in {"close", "join"} \/ runErr # "none"
<1>. USE DEF Running
<1>1. CASE BoundPasses
  BY <1>1 DEF BoundPasses
<1>2. CASE DialConnects
  <2>1. UNCHANGED <<ctxErr, runErr, bounded>> /\ pc = "dial"
    BY <1>2 DEF DialConnects, ctxVars
  <2>2. pc' \in {"dial", "returned"}
    BY <1>2, <2>1 DEF DialConnects, DialFails, Goto
  <2>. QED
    BY <2>1, <2>2
<1>3. CASE HandshakeEnds
  <2>1. UNCHANGED <<ctxErr, runErr, bounded>> /\ pc = "dial"
    BY <1>3 DEF HandshakeEnds, ctxVars
  <2>2. pc' \in {"dial", "launch", "returned"}
    BY <1>3, <2>1 DEF HandshakeEnds, DialFails, AfterSession, Goto
  <2>. QED
    BY <2>1, <2>2
<1>4. CASE Launch
  BY <1>4 DEF Launch, AfterSession, Goto, ctxVars
<1>5. CASE ContextEnds \/ Returns
  BY <1>5 DEF ContextEnds, Returns, Goto, ctxVars
<1>6. CASE CloseOne
  BY <1>6 DEF CloseOne, AfterSession, Goto, ctxVars
<1>7. ASSUME NEW s \in Sessions, PumpReads(s) \/ PumpFails(s) \/ PumpLogs(s)
      PROVE  pump[s] = "run" /\ UNCHANGED <<ctxVars, pc>>
  BY <1>7 DEF PumpReads, PumpFails, PumpLogs
<1>8. ASSUME NEW s \in Sessions, pump[s] = "run"
      PROVE  Running
  BY <1>8 DEF LiveInv, Placed
<1>9. CASE \E s \in Sessions : PumpReads(s) \/ PumpFails(s) \/ PumpLogs(s)
  BY <1>7, <1>8, <1>9 DEF ctxVars
<1>. QED
  BY <1>1, <1>2, <1>3, <1>4, <1>5, <1>6, <1>9 DEF LiveNext

(* At most one report, one baseline and one verdict. *)
Written == {Len(report), Len(saved), Len(judged)} \subseteq {0, 1}

LEMMA WrittenStep ==
  ASSUME Written, [Next]_vars
  PROVE  Written'
<1>1. CASE RunExits
  BY <1>1 DEF RunExits, Written
<1>2. CASE SaveExits
  BY <1>2 DEF SaveExits, Written
<1>3. CASE CheckExits
  BY <1>3 DEF CheckExits, Judges, Written
<1>4. CASE CompareExits
  BY <1>4 DEF CompareExits, Judges, Written
<1>5. CASE UNCHANGED <<report, saved, judged>>
  BY <1>5 DEF Written
<1>6. CASE Interrupt \/ BadUsage \/ LoadFails \/ OfflineReturns
  BY <1>5, <1>6 DEF Interrupt, BadUsage, LoadFails, OfflineReturns
<1>7. CASE TimeoutPasses \/ StartsLive \/ (LiveNext /\ UNCHANGED commandVars) \/ UNCHANGED vars
  BY <1>5, <1>7 DEF TimeoutPasses, StartsLive, vars, commandVars
<1>. QED
  BY <1>1, <1>2, <1>3, <1>4, <1>6, <1>7 DEF Next, Done

Typed ==
  /\ timeout \in BOOLEAN /\ writable \in BOOLEAN /\ sigint \in BOOLEAN
  /\ whole \in BOOLEAN /\ exited \in BOOLEAN /\ exit \in {0, 1, 2, 3}

LEMMA TypeStep ==
  ASSUME TypeOK, LiveInv, [Next]_vars
  PROVE  TypeOK'
<1>1. LiveTypeOK' /\ Written'
  BY LiveInvStep, WrittenStep DEF LiveInv, TypeOK, Written
<1>2. Typed
  BY DEF TypeOK, Typed
<1>3. Typed'
  <2>1. CASE Interrupt
    BY <1>2, <2>1 DEF Interrupt, Typed
  <2>2. CASE UNCHANGED commandVars
    BY <1>2, <2>2 DEF commandVars, Typed
  <2>3. CASE OfflineReturns
    BY <1>2, <2>3 DEF OfflineReturns, Typed
  <2>4. CASE Exiting
    BY <1>2, <2>4, ExitingKeeps DEF Typed
  <2>. QED
    BY <2>1, <2>2, <2>3, <2>4 DEF Next, Done, Exiting, TimeoutPasses, StartsLive, vars
<1>. QED
  BY <1>1, <1>3 DEF TypeOK, Typed, Written

LEMMA CausesStep ==
  ASSUME TypeOK, LiveInv, Causes, [Next]_vars
  PROVE  Causes'
<1>. USE DEF Causes, RunsLive, RunsOffline
<1>1. CASE Interrupt
  BY <1>1 DEF Interrupt, CtxEnds, liveVars, ctxVars, Running
<1>2. CASE TimeoutPasses
  BY <1>2 DEF TimeoutPasses, CtxEnds, commandVars
<1>3. CASE Exiting
  <2>1. UNCHANGED <<ctxErr, runErr, bounded, pc, cmd, timeout, sigint>>
    BY <1>3, ExitingKeeps DEF liveVars, ctxVars
  <2>. QED
    BY <2>1
<1>4. CASE StartsLive
  BY <1>4 DEF StartsLive, Starting, Goto, commandVars, TypeOK, LiveTypeOK
<1>5. CASE OfflineReturns
  BY <1>5 DEF OfflineReturns, Goto, ctxVars
<1>6. CASE LiveNext /\ UNCHANGED commandVars
  <2>1. UNCHANGED <<cmd, timeout, sigint>>
    BY <1>6 DEF commandVars
  <2>2. /\ pc \notin {"off", "returned"} /\ pc' # "off"
        /\ UNCHANGED <<ctxErr, bounded>>
        /\ runErr' = runErr \/ (bounded /\ runErr' = "DeadlineExceeded")
        /\ pc' \in {"close", "join"} => pc \in {"close", "join"} \/ runErr # "none"
    BY <1>6, LiveMoves DEF Running
  <2>. QED
    BY <2>1, <2>2
<1>7. CASE UNCHANGED vars
  BY <1>7 DEF vars, liveVars, ctxVars, commandVars
<1>. QED
  BY <1>1, <1>2, <1>3, <1>4, <1>5, <1>6, <1>7 DEF Next, Done, Exiting

(* How a run returns. *)
LEMMA LiveReturns ==
  ASSUME LiveInv, LiveNext, pc' = "returned"
  PROVE  /\ UNCHANGED <<ctxVars, pump>>
         /\ \/ pc = "dial" /\ err' \in {"other", runErr} \ {"none"}
            \/ pc = "join" /\ err' = ctxErr
<1>1. CASE BoundPasses
  BY <1>1 DEF BoundPasses, Running
<1>2. CASE DialConnects
  BY <1>2 DEF DialConnects, DialFails, Goto, pumpVars
<1>3. CASE HandshakeEnds
  BY <1>3 DEF HandshakeEnds, DialFails, AfterSession, Goto, pumpVars
<1>4. CASE Launch \/ ContextEnds \/ CloseOne
  BY <1>4 DEF Launch, ContextEnds, CloseOne, AfterSession, Goto
<1>5. CASE Returns
  BY <1>5 DEF Returns, pumpVars
<1>6. ASSUME NEW s \in Sessions, PumpReads(s) \/ PumpFails(s) \/ PumpLogs(s)
      PROVE  pump[s] = "run" /\ pc = "returned"
  BY <1>6 DEF PumpReads, PumpFails, PumpLogs
<1>7. ~ \E s \in Sessions : PumpReads(s) \/ PumpFails(s) \/ PumpLogs(s)
  BY <1>6 DEF LiveInv, Placed
<1>. QED
  BY <1>1, <1>2, <1>3, <1>4, <1>5, <1>7 DEF LiveNext

LEMMA NoneDialed ==
  ASSUME LiveInv, pc \in {"off", "dial"}
  PROVE  ~AllDialed
<1>1. 1 \in Sessions
  BY LiveAssumption DEF Sessions
<1>. QED
  BY <1>1 DEF LiveInv, Placed, AllDialed

LEMMA ErrTellsStep ==
  ASSUME TypeOK, LiveInv, Causes, ErrTells, [Next]_vars
  PROVE  ErrTells'
<1>. USE DEF ErrTells, Whole, RunsLive
<1>1. CASE Interrupt
  BY <1>1 DEF Interrupt, CtxEnds, Running, AllDialed, liveVars, ctxVars, pumpVars
<1>2. CASE TimeoutPasses
  BY <1>2 DEF TimeoutPasses, CtxEnds, Running, AllDialed, commandVars, pumpVars
<1>3. CASE Exiting
  <2>1. UNCHANGED <<runErr, bounded, pc, pump, err, cmd, timeout, sigint, whole>>
    BY <1>3, ExitingKeeps DEF liveVars, ctxVars, pumpVars
  <2>. QED
    BY <2>1 DEF AllDialed
<1>4. CASE StartsLive
  BY <1>4 DEF StartsLive, Goto
<1>5. CASE OfflineReturns
  BY <1>5 DEF OfflineReturns, RunsOffline, Causes
<1>6. CASE LiveNext /\ UNCHANGED commandVars
  <2>. SUFFICES ASSUME pc' = "returned" PROVE ErrTells'
    OBVIOUS
  <2>1. UNCHANGED <<ctxErr, runErr, bounded, pump, cmd, timeout, sigint, whole>>
    BY <1>6, LiveReturns DEF ctxVars, commandVars
  <2>2. CASE pc = "dial" /\ err' \in {"other", runErr} \ {"none"}
    <3>1. ~AllDialed'
      BY <2>1, <2>2, NoneDialed DEF AllDialed
    <3>. QED
      BY <2>1, <2>2, <3>1 DEF Causes
  <2>3. CASE pc = "join" /\ err' = ctxErr
    BY <2>1, <2>3 DEF Causes, TypeOK, LiveTypeOK
  <2>. QED
    BY <1>6, <2>2, <2>3, LiveReturns
<1>7. CASE UNCHANGED vars
  BY <1>7 DEF vars, liveVars, ctxVars, pumpVars, commandVars, AllDialed
<1>. QED
  BY <1>1, <1>2, <1>3, <1>4, <1>5, <1>6, <1>7 DEF Next, Done, Exiting

(* Nothing follows the exit. *)
LEMMA ExitIsLast ==
  ASSUME LiveInv, Exited, [Next]_vars
  PROVE  \/ Exiting
         \/ ~exited /\ UNCHANGED <<report, saved, judged, exited, exit>>
         \/ UNCHANGED vars
<1>1. CASE Interrupt \/ TimeoutPasses \/ StartsLive \/ OfflineReturns
  BY <1>1 DEF Interrupt, TimeoutPasses, StartsLive, OfflineReturns, Starting, commandVars
<1>2. CASE LiveNext /\ UNCHANGED commandVars
  BY <1>2, LiveMoves DEF Exited, commandVars
<1>. QED
  BY <1>1, <1>2 DEF Next, Done, Exiting

LEMMA ExitedStep ==
  ASSUME LiveInv, Exited, [Next]_vars
  PROVE  Exited'
<1>1. CASE Exiting
  BY <1>1, ExitingKeeps DEF Exited, Running, liveVars
<1>2. CASE ~exited /\ UNCHANGED <<report, saved, judged, exited, exit>>
  BY <1>2 DEF Exited
<1>3. CASE UNCHANGED vars
  BY <1>3 DEF Exited, Running, vars, liveVars, commandVars
<1>. QED
  BY <1>1, <1>2, <1>3, ExitIsLast

LEMMA ExitTellsStep ==
  ASSUME LiveInv, ErrTells, Exited, ExitTellsTheEnd, [Next]_vars
  PROVE  ExitTellsTheEnd'
<1>1. CASE Exiting
  <2>1. UNCHANGED <<pump, cmd, timeout, writable, sigint>> /\ exited' = TRUE /\ ~exited
    BY <1>1, ExitingKeeps DEF liveVars, pumpVars
  <2>2. report = << >>
    BY <2>1 DEF Exited
  <2>3. CASE BadUsage \/ LoadFails
    <3>1. report' = << >> /\ exit' \in {1, 2}
      BY <2>2, <2>3 DEF BadUsage, LoadFails, Exits
    <3>2. ~AllDialed'
      BY <2>1, <2>3, NoneDialed DEF BadUsage, LoadFails, Starting, AllDialed
    <3>. QED
      BY <3>1, <3>2 DEF ExitTellsTheEnd
  <2>4. CASE SaveExits \/ CheckExits \/ CompareExits
    <3>1. report' = << >> /\ ~RunsLive'
      BY <2>1, <2>2, <2>4 DEF SaveExits, CheckExits, CompareExits, RunsLive
    <3>2. exit' \in {0, 1}
      BY <2>4 DEF SaveExits, CheckExits, CompareExits, Judges, Exits
    <3>. QED
      BY <3>1, <3>2 DEF ExitTellsTheEnd
  <2>5. CASE RunExits
    <3>1. /\ err = "Canceled" => sigint
          /\ err = "none" => Whole
          /\ RunsLive /\ AllDialed /\ ~sigint =>
               err = IF timeout THEN "DeadlineExceeded" ELSE "none"
      BY <2>5 DEF RunExits, Returned, ErrTells
    <3>2. UNCHANGED <<RunsLive, AllDialed>>
      BY <2>1 DEF RunsLive, AllDialed
    <3>3. CASE (err \notin {"none", "Canceled"} /\ ~TimedOut) \/ ~writable
      <4>1. report' = << >> /\ exit' = 1
        BY <2>2, <2>5, <3>3 DEF RunExits, Exits
      <4>. QED
        BY <2>1, <3>1, <3>2, <3>3, <4>1 DEF ExitTellsTheEnd, TimedOut
    <3>4. CASE ~((err \notin {"none", "Canceled"} /\ ~TimedOut) \/ ~writable)
      <4>1. /\ report' = <<[Truncated |-> TimedOut, whole |-> Whole]>>
            /\ exit' = IF TimedOut THEN 3 ELSE 0
        BY <2>5, <3>4 DEF RunExits, Exits
      <4>2. /\ report' # << >> /\ report'[1].Truncated = TimedOut
            /\ report'[1].whole = Whole
        BY <4>1
      <4>3. TimedOut <=> timeout /\ err = "DeadlineExceeded" /\ ~sigint
        BY DEF TimedOut
      <4>. QED
        BY <2>1, <3>1, <3>2, <3>4, <4>1, <4>2, <4>3 DEF ExitTellsTheEnd
    <3>. QED
      BY <3>3, <3>4
  <2>. QED
    BY <1>1, <2>3, <2>4, <2>5 DEF Exiting
<1>2. CASE ~exited /\ UNCHANGED <<report, saved, judged, exited, exit>>
  BY <1>2 DEF ExitTellsTheEnd
<1>3. CASE UNCHANGED vars
  BY <1>3 DEF ExitTellsTheEnd, RunsLive, AllDialed, vars, liveVars, pumpVars, commandVars
<1>. QED
  BY <1>1, <1>2, <1>3, ExitIsLast

LEMMA BaselineStep ==
  ASSUME LiveInv, ErrTells, Exited, BaselineIsComplete, [Next]_vars
  PROVE  BaselineIsComplete'
<1>. USE DEF BaselineIsComplete
<1>1. CASE SaveExits
  <2>1. err = "none" => Whole
    BY <1>1 DEF SaveExits, Returned, ErrTells
  <2>2. CASE SaveFails
    BY <1>1, <2>2 DEF SaveExits
  <2>3. CASE ~SaveFails
    <3>1. saved' = <<[whole |-> whole]>>
      BY <1>1, <2>3 DEF SaveExits
    <3>2. whole
      BY <1>1, <2>1, <2>3 DEF SaveExits, SaveFails, Whole, RunsLive
    <3>3. saved'[1].whole = whole
      BY <3>1
    <3>. QED
      BY <3>2, <3>3
  <2>. QED
    BY <2>2, <2>3
<1>2. CASE BadUsage \/ LoadFails \/ RunExits \/ CheckExits \/ CompareExits
  BY <1>2 DEF BadUsage, LoadFails, RunExits, CheckExits, CompareExits
<1>3. CASE ~exited /\ UNCHANGED <<report, saved, judged, exited, exit>>
  BY <1>3
<1>4. CASE UNCHANGED vars
  BY <1>4 DEF vars, commandVars
<1>. QED
  BY <1>1, <1>2, <1>3, <1>4, ExitIsLast DEF Exiting

-----------------------------------------------------------------------------
(* Theorems.                                                               *)

LEMMA InitIInv == Init => IInv
<1>. SUFFICES ASSUME Init PROVE IInv
  OBVIOUS
<1>1. LiveInv
  BY LiveStarts DEF Init
<1>2. TypeOK
  <2>1. LiveTypeOK
    BY <1>1 DEF LiveInv
  <2>2. Written
    BY DEF Init, Written
  <2>3. Typed
    BY DEF Init, Typed
  <2>. QED
    BY <2>1, <2>2, <2>3 DEF TypeOK, Written, Typed
<1>3. Causes
  BY DEF Init, LiveInit, Causes
<1>4. ErrTells
  BY DEF Init, LiveInit, ErrTells
<1>5. Exited /\ ExitTellsTheEnd /\ BaselineIsComplete
  BY DEF Init, Exited, ExitTellsTheEnd, BaselineIsComplete
<1>. QED
  BY <1>1, <1>2, <1>3, <1>4, <1>5 DEF IInv

LEMMA StepIInv == IInv /\ [Next]_vars => IInv'
BY LiveInvStep, TypeStep, CausesStep, ErrTellsStep, ExitedStep, ExitTellsStep, BaselineStep
   DEF IInv

THEOREM Invariant == Spec => []IInv
BY InitIInv, StepIInv, PTL DEF Spec

(* The variables of a live run and of the command keep their ranges; with  *)
(* them the tokens of runner.go:111 stay within the semaphore.             *)
THEOREM TypeCorrect == Spec => []TypeOK
<1>1. IInv => TypeOK
  BY DEF IInv
<1>. QED
  BY <1>1, Invariant, PTL

(* Whatever ends a live run, and whichever dial fails, RunLive returns with *)
(* every connection closed, every pump joined and every token back, and no *)
(* pump waits for a token to be launched (live.go:100, runner.go:42).      *)
THEOREM RunIsClosedAndJoined == Spec => []ClosedAndJoined
<1>1. LiveInv => ClosedAndJoined
  <2>. SUFFICES ASSUME LiveInv PROVE ClosedAndJoined
    OBVIOUS
  <2>1. pc = "launch" => tokens < SemBound
    BY TokenLeft DEF SemBound
  <2>2. ASSUME pc = "returned" PROVE tokens = 0 /\ live = 0
    <3>1. RunningPumps = {}
      BY <2>2 DEF LiveInv, Placed, RunningPumps
    <3>. QED
      BY <3>1, FS_EmptySet DEF LiveInv, Counted
  <2>3. pc = "returned" => \A s \in Sessions : conn[s] \in {"none", "closed"} /\ pump[s] # "run"
    BY DEF LiveInv, Placed
  <2>. QED
    BY <2>1, <2>2, <2>3 DEF ClosedAndJoined
<1>2. IInv => ClosedAndJoined
  BY <1>1 DEF IInv
<1>. QED
  BY <1>2, Invariant, PTL

(* The exit code tells how the run ended and what was written, whatever    *)
(* the order of Ctrl-C, --timeout, max_duration_ms and the run's own end   *)
(* (main.go:214).                                                          *)
THEOREM ExitCodeTells == Spec => []ExitTellsTheEnd
<1>1. IInv => ExitTellsTheEnd
  BY DEF IInv
<1>. QED
  BY <1>1, Invariant, PTL

(* No baseline is saved of a run that was cancelled on its way             *)
(* (main.go:340).                                                          *)
THEOREM BaselineComplete == Spec => []BaselineIsComplete
<1>1. IInv => BaselineIsComplete
  BY DEF IInv
<1>. QED
  BY <1>1, Invariant, PTL

-----------------------------------------------------------------------------
(* The turns of a Gemini endpoint.                                         *)

Kinds == {"turn_start", "agent", "turn_end"}
Entries == [kind : Kinds, turn : Nat]

(* A turn has begun in the log and not ended. *)
InTurn(events, turn) ==
  \E j \in 1 .. Len(events) :
    /\ events[j] = [kind |-> "turn_start", turn |-> turn]
    /\ \A k \in j .. Len(events) : events[k].kind # "turn_end"

Bracketed(events) ==
  \A i \in 1 .. Len(events) :
    events[i].kind = "agent" =>
      \E j \in 1 .. i - 1 :
        /\ events[j] = [kind |-> "turn_start", turn |-> events[i].turn]
        /\ \A k \in j .. i : events[k].kind # "turn_end"

(* Once the first i of the frames pending are logged, a turn is open: one  *)
(* of them begins it, or it was open before.                               *)
OpenAfter(frames, i, open) ==
  \/ \E j \in 1 .. i : frames[j] = "turn_start" /\ \A k \in j .. i : frames[k] # "turn_end"
  \/ open /\ \A k \in 1 .. i : frames[k] # "turn_end"

(* So it is at every frame of audio, and at the end if the codec thinks    *)
(* that the agent is talking.                                              *)
Ready(frames, talks, open) ==
  /\ \A i \in 1 .. Len(frames) : frames[i] = "agent" => OpenAfter(frames, i, open)
  /\ talks => OpenAfter(frames, Len(frames), open)

TurnsInv ==
  /\ talking \in [Sessions -> BOOLEAN] /\ pending \in [Sessions -> Seq(Kinds)]
  /\ obsTurn \in [Sessions -> Nat] /\ log \in [Sessions -> Seq(Entries)]
  /\ \A s \in Sessions :
       Bracketed(log[s]) /\ Ready(pending[s], talking[s], InTurn(log[s], obsTurn[s]))

GeminiInv == codec = "gemini-live" => TurnsInv

-----------------------------------------------------------------------------
(* The log.                                                                *)

LEMMA AppendBracketed ==
  ASSUME NEW events \in Seq(Entries), NEW e \in Entries, Bracketed(events),
         e.kind = "agent" => InTurn(events, e.turn)
  PROVE  Bracketed(Append(events, e))
<1>. DEFINE longer == Append(events, e)
<1>1. /\ Len(events) \in Nat /\ Len(longer) = Len(events) + 1
      /\ longer[Len(events) + 1] = e
      /\ \A k \in 1 .. Len(events) : longer[k] = events[k]
  BY AppendProperties
<1>. SUFFICES ASSUME NEW i \in 1 .. Len(longer), longer[i].kind = "agent"
              PROVE  \E j \in 1 .. i - 1 :
                       /\ longer[j] = [kind |-> "turn_start", turn |-> longer[i].turn]
                       /\ \A k \in j .. i : longer[k].kind # "turn_end"
  BY DEF Bracketed
<1>. HIDE DEF longer
<1>2. CASE i \in 1 .. Len(events)
  <2>1. PICK j \in 1 .. i - 1 :
          /\ events[j] = [kind |-> "turn_start", turn |-> events[i].turn]
          /\ \A k \in j .. i : events[k].kind # "turn_end"
    BY <1>1, <1>2 DEF Bracketed
  <2>. QED
    BY <1>1, <1>2, <2>1
<1>3. CASE i = Len(events) + 1
  <2>1. PICK j \in 1 .. Len(events) :
          /\ events[j] = [kind |-> "turn_start", turn |-> e.turn]
          /\ \A k \in j .. Len(events) : events[k].kind # "turn_end"
    BY <1>1, <1>3 DEF InTurn
  <2>2. \A k \in j .. i : longer[k].kind # "turn_end"
    BY <1>1, <1>3, <2>1
  <2>. QED
    BY <1>1, <1>3, <2>1, <2>2
<1>. QED
  BY <1>1, <1>2, <1>3

LEMMA AppendInTurn ==
  ASSUME NEW events \in Seq(Entries), NEW e \in Entries, NEW turn \in Nat,
         \/ e = [kind |-> "turn_start", turn |-> turn]
         \/ InTurn(events, turn) /\ e.kind # "turn_end"
  PROVE  InTurn(Append(events, e), turn)
<1>. DEFINE longer == Append(events, e)
<1>1. /\ Len(events) \in Nat /\ Len(longer) = Len(events) + 1
      /\ longer[Len(events) + 1] = e
      /\ \A k \in 1 .. Len(events) : longer[k] = events[k]
  BY AppendProperties
<1>. SUFFICES InTurn(longer, turn)
  OBVIOUS
<1>. HIDE DEF longer
<1>2. CASE e = [kind |-> "turn_start", turn |-> turn]
  BY <1>1, <1>2 DEF InTurn
<1>3. CASE InTurn(events, turn) /\ e.kind # "turn_end"
  <2>1. PICK j \in 1 .. Len(events) :
          /\ events[j] = [kind |-> "turn_start", turn |-> turn]
          /\ \A k \in j .. Len(events) : events[k].kind # "turn_end"
    BY <1>3 DEF InTurn
  <2>2. \A k \in j .. Len(longer) : longer[k].kind # "turn_end"
    BY <1>1, <1>3, <2>1
  <2>. QED
    BY <1>1, <2>1, <2>2 DEF InTurn
<1>. QED
  BY <1>2, <1>3

-----------------------------------------------------------------------------
(* The frames pending.                                                     *)

LEMMA TailOpenAfter ==
  ASSUME NEW frames \in Seq(Kinds), frames # << >>, NEW i \in 1 .. Len(frames),
         NEW before, NEW after, OpenAfter(frames, i, before),
         frames[1] = "turn_start" => after,
         before /\ frames[1] # "turn_end" => after
  PROVE  OpenAfter(Tail(frames), i - 1, after)
<1>1. /\ Len(frames) \in Nat /\ Len(Tail(frames)) = Len(frames) - 1
      /\ \A k \in 1 .. Len(frames) - 1 : Tail(frames)[k] = frames[k + 1]
  BY HeadTailProperties, LenProperties
<1>2. CASE \E j \in 1 .. i : frames[j] = "turn_start" /\ \A k \in j .. i : frames[k] # "turn_end"
  <2>1. PICK j \in 1 .. i : frames[j] = "turn_start" /\ \A k \in j .. i : frames[k] # "turn_end"
    BY <1>2
  <2>2. CASE j = 1
    <3>1. after /\ \A k \in 1 .. i - 1 : Tail(frames)[k] # "turn_end"
      BY <1>1, <2>1, <2>2
    <3>. QED
      BY <3>1 DEF OpenAfter
  <2>3. CASE j # 1
    <3>1. /\ j - 1 \in 1 .. i - 1 /\ Tail(frames)[j - 1] = "turn_start"
          /\ \A k \in j - 1 .. i - 1 : Tail(frames)[k] # "turn_end"
      BY <1>1, <2>1, <2>3
    <3>. QED
      BY <3>1 DEF OpenAfter
  <2>. QED
    BY <2>2, <2>3
<1>3. CASE before /\ \A k \in 1 .. i : frames[k] # "turn_end"
  <2>1. after /\ \A k \in 1 .. i - 1 : Tail(frames)[k] # "turn_end"
    BY <1>1, <1>3
  <2>. QED
    BY <2>1 DEF OpenAfter
<1>. QED
  BY <1>2, <1>3 DEF OpenAfter

LEMMA TailReady ==
  ASSUME NEW frames \in Seq(Kinds), frames # << >>, NEW talks, NEW before, NEW after,
         Ready(frames, talks, before),
         frames[1] = "turn_start" => after,
         before /\ frames[1] # "turn_end" => after
  PROVE  Ready(Tail(frames), talks, after)
<1>1. /\ Len(frames) \in Nat \ {0} /\ Len(Tail(frames)) = Len(frames) - 1
      /\ \A k \in 1 .. Len(frames) - 1 : Tail(frames)[k] = frames[k + 1]
  BY HeadTailProperties, LenProperties, EmptySeq
<1>2. ASSUME NEW i \in 1 .. Len(Tail(frames)), Tail(frames)[i] = "agent"
      PROVE  OpenAfter(Tail(frames), i, after)
  <2>1. i + 1 \in 1 .. Len(frames) /\ frames[i + 1] = "agent" /\ (i + 1) - 1 = i
    BY <1>1, <1>2
  <2>2. OpenAfter(frames, i + 1, before)
    BY <2>1 DEF Ready
  <2>3. OpenAfter(Tail(frames), (i + 1) - 1, after)
    BY <2>1, <2>2, TailOpenAfter
  <2>. QED
    BY <2>1, <2>3
<1>3. ASSUME talks PROVE OpenAfter(Tail(frames), Len(Tail(frames)), after)
  <2>1. OpenAfter(frames, Len(frames), before) /\ Len(frames) \in 1 .. Len(frames)
    BY <1>1, <1>3 DEF Ready
  <2>2. OpenAfter(Tail(frames), Len(frames) - 1, after)
    BY <2>1, TailOpenAfter
  <2>. QED
    BY <1>1, <2>2
<1>. QED
  BY <1>2, <1>3 DEF Ready

LEMMA Singleton ==
  ASSUME NEW kind \in Kinds
  PROVE  <<kind>> \in Seq(Kinds) /\ Len(<<kind>>) = 1 /\ <<kind>>[1] = kind
<1>1. Append(<< >>, kind) \in Seq(Kinds)
  BY EmptySeq, AppendProperties
<1>2. Append(<< >>, kind) = <<kind>> /\ Len(<<kind>>) = 1 /\ <<kind>>[1] = kind
  OBVIOUS
<1>. QED
  BY <1>1, <1>2

LEMMA Concatenated ==
  ASSUME NEW first \in Seq(Kinds), NEW second \in Seq(Kinds),
         NEW frames, frames = first \o second
  PROVE  /\ frames \in Seq(Kinds) /\ Len(frames) = Len(first) + Len(second)
         /\ \A k \in 1 .. Len(first) + Len(second) :
              frames[k] = IF k <= Len(first) THEN first[k] ELSE second[k - Len(first)]
BY ConcatProperties

LEMMA NoFrames == << >> \in Seq(Kinds) /\ Len(<< >>) = 0
BY EmptySeq

LEMMA Repeated ==
  ASSUME NEW n \in Nat, NEW kind \in Kinds, NEW audio, audio = [k \in 1 .. n |-> kind]
  PROVE  /\ audio \in Seq(Kinds) /\ Len(audio) = n
         /\ \A k \in 1 .. n : audio[k] = kind
<1>1. audio \in [1 .. n -> Kinds] /\ \A k \in 1 .. n : audio[k] = kind
  OBVIOUS
<1>2. audio \in Seq(Kinds)
  BY <1>1, SeqDef
<1>3. DOMAIN audio = 1 .. n
  OBVIOUS
<1>4. Len(audio) \in Nat /\ 1 .. Len(audio) = 1 .. n
  BY <1>2, <1>3, LenProperties
<1>5. Len(audio) = n
  BY <1>4
<1>. QED
  BY <1>1, <1>2, <1>5

(* What a message decodes to. *)
LEMMA DecodedReady ==
  ASSUME NEW talks \in BOOLEAN, NEW open, talks => open,
         NEW msg \in [parts : Nat, complete : BOOLEAN], msg # Garbled
  PROVE  LET d == DecodeGemini(talks, msg) IN
         /\ d.frames \in Seq(Kinds) /\ d.talking \in BOOLEAN
         /\ Ready(d.frames, d.talking, open)
<1>. DEFINE begin == IF msg.parts > 0 /\ ~talks THEN <<"turn_start">> ELSE << >>
            audio == [k \in 1 .. msg.parts |-> "agent"]
            end == IF msg.complete THEN <<"turn_end">> ELSE << >>
            said == begin \o audio
            frames == said \o end
            talksOn == (talks \/ msg.parts > 0) /\ ~msg.complete
<1>1. begin \in Seq(Kinds) /\ end \in Seq(Kinds)
  <2>1. <<"turn_start">> \in Seq(Kinds) /\ <<"turn_end">> \in Seq(Kinds)
    BY Singleton DEF Kinds
  <2>. QED
    BY <2>1, NoFrames
<1>2. /\ audio \in Seq(Kinds) /\ Len(audio) = msg.parts
      /\ \A k \in 1 .. msg.parts : audio[k] = "agent"
  <2>1. audio = [k \in 1 .. msg.parts |-> "agent"] /\ msg.parts \in Nat /\ "agent" \in Kinds
    BY DEF Kinds
  <2>. HIDE DEF audio
  <2>. QED
    BY <2>1, Repeated
<1>3. /\ Len(begin) = IF msg.parts > 0 /\ ~talks THEN 1 ELSE 0
      /\ msg.parts > 0 /\ ~talks => begin[1] = "turn_start"
      /\ Len(end) = IF msg.complete THEN 1 ELSE 0
      /\ msg.complete => end[1] = "turn_end"
  BY Singleton, NoFrames
<1>. HIDE DEF begin, audio, end
<1>4. /\ said \in Seq(Kinds) /\ Len(said) = Len(begin) + msg.parts
      /\ Len(begin) = 1 => said[1] = "turn_start"
      /\ \A k \in 1 .. Len(said) : k > Len(begin) => said[k] = "agent"
  <2>1. /\ said \in Seq(Kinds) /\ Len(said) = Len(begin) + Len(audio)
        /\ \A k \in 1 .. Len(begin) + Len(audio) :
             said[k] = IF k <= Len(begin) THEN begin[k] ELSE audio[k - Len(begin)]
    <3>1. said = begin \o audio
      OBVIOUS
    <3>2. begin \in Seq(Kinds) /\ audio \in Seq(Kinds)
      BY <1>1, <1>2
    <3>. HIDE DEF said
    <3>. QED
      BY <3>1, <3>2, Concatenated, Zenon
  <2>. HIDE DEF said
  <2>. QED
    BY <1>2, <1>3, <2>1
<1>. HIDE DEF said
<1>5. /\ frames \in Seq(Kinds) /\ Len(frames) = Len(said) + Len(end)
      /\ \A k \in 1 .. Len(said) : frames[k] = said[k]
      /\ \A k \in 1 .. Len(frames) : k > Len(said) => frames[k] = "turn_end"
  <2>1. /\ frames \in Seq(Kinds) /\ Len(frames) = Len(said) + Len(end)
        /\ \A k \in 1 .. Len(said) + Len(end) :
             frames[k] = IF k <= Len(said) THEN said[k] ELSE end[k - Len(said)]
    <3>1. frames = said \o end
      OBVIOUS
    <3>2. said \in Seq(Kinds) /\ end \in Seq(Kinds)
      BY <1>1, <1>4
    <3>. HIDE DEF frames
    <3>. QED
      BY <3>1, <3>2, Concatenated, Zenon
  <2>. HIDE DEF frames
  <2>. QED
    BY <1>2, <1>3, <1>4, <2>1
<1>6. DecodeGemini(talks, msg) = Decoded(frames, talksOn)
  BY DEF DecodeGemini, GeminiAudio, begin, audio, end, said
<1>. HIDE DEF frames
<1>7. \A k \in 1 .. Len(said) : frames[k] # "turn_end"
  BY <1>1, <1>3, <1>4, <1>5
<1>8. ASSUME NEW i \in 0 .. Len(said), talks \/ i > 0
      PROVE  OpenAfter(frames, i, open)
  <2>1. CASE talks
    BY <1>4, <1>7, <2>1 DEF OpenAfter
  <2>2. CASE ~talks
    <3>1. 1 \in 1 .. i /\ frames[1] = "turn_start"
      BY <1>1, <1>3, <1>4, <1>5, <1>8, <2>2
    <3>2. \A k \in 1 .. i : frames[k] # "turn_end"
      BY <1>4, <1>7
    <3>. QED
      BY <3>1, <3>2 DEF OpenAfter
  <2>. QED
    BY <2>1, <2>2
<1>9. ASSUME NEW i \in 1 .. Len(frames), frames[i] = "agent"
      PROVE  OpenAfter(frames, i, open)
  <2>1. i \in 0 .. Len(said) /\ i > 0
    BY <1>1, <1>4, <1>5, <1>9
  <2>. QED
    BY <1>8, <2>1
<1>10. ASSUME talksOn PROVE OpenAfter(frames, Len(frames), open)
  <2>1. Len(frames) \in 0 .. Len(said) /\ (talks \/ Len(frames) > 0)
    BY <1>1, <1>3, <1>4, <1>5, <1>10
  <2>. QED
    BY <1>8, <2>1
<1>11. Ready(frames, talksOn, open)
  BY <1>9, <1>10 DEF Ready
<1>. QED
  BY <1>5, <1>6, <1>11 DEF Decoded

-----------------------------------------------------------------------------
(* The steps.                                                              *)

LEMMA ReadsKeeps ==
  ASSUME TurnsInv, codec = "gemini-live", NEW s \in Sessions, PumpReads(s)
  PROVE  TurnsInv'
<1>1. PICK msg \in Messages(codec) :
        LET d == DecodeRecv(codec, talking[s], msg) IN
        /\ talking' = [talking EXCEPT ![s] = d.talking]
        /\ IF d.ok
           THEN /\ pending' = [pending EXCEPT ![s] = d.frames]
                /\ UNCHANGED <<obsTurn, log>>
           ELSE UNCHANGED <<pending, obsTurn, log>>
  BY DEF PumpReads, PumpEnds
<1>2. /\ talking[s] \in BOOLEAN /\ pending[s] = << >>
      /\ \A t \in Sessions :
           Bracketed(log[t]) /\ Ready(pending[t], talking[t], InTurn(log[t], obsTurn[t]))
  BY DEF TurnsInv, PumpReads
<1>3. UNCHANGED <<obsTurn, log>>
  BY <1>1
<1>4. CASE msg = Garbled
  <2>1. DecodeRecv(codec, talking[s], msg) = Undecodable(talking[s])
    BY <1>4 DEF DecodeRecv, DecodeGemini
  <2>2. talking' = talking /\ pending' = pending
    BY <1>1, <2>1 DEF Undecodable, TurnsInv
  <2>. QED
    BY <1>3, <2>2 DEF TurnsInv
<1>5. CASE msg # Garbled
  <2>. DEFINE d == DecodeGemini(talking[s], msg)
              open == InTurn(log[s], obsTurn[s])
  <2>1. msg \in [parts : Nat, complete : BOOLEAN]
    BY <1>5, LiveAssumption DEF Messages
  <2>2. talking[s] => open
    <3>1. Len(pending[s]) = 0 /\ 1 .. 0 = {}
      BY <1>2
    <3>2. talking[s] => OpenAfter(pending[s], 0, open)
      BY <1>2, <3>1 DEF Ready
    <3>. QED
      BY <3>1, <3>2 DEF OpenAfter
  <2>3. /\ d.frames \in Seq(Kinds) /\ d.talking \in BOOLEAN
        /\ Ready(d.frames, d.talking, open)
    <3>. HIDE DEF open
    <3>. QED
      BY <1>2, <1>5, <2>1, <2>2, DecodedReady
  <2>4. DecodeRecv(codec, talking[s], msg) = d /\ d.ok
    BY <1>5 DEF DecodeRecv, DecodeGemini, Decoded
  <2>5. /\ talking' = [talking EXCEPT ![s] = d.talking]
        /\ pending' = [pending EXCEPT ![s] = d.frames]
    BY <1>1, <2>4
  <2>6. talking' \in [Sessions -> BOOLEAN] /\ pending' \in [Sessions -> Seq(Kinds)]
    BY <2>3, <2>5 DEF TurnsInv
  <2>7. \A t \in Sessions :
          Bracketed(log'[t]) /\ Ready(pending'[t], talking'[t], InTurn(log'[t], obsTurn'[t]))
    <3>. TAKE t \in Sessions
    <3>. HIDE DEF d
    <3>1. CASE t = s
      BY <1>2, <1>3, <2>3, <2>5, <3>1 DEF TurnsInv
    <3>2. CASE t # s
      BY <1>2, <1>3, <2>5, <3>2 DEF TurnsInv
    <3>. QED
      BY <3>1, <3>2
  <2>. QED
    BY <1>3, <2>6, <2>7 DEF TurnsInv
<1>. QED
  BY <1>4, <1>5

LEMMA LogsKeeps ==
  ASSUME TurnsInv, NEW s \in Sessions, PumpLogs(s)
  PROVE  TurnsInv'
<1>. DEFINE kind == Head(pending[s])
            turn == obsTurn[s] + (IF kind = "turn_start" THEN 1 ELSE 0)
            e == [kind |-> kind, turn |-> turn]
            before == InTurn(log[s], obsTurn[s])
            after == InTurn(Append(log[s], e), turn)
<1>1. /\ obsTurn' = [obsTurn EXCEPT ![s] = turn]
      /\ log' = [log EXCEPT ![s] = Append(log[s], e)]
      /\ pending' = [pending EXCEPT ![s] = Tail(pending[s])]
      /\ talking' = talking
  BY DEF PumpLogs, TurnsInv
<1>2. /\ pending[s] \in Seq(Kinds) /\ pending[s] # << >>
      /\ log[s] \in Seq(Entries) /\ obsTurn[s] \in Nat
      /\ Bracketed(log[s]) /\ Ready(pending[s], talking[s], before)
  BY DEF TurnsInv, PumpLogs
<1>3. /\ kind \in Kinds /\ kind = pending[s][1] /\ Len(pending[s]) \in Nat \ {0}
      /\ Tail(pending[s]) \in Seq(Kinds)
  <2>1. /\ kind \in Kinds /\ Tail(pending[s]) \in Seq(Kinds)
        /\ Len(pending[s]) \in Nat /\ Len(pending[s]) # 0
    BY <1>2, HeadTailProperties, LenProperties, EmptySeq
  <2>2. kind = pending[s][1]
    BY <1>2
  <2>. QED
    BY <2>1, <2>2
<1>4. turn \in Nat /\ e \in Entries /\ (kind # "turn_start" => turn = obsTurn[s])
  BY <1>2, <1>3 DEF Entries
<1>5. kind = "agent" => before
  <2>1. kind = "agent" => OpenAfter(pending[s], 1, before)
    BY <1>2, <1>3 DEF Ready
  <2>. QED
    BY <1>3, <2>1 DEF OpenAfter
<1>6. kind = "turn_start" => after
  BY <1>2, <1>4, AppendInTurn
<1>7. before /\ kind # "turn_end" => after
  <2>1. ASSUME before, kind # "turn_end", kind # "turn_start" PROVE after
    <3>1. InTurn(log[s], turn) /\ e.kind # "turn_end"
      BY <1>4, <2>1
    <3>. QED
      BY <1>2, <1>4, <3>1, AppendInTurn
  <2>. QED
    BY <1>6, <2>1
<1>8. Bracketed(Append(log[s], e))
  <2>1. e.kind = "agent" => InTurn(log[s], e.turn)
    BY <1>4, <1>5
  <2>. QED
    BY <1>2, <1>4, <2>1, AppendBracketed
<1>9. Ready(Tail(pending[s]), talking[s], after)
  <2>. HIDE DEF before, after
  <2>. QED
    BY <1>2, <1>3, <1>6, <1>7, TailReady
<1>10. Append(log[s], e) \in Seq(Entries)
  BY <1>2, <1>4
<1>. HIDE DEF turn, e
<1>11. /\ talking' \in [Sessions -> BOOLEAN] /\ pending' \in [Sessions -> Seq(Kinds)]
       /\ obsTurn' \in [Sessions -> Nat] /\ log' \in [Sessions -> Seq(Entries)]
  BY <1>1, <1>3, <1>4, <1>10 DEF TurnsInv
<1>12. ASSUME NEW t \in Sessions
       PROVE  /\ Bracketed(log'[t])
              /\ Ready(pending'[t], talking'[t], InTurn(log'[t], obsTurn'[t]))
  <2>1. CASE t = s
    BY <1>1, <1>8, <1>9, <2>1 DEF TurnsInv
  <2>2. CASE t # s
    BY <1>1, <2>2 DEF TurnsInv
  <2>. QED
    BY <2>1, <2>2
<1>. QED
  BY <1>11, <1>12 DEF TurnsInv

(* The other steps leave the codecs and the logs alone. *)
LEMMA TurnsStep ==
  ASSUME GeminiInv, [Next]_vars
  PROVE  GeminiInv'
<1>. DEFINE alone == UNCHANGED <<codec, talking, pending, obsTurn, log>>
<1>1. CASE alone
  BY <1>1 DEF GeminiInv, TurnsInv
<1>2. ASSUME NEW s \in Sessions, PumpReads(s) PROVE GeminiInv'
  BY <1>2, ReadsKeeps DEF GeminiInv, PumpReads, ctxVars
<1>3. ASSUME NEW s \in Sessions, PumpFails(s) PROVE GeminiInv'
  BY <1>1, <1>3 DEF PumpFails, PumpEnds, ctxVars
<1>4. ASSUME NEW s \in Sessions, PumpLogs(s) PROVE GeminiInv'
  BY <1>4, LogsKeeps DEF GeminiInv, PumpLogs, ctxVars
<1>5. CASE BoundPasses \/ DialConnects \/ HandshakeEnds \/ Launch \/ ContextEnds \/ CloseOne
             \/ Returns
  <2>1. alone
    BY <1>5 DEF BoundPasses, DialConnects, HandshakeEnds, Launch, ContextEnds, CloseOne,
                Returns, ctxVars, pumpVars
  <2>. QED
    BY <1>1, <2>1
<1>6. CASE Interrupt \/ TimeoutPasses
  <2>1. alone
    BY <1>6 DEF Interrupt, TimeoutPasses, CtxEnds, liveVars, ctxVars, pumpVars
  <2>. QED
    BY <1>1, <2>1
<1>7. CASE BadUsage \/ LoadFails \/ RunExits \/ SaveExits \/ CheckExits \/ CompareExits
             \/ UNCHANGED vars
  <2>1. UNCHANGED liveVars
    BY <1>7 DEF BadUsage, LoadFails, RunExits, SaveExits, CheckExits, CompareExits, vars
  <2>. QED
    BY <1>1, <2>1 DEF liveVars, ctxVars, pumpVars
<1>8. CASE StartsLive \/ OfflineReturns
  <2>1. alone
    BY <1>8 DEF StartsLive, OfflineReturns, ctxVars, pumpVars
  <2>. QED
    BY <1>1, <2>1
<1>. QED
  BY <1>2, <1>3, <1>4, <1>5, <1>6, <1>7, <1>8 DEF Next, LiveNext, Done

LEMMA TurnsStart == Init => GeminiInv
<1>. SUFFICES ASSUME Init PROVE TurnsInv
  BY DEF GeminiInv
<1>1. /\ talking = [s \in Sessions |-> FALSE] /\ pending = [s \in Sessions |-> << >>]
      /\ obsTurn = [s \in Sessions |-> 0] /\ log = [s \in Sessions |-> << >>]
  BY DEF Init, LiveInit
<1>2. Bracketed(<< >>) /\ Ready(<< >>, FALSE, InTurn(<< >>, 0))
  BY DEF Bracketed, Ready
<1>3. << >> \in Seq(Kinds) /\ << >> \in Seq(Entries) /\ 0 \in Nat
  BY EmptySeq
<1>4. /\ talking \in [Sessions -> BOOLEAN] /\ pending \in [Sessions -> Seq(Kinds)]
      /\ obsTurn \in [Sessions -> Nat] /\ log \in [Sessions -> Seq(Entries)]
  BY <1>1, <1>3
<1>5. ASSUME NEW s \in Sessions
      PROVE  Bracketed(log[s]) /\ Ready(pending[s], talking[s], InTurn(log[s], obsTurn[s]))
  <2>1. log[s] = << >> /\ pending[s] = << >> /\ talking[s] = FALSE /\ obsTurn[s] = 0
    BY <1>1
  <2>. QED
    BY <1>2, <2>1
<1>. QED
  BY <1>4, <1>5 DEF TurnsInv

(* Every frame of audio that a Gemini endpoint sends is logged after a     *)
(* TurnStart of its turn and before the TurnEnd, though the endpoint       *)
(* announces no turn and may put one into several messages                 *)
(* (ws_codec.go:59).                                                       *)
THEOREM AudioIsInTurns == Spec => []AudioInTurns
<1>1. GeminiInv => AudioInTurns
  <2>. SUFFICES ASSUME TurnsInv, NEW s \in Sessions, NEW i \in DOMAIN log[s],
                       log[s][i].kind = "agent"
                PROVE  \E j \in 1 .. i - 1 :
                         /\ log[s][j] = [kind |-> "turn_start", turn |-> log[s][i].turn]
                         /\ \A k \in j .. i : log[s][k].kind # "turn_end"
    BY DEF GeminiInv, AudioInTurns
  <2>1. Bracketed(log[s]) /\ i \in 1 .. Len(log[s])
    BY LenProperties DEF TurnsInv
  <2>. QED
    BY <2>1 DEF Bracketed
<1>. QED
  BY <1>1, TurnsStart, TurnsStep, PTL DEF Spec

-----------------------------------------------------------------------------
(* The p95.                                                                *)

(* s holds the values of v, each once, in ascending order: p says which.   *)
InOrder(s, v, p) ==
  LET n == Len(v) IN
  /\ n \in Nat /\ DOMAIN v = 1 .. n /\ DOMAIN s = 1 .. n /\ Len(s) = n
  /\ p \in [1 .. n -> 1 .. n]
  /\ \A i, j \in 1 .. n : p[i] = p[j] => i = j
  /\ \A k \in 1 .. n : \E i \in 1 .. n : p[i] = k
  /\ \A i \in 1 .. n : s[i] = v[p[i]] /\ s[i] \in Nat /\ v[i] \in Nat
  /\ \A i, j \in 1 .. n : i < j => s[i] <= s[j]

LEMMA SortedInOrder ==
  ASSUME NEW v \in Seq(Nat)
  PROVE  \E p : InOrder(Sorted(v), v, p)
<1> DEFINE n == Len(v)
<1>1. n \in Nat /\ DOMAIN v = 1 .. n /\ \A i \in 1 .. n : v[i] \in Nat
  BY LenProperties, ElementOfSeq
<1>. HIDE DEF n
<1>2. IsFiniteSet(1 .. n) /\ Cardinality(1 .. n) = n
  BY <1>1, FS_Interval
<1> DEFINE C == {q \in Injection(1 .. n, 1 .. n) : Ascends(v, q)}
<1>3. C # {}
  <2>1. PICK p : SortsSet(p, v, 1 .. n)
    BY <1>1, <1>2, SortingExists
  <2>2. p \in Injection(1 .. n, 1 .. n) /\ Ascends(v, p)
    BY <1>1, <1>2, <2>1 DEF SortsSet, Injection, IsInjective, Ascends
  <2>. QED
    BY <2>2
<1> DEFINE p == CHOOSE q \in Injection(1 .. n, 1 .. n) : Ascends(v, q)
<1>4. p \in Injection(1 .. n, 1 .. n) /\ Ascends(v, p)
  BY <1>3
<1>5. Sorted(v) = [k \in 1 .. n |-> v[p[k]]]
  BY <1>1 DEF Sorted
<1>. HIDE DEF p
<1>6. p \in [1 .. n -> 1 .. n] /\ \A i, j \in 1 .. n : p[i] = p[j] => i = j
  BY <1>4 DEF Injection, IsInjective
<1>7. \A k \in 1 .. n : \E i \in 1 .. n : p[i] = k
  BY <1>2, <1>6, OntoItself
<1>8. \A i \in 1 .. n : Sorted(v)[i] = v[p[i]] /\ Sorted(v)[i] \in Nat
  BY <1>1, <1>5, <1>6
<1>9. \A i, j \in 1 .. n : i < j => Sorted(v)[i] <= Sorted(v)[j]
  BY <1>1, <1>4, <1>8 DEF Ascends
<1>10. DOMAIN Sorted(v) = 1 .. n /\ Len(Sorted(v)) = n
  <2>1. Sorted(v) \in [1 .. n -> Nat]
    BY <1>1, <1>5, <1>6
  <2>. QED
    BY <1>1, <2>1
<1>11. InOrder(Sorted(v), v, p)
  BY <1>1, <1>6, <1>7, <1>8, <1>9, <1>10 DEF InOrder, n
<1>. QED
  BY <1>11

(* The values up to x are the first of the sorted ones.                    *)
LEMMA NotAboveFirst ==
  ASSUME NEW s, NEW v, NEW p, InOrder(s, v, p), NEW x \in Nat
  PROVE  /\ NotAbove(v, x) \in 0 .. Len(v)
         /\ \A i \in 1 .. Len(v) : s[i] <= x <=> i <= NotAbove(v, x)
<1> DEFINE n == Len(v)
           T == {i \in 1 .. n : s[i] <= x}
           U == {k \in DOMAIN v : v[k] <= x}
           f == [i \in T |-> p[i]]
<1>1. /\ n \in Nat /\ DOMAIN v = 1 .. n /\ p \in [1 .. n -> 1 .. n]
      /\ \A i, j \in 1 .. n : p[i] = p[j] => i = j
      /\ \A k \in 1 .. n : \E i \in 1 .. n : p[i] = k
      /\ \A i \in 1 .. n : s[i] = v[p[i]] /\ s[i] \in Nat /\ v[i] \in Nat
      /\ \A i, j \in 1 .. n : i < j => s[i] <= s[j]
  BY DEF InOrder
<1>. HIDE DEF n
<1>2. T \in SUBSET (1 .. n) /\ IsFiniteSet(T)
  <2>1. IsFiniteSet(1 .. n)
    BY <1>1, FS_Interval
  <2>. QED
    BY <2>1, FS_Subset
<1>3. ASSUME NEW j \in T, NEW i \in 1 .. n, i < j PROVE i \in T
  <2>1. s[i] <= s[j] /\ s[j] <= x /\ s[i] \in Nat /\ s[j] \in Nat
    BY <1>1, <1>3
  <2>. QED
    BY <2>1
<1>4. /\ Cardinality(T) \in 0 .. n
      /\ \A i \in 1 .. n : i \in T <=> i <= Cardinality(T)
  <2>. HIDE DEF T
  <2>. QED
    BY <1>1, <1>2, <1>3, InitialSegment
<1>5. Cardinality(U) = Cardinality(T)
  <2>1. f \in [T -> U]
    BY <1>1
  <2>2. \A i, j \in T : f[i] = f[j] => i = j
    BY <1>1
  <2>3. \A k \in U : \E i \in T : f[i] = k
    BY <1>1
  <2>. HIDE DEF f, T, U
  <2>. QED
    BY <1>2, <2>1, <2>2, <2>3, SameSize
<1>6. NotAbove(v, x) = Cardinality(U)
  BY DEF NotAbove
<1>. QED
  BY <1>4, <1>5, <1>6 DEF n

LEMMA RankFacts ==
  ASSUME NEW n \in Nat \ {0}
  PROVE  Rank(n, 95) \in 1 .. n /\ 100 * Rank(n, 95) >= 95 * n /\ 100 * (Rank(n, 95) - 1) < 95 * n
BY DEF Rank, EarlierOf, LaterOf

(* The value at the nearest rank is the least that 95 in 100 do not        *)
(* exceed.                                                                 *)
LEMMA NearestRankIsP95 ==
  ASSUME NEW v \in Seq(Nat), v # << >>
  PROVE  LET least == {v[k] : k \in {j \in DOMAIN v : 100 * NotAbove(v, v[j]) >= 95 * Len(v)}}
         IN  nearestRank(Sorted(v), 95) = Min(least) /\ Min(least) \in Nat
<1> DEFINE s == Sorted(v)
           n == Len(v)
           r == Rank(n, 95)
           J == {j \in DOMAIN v : 100 * NotAbove(v, v[j]) >= 95 * n}
           least == {v[k] : k \in J}
<1>1. PICK p : InOrder(s, v, p)
  BY SortedInOrder
<1>2. /\ n \in Nat /\ DOMAIN v = 1 .. n /\ Len(s) = n /\ p \in [1 .. n -> 1 .. n]
      /\ \A i \in 1 .. n : s[i] = v[p[i]] /\ s[i] \in Nat /\ v[i] \in Nat
      /\ \A k \in 1 .. n : \E i \in 1 .. n : p[i] = k
  BY <1>1 DEF InOrder
<1>3. n # 0
  BY EmptySeq, LenProperties
<1>4. r \in 1 .. n /\ 100 * r >= 95 * n /\ 100 * (r - 1) < 95 * n
  BY <1>2, <1>3, RankFacts
<1>5. \A x \in Nat : /\ NotAbove(v, x) \in 0 .. n
                     /\ \A i \in 1 .. n : s[i] <= x <=> i <= NotAbove(v, x)
  BY <1>1, NotAboveFirst
<1>6. nearestRank(s, 95) = s[r]
  BY <1>2 DEF nearestRank
<1>. HIDE DEF s, n, r, J
<1>7. s[r] \in least
  <2>1. s[r] \in Nat /\ r \in Nat
    <3>1. r \in 1 .. n
      BY <1>4
    <3>2. s[r] \in Nat
      BY <1>2, <3>1
    <3>. QED
      BY <1>2, <3>1, <3>2
  <2>2. 100 * NotAbove(v, s[r]) >= 95 * n
    <3>1. NotAbove(v, s[r]) \in 0 .. n /\ (s[r] <= s[r] <=> r <= NotAbove(v, s[r]))
      BY <1>4, <1>5, <2>1
    <3>2. s[r] <= s[r]
      BY <2>1
    <3>. QED
      BY <1>2, <1>4, <2>1, <3>1, <3>2
  <2>3. p[r] \in DOMAIN v /\ s[r] = v[p[r]]
    BY <1>2, <1>4
  <2>4. p[r] \in J
    BY <2>2, <2>3 DEF J
  <2>. QED
    BY <2>3, <2>4
<1>8. ASSUME NEW k \in J PROVE s[r] <= v[k]
  <2>1. k \in 1 .. n /\ v[k] \in Nat /\ 100 * NotAbove(v, v[k]) >= 95 * n
    BY <1>2 DEF J
  <2>2. NotAbove(v, v[k]) \in 0 .. n /\ (s[r] <= v[k] <=> r <= NotAbove(v, v[k]))
    BY <1>4, <1>5, <2>1
  <2>3. r <= NotAbove(v, v[k])
    BY <1>2, <1>4, <2>1, <2>2
  <2>. QED
    BY <2>2, <2>3
<1>9. least \in SUBSET Nat /\ least # {}
  BY <1>2, <1>7 DEF J
<1>10. \A y \in least : s[r] <= y
  BY <1>8
<1>. HIDE DEF least
<1>11. Min(least) \in least /\ \A y \in least : Min(least) <= y
  BY <1>9, MinFacts
<1>12. Min(least) = s[r] /\ Min(least) \in Nat
  <2>1. Min(least) <= s[r] /\ s[r] <= Min(least) /\ Min(least) \in Nat /\ s[r] \in Nat
    BY <1>7, <1>9, <1>10, <1>11
  <2>. QED
    BY <2>1
<1>. QED
  BY <1>6, <1>12 DEF least, J, s, n

-----------------------------------------------------------------------------
(* Sums: the aggregate's, in the order of the sessions, and the property's *)
(* in any order.                                                           *)

LEMMA TotalCounts ==
  ASSUME NEW v \in Seq(Nat)
  PROVE  Total(v) = Cardinality(Units(v, DOMAIN v)) /\ Total(v) \in Nat
<1> DEFINE S == DOMAIN v
           c == [s \in SUBSET S |-> Max(s)]
           Step(g) == [s \in SUBSET S |-> IF s = {} THEN 0 ELSE g[s \ {Max(s)}] + v[Max(s)]]
<1>1. IsFiniteSet(S) /\ \A k \in S : v[k] \in Nat
  <2>1. Len(v) \in Nat /\ S = 1 .. Len(v)
    BY LenProperties
  <2>2. IsFiniteSet(S)
    BY <2>1, FS_Interval
  <2>3. \A k \in S : v[k] \in Nat
    BY <2>1, ElementOfSeq
  <2>. QED
    BY <2>2, <2>3
<1>2. ASSUME NEW s \in SUBSET S, s # {} PROVE c[s] \in s
  <2>1. Len(v) \in Nat /\ s \in SUBSET Nat /\ \A y \in s : y <= Len(v)
    BY LenProperties
  <2>2. Max(s) \in s
    BY <1>2, <2>1, MaxBounded
  <2>. QED
    BY <2>2
<1>3. ASSUME NEW g PROVE Step(g) = [s \in SUBSET S |-> IF s = {} THEN 0
                                                       ELSE g[s \ {c[s]}] + v[c[s]]]
  OBVIOUS
<1> DEFINE h == CHOOSE g : g = Step(g)
<1>4. Total(v) = h[S]
  BY DEF Total, FoldLeft, MapThenFoldSet
<1>. HIDE DEF S, c, Step
<1>5. PICK g : g = Step(g)
  <2>1. \E g : IsFoldLeft(g, v, S, c)
    BY <1>1, <1>2, FoldLeftExists
  <2>. QED
    BY <1>3, <2>1 DEF IsFoldLeft
<1>6. h = Step(h)
  BY <1>5
<1>. HIDE DEF h
<1>7. IsFoldLeft(h, v, S, c)
  BY <1>3, <1>6 DEF IsFoldLeft
<1>8. h[S] = Cardinality(Units(v, S)) /\ h[S] \in Nat
  BY <1>1, <1>2, <1>7, FoldCounts
<1>. QED
  BY <1>4, <1>8 DEF S

(* A sum does not depend on the order.                                     *)
LEMMA SortedTotal ==
  ASSUME NEW v \in Seq(Nat)
  PROVE  Total(Sorted(v)) = Total(v)
<1> DEFINE s == Sorted(v)
           n == Len(v)
<1>1. PICK p : InOrder(s, v, p)
  BY SortedInOrder
<1>2. /\ n \in Nat /\ DOMAIN v = 1 .. n /\ DOMAIN s = 1 .. n
      /\ p \in [1 .. n -> 1 .. n]
      /\ \A i, j \in 1 .. n : p[i] = p[j] => i = j
      /\ \A k \in 1 .. n : \E i \in 1 .. n : p[i] = k
      /\ \A i \in 1 .. n : s[i] = v[p[i]] /\ s[i] \in Nat
  BY <1>1 DEF InOrder
<1>3. s \in Seq(Nat)
  <2>1. s = [k \in 1 .. n |-> s[k]]
    BY <1>2 DEF Sorted
  <2>. HIDE DEF s
  <2>2. s \in [1 .. n -> Nat]
    BY <1>2, <2>1
  <2>. QED
    BY <1>2, <2>2, SeqDef
<1>4. /\ Total(s) = Cardinality(Units(s, 1 .. n))
      /\ Total(v) = Cardinality(Units(v, 1 .. n))
  BY <1>2, <1>3, TotalCounts
<1>5. IsFiniteSet(Units(s, 1 .. n))
  <2>1. IsFiniteSet(1 .. n)
    BY <1>2, FS_Interval
  <2>2. \A i \in 1 .. n : s[i] \in Nat
    BY <1>2
  <2>. HIDE DEF s, n
  <2>. QED
    BY <2>1, <2>2, UnitsFinite
<1>. HIDE DEF s, n
<1> DEFINE S == Units(s, 1 .. n)
           T == Units(v, 1 .. n)
           f == [u \in S |-> <<p[u[1]], u[2]>>]
<1>6. f \in [S -> T]
  <2>1. ASSUME NEW u \in S PROVE <<p[u[1]], u[2]>> \in T
    <3>1. u[1] \in 1 .. n /\ u[2] \in Nat /\ u[2] \in 1 .. s[u[1]]
      BY DEF Units
    <3>2. p[u[1]] \in 1 .. n /\ s[u[1]] = v[p[u[1]]]
      BY <1>2, <3>1
    <3>. QED
      BY <3>1, <3>2 DEF Units
  <2>. HIDE DEF T, S
  <2>. QED
    BY <2>1
<1>7. ASSUME NEW x \in S, NEW y \in S, f[x] = f[y] PROVE x = y
  <2>1. /\ x = <<x[1], x[2]>> /\ x[1] \in 1 .. n
        /\ y = <<y[1], y[2]>> /\ y[1] \in 1 .. n
    BY DEF Units
  <2>2. p[x[1]] = p[y[1]] /\ x[2] = y[2]
    BY <1>7
  <2>3. x[1] = y[1]
    BY <1>2, <2>1, <2>2
  <2>. QED
    BY <2>1, <2>2, <2>3
<1>8. ASSUME NEW t \in T PROVE \E u \in S : f[u] = t
  <2>1. t = <<t[1], t[2]>> /\ t[1] \in 1 .. n /\ t[2] \in Nat /\ t[2] \in 1 .. v[t[1]]
    BY DEF Units
  <2>2. PICK i \in 1 .. n : p[i] = t[1] /\ s[i] = v[t[1]]
    BY <1>2, <2>1
  <2>3. <<i, t[2]>> \in S
    BY <2>1, <2>2 DEF Units
  <2>4. f[<<i, t[2]>>] = t
    BY <2>1, <2>2, <2>3
  <2>. QED
    BY <2>3, <2>4
<1>9. Cardinality(T) = Cardinality(S)
  <2>. HIDE DEF S, T, f
  <2>. QED
    BY <1>5, <1>6, <1>7, <1>8, SameSize DEF S
<1>. QED
  BY <1>4, <1>9 DEF s

LEMMA SumCounts ==
  ASSUME NEW sessions, IsFiniteSet(DOMAIN sessions), NEW field,
         \A k \in DOMAIN sessions : sessions[k][field] \in Nat
  PROVE  LET v == [k \in DOMAIN sessions |-> sessions[k][field]]
         IN  SumOf(sessions, field) = Cardinality(Units(v, DOMAIN sessions))
<1> DEFINE S == DOMAIN sessions
           w == [k \in S |-> sessions[k][field]]
           c == [s \in SUBSET S |-> CHOOSE x \in s : TRUE]
           Step(g) == [s \in SUBSET S |->
                         IF s = {} THEN 0
                         ELSE w[CHOOSE x \in s : TRUE] + g[s \ {CHOOSE x \in s : TRUE}]]
<1>1. \A k \in S : w[k] \in Nat
  OBVIOUS
<1>2. \A s \in SUBSET S : s # {} => c[s] \in s /\ c[s] = CHOOSE x \in s : TRUE
  OBVIOUS
<1> DEFINE h == CHOOSE g : g = Step(g)
<1>4. SumOf(sessions, field) = h[S]
  BY DEF SumOf, MapThenSumSet, MapThenFoldSet
<1>. HIDE DEF w, c
<1>3. ASSUME NEW g PROVE Step(g) = [s \in SUBSET S |-> IF s = {} THEN 0
                                                       ELSE w[c[s]] + g[s \ {c[s]}]]
  <2>1. ASSUME NEW s \in SUBSET S, s # {}
        PROVE  w[CHOOSE x \in s : TRUE] + g[s \ {CHOOSE x \in s : TRUE}]
                 = w[c[s]] + g[s \ {c[s]}]
    <3>1. c[s] = CHOOSE x \in s : TRUE
      BY <1>2, <2>1
    <3>. QED
      BY <3>1
  <2>. HIDE DEF S
  <2>. QED
    BY <2>1
<1>. HIDE DEF S, c, Step
<1>5. PICK g : g = Step(g)
  <2>1. \E g : IsFold(g, w, S, c)
    BY <1>1, <1>2, FoldExists DEF S
  <2>. QED
    BY <1>3, <2>1 DEF IsFold
<1>6. h = Step(h)
  BY <1>5
<1>. HIDE DEF h
<1>7. IsFold(h, w, S, c)
  BY <1>3, <1>6 DEF IsFold
<1>8. h[S] = Cardinality(Units(w, S))
  BY <1>1, <1>2, <1>7, FoldCounts DEF S
<1>. QED
  BY <1>4, <1>8 DEF S, w

LEMMA TotalIsSum ==
  ASSUME NEW run \in Seq(SessionMetrics),
         NEW field \in {"DoubleTalkMs", "StallMs", "DroppedFrames"}
  PROVE  LET v == [k \in DOMAIN run |-> run[k][field]]
         IN  /\ v \in Seq(Nat) /\ Len(v) = Len(run)
             /\ Total(v) = SumOf(run, field) /\ SumOf(run, field) \in Nat
<1> DEFINE v == [k \in DOMAIN run |-> run[k][field]]
<1>1. Len(run) \in Nat /\ DOMAIN run = 1 .. Len(run)
  BY LenProperties
<1>2. \A k \in DOMAIN run : run[k][field] \in Nat
  <2> SUFFICES ASSUME NEW k \in DOMAIN run PROVE run[k][field] \in Nat
    OBVIOUS
  <2>1. run[k] \in SessionMetrics
    BY <1>1, ElementOfSeq
  <2>. QED
    BY <2>1 DEF SessionMetrics
<1>3. v \in Seq(Nat) /\ Len(v) = Len(run) /\ DOMAIN v = DOMAIN run
  BY <1>1, <1>2
<1>4. IsFiniteSet(DOMAIN run)
  BY <1>1, FS_Interval
<1>5. SumOf(run, field) = Cardinality(Units(v, DOMAIN run))
  BY <1>2, <1>4, SumCounts
<1>. HIDE DEF v
<1>6. Total(v) = Cardinality(Units(v, DOMAIN v)) /\ Total(v) \in Nat
  BY <1>3, TotalCounts
<1>. QED
  BY <1>3, <1>5, <1>6 DEF v

-----------------------------------------------------------------------------
(* What the gate compares.                                                 *)

LEMMA FlattenTyped ==
  ASSUME NEW x \in Seq(Seq(Nat)), x # << >>
  PROVE  FlattenSeq(x) \in Seq(Nat)
<1> DEFINE n == Len(x)
           Next1(f, i) == IF i = 1 THEN x[i] ELSE f[i - 1] \o x[i]
           To(k) == {f \in [1 .. k -> Seq(Nat)] : \A i \in 1 .. k : f[i] = Next1(f, i)}
           S == {k \in Nat : k <= n => To(k) # {}}
<1>1. n \in Nat \ {0} /\ \A i \in 1 .. n : x[i] \in Seq(Nat)
  BY EmptySeq, LenProperties, ElementOfSeq
<1>. HIDE DEF n
<1>2. 0 \in S
  <2>1. [i \in 1 .. 0 |-> << >>] \in To(0)
    OBVIOUS
  <2>. QED
    BY <2>1
<1>3. ASSUME NEW k \in Nat, k \in S PROVE k + 1 \in S
  <2> SUFFICES ASSUME k + 1 <= n PROVE To(k + 1) # {}
    <3>. HIDE DEF To
    <3>. QED
      OBVIOUS
  <2>1. PICK f : f \in To(k)
    <3>1. k <= n
      BY <1>1
    <3>. HIDE DEF To
    <3>. QED
      BY <1>3, <3>1
  <2> DEFINE e == IF k = 0 THEN x[1] ELSE f[k] \o x[k + 1]
             g == [i \in 1 .. k + 1 |-> IF i = k + 1 THEN e ELSE f[i]]
  <2>2. e \in Seq(Nat)
    <3>1. x[1] \in Seq(Nat) /\ x[k + 1] \in Seq(Nat)
      BY <1>1
    <3>2. k # 0 => f[k] \in Seq(Nat)
      BY <2>1
    <3>3. k # 0 => f[k] \o x[k + 1] \in Seq(Nat)
      BY <3>1, <3>2, ConcatProperties
    <3>. QED
      BY <3>1, <3>3
  <2>3. g \in [1 .. k + 1 -> Seq(Nat)]
    <3>. HIDE DEF e
    <3>. QED
      BY <2>1, <2>2
  <2>4. ASSUME NEW i \in 1 .. k + 1 PROVE g[i] = Next1(g, i)
    <3>1. CASE i = k + 1 /\ k = 0
      BY <3>1
    <3>2. CASE i = k + 1 /\ k # 0
      <4>1. e = f[k] \o x[k + 1]
        BY <3>2
      <4>. HIDE DEF e
      <4>2. g[k + 1] = e /\ g[k] = f[k] /\ k + 1 # 1 /\ k + 1 - 1 = k
        BY <3>2
      <4>3. Next1(g, k + 1) = g[k] \o x[k + 1]
        <5>. HIDE DEF g
        <5>1. \A j : j # 1 => Next1(g, j) = g[j - 1] \o x[j]
          OBVIOUS
        <5> DEFINE j == k + 1
        <5>2. j # 1 /\ j - 1 = k
          BY <4>2
        <5>. HIDE DEF Next1, j
        <5>3. Next1(g, j) = g[k] \o x[j]
          BY <5>1, <5>2
        <5>. QED
          BY <5>3 DEF j
      <4>. HIDE DEF g, Next1
      <4>. QED
        BY <3>2, <4>1, <4>2, <4>3
    <3>3. CASE i \in 1 .. k
      <4>1. f[i] = Next1(f, i)
        BY <2>1, <3>3
      <4>. HIDE DEF e
      <4>2. g[i] = f[i] /\ (i # 1 => g[i - 1] = f[i - 1])
        BY <3>3
      <4>. QED
        BY <4>1, <4>2
    <3>. QED
      BY <3>1, <3>2, <3>3
  <2>. HIDE DEF g
  <2>. QED
    BY <2>3, <2>4
<1>4. n \in S
  <2>1. \A k \in Nat : k \in S
    <3>. HIDE DEF S
    <3>. QED
      BY <1>2, <1>3, NatInduct
  <2>. QED
    BY <1>1, <2>1
<1> DEFINE Flat(f) == [i \in 1 .. n |-> Next1(f, i)]
<1>5. PICK f : f = Flat(f)
  <2>1. PICK f : f \in To(n)
    <3>. HIDE DEF To
    <3>. QED
      BY <1>1, <1>4
  <2>2. f = [i \in 1 .. n |-> f[i]] /\ \A i \in 1 .. n : f[i] = Next1(f, i)
    BY <2>1
  <2>3. f = Flat(f)
    <3>. HIDE DEF Next1
    <3>. QED
      BY <2>2
  <2>. QED
    BY <2>3
<1> DEFINE h == CHOOSE e : e = Flat(e)
<1>6. FlattenSeq(x) = h[n]
  BY <1>1 DEF FlattenSeq, n
<1>7. h = Flat(h)
  <2>. HIDE DEF Flat
  <2>. QED
    BY <1>5
<1>. HIDE DEF h
<1> DEFINE Q == {k \in Nat : k + 1 <= n => h[k + 1] \in Seq(Nat)}
<1>8. \A i \in 1 .. n : h[i] = Next1(h, i)
  BY <1>7
<1>9. 0 \in Q
  <2>1. h[1] = Next1(h, 1) /\ x[1] \in Seq(Nat)
    BY <1>1, <1>8
  <2>2. h[1] \in Seq(Nat)
    BY <2>1
  <2>. QED
    BY <2>2
<1>10. ASSUME NEW k \in Nat, k \in Q PROVE k + 1 \in Q
  <2> SUFFICES ASSUME k + 1 + 1 <= n PROVE h[k + 1 + 1] \in Seq(Nat)
    OBVIOUS
  <2>1. h[k + 1] \in Seq(Nat) /\ x[k + 1 + 1] \in Seq(Nat)
    BY <1>1, <1>10
  <2>2. h[k + 1 + 1] = h[k + 1] \o x[k + 1 + 1]
    <3>1. k + 1 + 1 \in 1 .. n /\ k + 1 + 1 # 1 /\ k + 1 + 1 - 1 = k + 1
      BY <1>1
    <3> DEFINE j == k + 1 + 1
    <3>2. \A i \in 1 .. n : i # 1 => h[i] = h[i - 1] \o x[i]
      BY <1>8
    <3>3. j \in 1 .. n /\ j # 1 /\ j - 1 = k + 1
      BY <3>1
    <3>. HIDE DEF Q, Next1, j
    <3>4. h[j] = h[k + 1] \o x[j]
      BY <3>2, <3>3
    <3>. QED
      BY <3>4 DEF j
  <2>. QED
    BY <2>1, <2>2, ConcatProperties
<1>11. n - 1 \in Q
  <2>1. \A k \in Nat : k \in Q
    <3>. HIDE DEF Q
    <3>. QED
      BY <1>9, <1>10, NatInduct
  <2>2. n - 1 \in Nat
    BY <1>1
  <2>. HIDE DEF Q
  <2>. QED
    BY <2>1, <2>2
<1>12. n - 1 + 1 = n
  BY <1>1
<1>. QED
  BY <1>1, <1>6, <1>11, <1>12

LEMMA P95Agrees ==
  ASSUME NEW run \in Seq(SessionMetrics) \ {<< >>}
  PROVE  ComputeAggregate(run).TimeToStop.P95 = P95(run) /\ P95(run) \in Nat
<1> DEFINE x == [k \in DOMAIN run |-> run[k].TimeToStopMs]
           pool == FlattenSeq(x)
<1>1. Len(run) \in Nat \ {0} /\ DOMAIN run = 1 .. Len(run)
  BY EmptySeq, LenProperties
<1>2. x \in Seq(Seq(Nat)) /\ x # << >>
  <2>1. ASSUME NEW k \in DOMAIN run PROVE run[k].TimeToStopMs \in Seq(Nat)
    <3>1. run[k] \in SessionMetrics
      BY <1>1, ElementOfSeq
    <3>. QED
      BY <3>1 DEF SessionMetrics
  <2>2. DOMAIN x = 1 .. Len(run)
    BY <1>1
  <2>. QED
    BY <1>1, <2>1, <2>2
<1>3. ComputeAggregate(run).TimeToStop = summarize(pool)
  BY DEF ComputeAggregate
<1>4. Pool(run) = pool
  BY DEF Pool
<1>. HIDE DEF x
<1>5. pool \in Seq(Nat)
  BY <1>2, FlattenTyped
<1>. HIDE DEF pool
<1>6. CASE pool = << >>
  <2>1. summarize(pool).P95 = 0
    BY <1>6 DEF summarize
  <2>. QED
    BY <1>3, <1>4, <1>6, <2>1 DEF P95
<1>7. CASE pool # << >>
  <2>1. summarize(pool).P95 = nearestRank(Sorted(pool), 95)
    BY <1>7 DEF summarize
  <2>. QED
    BY <1>3, <1>4, <1>5, <1>7, <2>1, NearestRankIsP95 DEF P95
<1>. QED
  BY <1>6, <1>7

(* Of what the gate looks at, the aggregate says what the sessions say.    *)
LEMMA AggregateAgrees ==
  ASSUME NEW run \in Runs
  PROVE  LET total == ComputeAggregate(run) IN
         /\ total.TimeToStop.P95 = P95(run) /\ P95(run) \in Nat
         /\ total.DoubleTalkMs.Sum = SumOf(run, "DoubleTalkMs")
         /\ total.StallMs = SumOf(run, "StallMs")
         /\ total.DroppedFrames = SumOf(run, "DroppedFrames")
         /\ {SumOf(run, "DoubleTalkMs"), SumOf(run, "StallMs"),
             SumOf(run, "DroppedFrames")} \subseteq Nat
<1> DEFINE Of(field) == [k \in DOMAIN run |-> run[k][field]]
<1>1. run \in Seq(SessionMetrics) \ {<< >>}
  BY CommandAssumption
<1>2. \A field \in {"DoubleTalkMs", "StallMs", "DroppedFrames"} :
        /\ Of(field) \in Seq(Nat) /\ Len(Of(field)) = Len(run)
        /\ Total(Of(field)) = SumOf(run, field) /\ SumOf(run, field) \in Nat
  BY <1>1, TotalIsSum
<1>3. /\ ComputeAggregate(run).DoubleTalkMs = summarize(Of("DoubleTalkMs"))
      /\ ComputeAggregate(run).StallMs = Total(Of("StallMs"))
      /\ ComputeAggregate(run).DroppedFrames = Total(Of("DroppedFrames"))
  BY DEF ComputeAggregate
<1>. HIDE DEF Of
<1>4. summarize(Of("DoubleTalkMs")).Sum = Total(Of("DoubleTalkMs"))
  <2>1. Len(run) # 0
    BY <1>1, EmptySeq, LenProperties
  <2>2. Of("DoubleTalkMs") # << >>
    BY <1>2, <2>1, EmptySeq
  <2>3. summarize(Of("DoubleTalkMs")).Sum = Total(Sorted(Of("DoubleTalkMs")))
    BY <2>2 DEF summarize
  <2>. QED
    BY <1>2, <2>3, SortedTotal
<1>. QED
  BY <1>1, <1>2, <1>3, <1>4, P95Agrees

-----------------------------------------------------------------------------
(* Integers.                                                               *)

LEMMA Products ==
  ASSUME NEW x \in Int, NEW y \in Int, NEW z \in Int
  PROVE  /\ x * y \in Int /\ x * y = y * x
         /\ (x + y) * z = x * z + y * z /\ (x - y) * z = x * z - y * z
         /\ (x * y) * z = x * (y * z)
OBVIOUS

LEMMA NatProduct == ASSUME NEW x \in Nat, NEW y \in Nat PROVE x * y \in Nat
OBVIOUS

LEMMA Scales ==
  ASSUME NEW x \in Int, NEW y \in Int, NEW z \in Nat, x <= y
  PROVE  x * z <= y * z
<1>1. y - x \in Nat
  OBVIOUS
<1>2. (y - x) * z \in Nat
  BY <1>1, NatProduct
<1>. QED
  BY <1>2, Products

LEMMA Unscales ==
  ASSUME NEW x \in Int, NEW y \in Int, NEW z \in Nat \ {0}, x * z <= y * z
  PROVE  x <= y
<1> SUFFICES ASSUME y + 1 <= x PROVE FALSE
  OBVIOUS
<1>1. (y + 1) * z <= x * z
  BY Scales
<1>2. (y + 1) * z = y * z + 1 * z /\ 1 * z = z
  BY Products
<1>3. y * z \in Int /\ x * z \in Int
  BY Products
<1>. QED
  BY <1>1, <1>2, <1>3

LEMMA Quotient ==
  ASSUME NEW a \in Nat, NEW u \in Nat \ {0}
  PROVE  /\ a \div u \in Nat
         /\ \A k \in Nat : k * u <= a <=> k <= a \div u
<1> DEFINE n == a \div u
<1>1. n \in Nat /\ n * u <= a /\ a < n * u + u
  OBVIOUS
<1>. HIDE DEF n
<1>2. ASSUME NEW k \in Nat, k <= n PROVE k * u <= a
  <2>1. k * u <= n * u /\ n * u \in Int /\ k * u \in Int
    BY <1>1, <1>2, Scales, Products
  <2>. QED
    BY <1>1, <2>1
<1>3. ASSUME NEW k \in Nat, n + 1 <= k PROVE a < k * u
  <2>1. (n + 1) * u <= k * u /\ (n + 1) * u = n * u + 1 * u /\ n * u \in Int /\ k * u \in Int
    BY <1>1, <1>3, Scales, Products
  <2>2. 1 * u = u
    OBVIOUS
  <2>. QED
    BY <1>1, <2>1, <2>2
<1>4. \A k \in Nat : k * u <= a <=> k <= n
  <2>1. \A k \in Nat : k * u \in Int /\ (k <= n \/ n + 1 <= k)
    BY <1>1, Products
  <2>. QED
    BY <1>2, <1>3, <2>1
<1>. QED
  BY <1>1, <1>4 DEF n

-----------------------------------------------------------------------------
(* Floats.                                                                 *)

LEMMA FloatFacts ==
  /\ \A q \in Ulps : q \in Nat \ {0}
  /\ One \in Ulps /\ One \in Nat \ {0} /\ 1 \in Ulps
  /\ Sig \in Nat \ {0} /\ Sig % 2 = 0 /\ 4 <= Sig /\ Sig <= One
  /\ Percent \in Nat \ {0}
<1>1. Ulps \subseteq Nat \ {0} /\ 1 \in Ulps /\ One \in Ulps
  BY FloatAssumption
<1>2. One \in Nat \ {0}
  BY <1>1
<1>3. Sig \in 4 .. One /\ Sig % 2 = 0 /\ Percent \in Nat \ {0}
  BY FloatAssumption
<1>. QED
  BY <1>1, <1>2, <1>3

(* Of two units in the last place, one is the other or twice a part of it. *)
LEMMA UlpsNest ==
  ASSUME NEW q \in Ulps, NEW r \in Ulps, q < r
  PROVE  \E k \in Nat \ {0} : r = k * (2 * q)
<1>1. q \in Nat \ {0} /\ r \in Nat \ {0} /\ 2 * q \in Nat \ {0}
  BY FloatFacts
<1>2. r = (r \div (2 * q)) * (2 * q)
  BY FloatAssumption
<1>3. r \div (2 * q) \in Nat
  BY <1>1, Quotient
<1>4. r \div (2 * q) # 0
  <2>1. 0 * (2 * q) = 0
    BY <1>1
  <2>. QED
    BY <1>1, <1>2, <2>1
<1>. QED
  BY <1>2, <1>3, <1>4

LEMMA UlpFacts ==
  ASSUME NEW a \in Nat, NEW b \in Nat \ {0}
  PROVE  /\ Ulp(a, b) \in Ulps
         /\ Ulp(a, b) \in Nat \ {0}
         /\ Ulp(a, b) = 1 \/ Ulp(a, b) * (b * Sig) <= 2 * a
<1> DEFINE t == (2 * a) \div (b * Sig)
           fits == {q \in Ulps : q = 1 \/ q <= t}
<1>1. b * Sig \in Nat \ {0} /\ 2 * a \in Nat
  <2>1. b * Sig # 0
    BY FloatFacts
  <2>. QED
    BY <2>1, FloatFacts, NatProduct
<1>2. t \in Nat /\ \A k \in Nat : k * (b * Sig) <= 2 * a <=> k <= t
  BY <1>1, Quotient
<1>. HIDE DEF t
<1>3. fits \in SUBSET Nat /\ fits # {} /\ \A q \in fits : q <= t + 1
  <2>1. 1 \in fits
    BY FloatFacts
  <2>2. \A q \in fits : q \in Nat /\ (q = 1 \/ q <= t)
    BY FloatFacts
  <2>. HIDE DEF fits
  <2>. QED
    BY <1>2, <2>1, <2>2
<1>4. Max(fits) \in fits
  <2>. HIDE DEF fits
  <2>1. t + 1 \in Nat
    BY <1>2
  <2>. QED
    BY <1>3, <2>1, MaxBounded
<1>5. Ulp(a, b) \in fits
  BY <1>4 DEF Ulp, t
<1>. QED
  BY <1>2, <1>5, FloatFacts

(* A float is at most half a unit in the last place from what it is        *)
(* rounded from, and not below the multiples of that unit there.           *)
LEMMA NearestFacts ==
  ASSUME NEW a \in Nat, NEW b \in Nat \ {0}
  PROVE  LET unit == Ulp(a, b) * b IN
         /\ unit \in Nat \ {0} /\ a \div unit \in Nat /\ Nearest(a, b) \in Nat
         /\ (a \div unit) * Ulp(a, b) <= Nearest(a, b)
         /\ 2 * (b * Nearest(a, b) - a) <= unit
         /\ 2 * (a - b * Nearest(a, b)) <= unit
<1> DEFINE q == Ulp(a, b)
           unit == q * b
           below == a \div unit
           rest == a - below * unit
           up == 2 * rest > unit \/ (2 * rest = unit /\ below % 2 = 1)
           n == IF up THEN below + 1 ELSE below
<1>1. q \in Nat \ {0}
  BY UlpFacts
<1>2. Nearest(a, b) = q * n
  BY DEF Nearest
<1>. HIDE DEF q
<1>3. unit \in Nat \ {0}
  BY <1>1
<1>4. below \in Nat /\ rest \in 0 .. unit - 1 /\ a = below * unit + rest /\ below * unit \in Int
  <2>. HIDE DEF unit
  <2>1. below \in Nat /\ below * unit <= a /\ ~((below + 1) * unit <= a)
    BY <1>3, Quotient
  <2>2. below * unit \in Int /\ (below + 1) * unit = below * unit + 1 * unit /\ 1 * unit = unit
    BY <1>3, <2>1, Products
  <2>. HIDE DEF below
  <2>. QED
    BY <1>3, <2>1, <2>2
<1>. HIDE DEF unit, below, rest
<1>5. n \in {below, below + 1} /\ n \in Nat
  BY <1>4
<1>6. b * Nearest(a, b) = n * unit /\ Nearest(a, b) \in Nat
  <2>. HIDE DEF n
  <2>1. q * n \in Nat /\ b * (q * n) = n * (q * b)
    BY <1>1, <1>5
  <2>. QED
    BY <1>2, <2>1 DEF unit
<1>7. below * q <= Nearest(a, b)
  <2>. HIDE DEF n
  <2>1. below * q <= n * q
    BY <1>1, <1>4, <1>5, Scales
  <2>. QED
    BY <1>1, <1>2, <1>5, <2>1, Products
<1>8. n * unit = below * unit + (IF up THEN unit ELSE 0)
  <2>1. (below + 1) * unit = below * unit + 1 * unit /\ 1 * unit = unit
    BY <1>3, <1>4, Products
  <2>. QED
    BY <1>3, <1>4, <2>1
<1>9. IF up THEN 2 * rest >= unit ELSE 2 * rest <= unit
  BY <1>3, <1>4
<1>10. 2 * (b * Nearest(a, b) - a) <= unit /\ 2 * (a - b * Nearest(a, b)) <= unit
  <2> DEFINE w == below * unit
  <2>. HIDE DEF w, n, up
  <2>1. w \in Int /\ a = w + rest /\ b * Nearest(a, b) = w + (IF up THEN unit ELSE 0)
    BY <1>4, <1>6, <1>8 DEF w
  <2>. QED
    BY <1>3, <1>4, <1>9, <2>1
<1>. QED
  BY <1>3, <1>4, <1>6, <1>7, <1>10 DEF q, unit, below

(* What is at least a float in whole numbers of One is rounded to at least *)
(* as much.                                                                *)
LEMMA NearestAtLeast ==
  ASSUME NEW a \in Nat, NEW m \in Nat, m < Sig, m * One <= a
  PROVE  m * One <= Nearest(a, 1)
<1> DEFINE q == Ulp(a, 1)
           below == a \div q
<1>1. q \in Ulps /\ q \in Nat \ {0} /\ (q = 1 \/ q * Sig <= 2 * a)
  <2>1. 1 * Sig = Sig
    BY FloatFacts
  <2>. QED
    BY <2>1, UlpFacts
<1>2. below \in Nat /\ Nearest(a, 1) \in Nat /\ below * q <= Nearest(a, 1)
  <2>1. q * 1 = q
    BY <1>1
  <2>. QED
    BY <2>1, NearestFacts
<1>. HIDE DEF q
<1>3. \A k \in Nat : k * q <= a <=> k <= below
  BY <1>1, Quotient
<1>. HIDE DEF below
<1>4. ASSUME NEW k \in Nat, k * q <= a PROVE k * q <= Nearest(a, 1)
  <2>1. k <= below
    BY <1>3, <1>4
  <2>2. k * q <= below * q /\ k * q \in Int /\ below * q \in Int
    BY <1>1, <1>2, <2>1, Scales, Products
  <2>. QED
    BY <1>2, <2>2
<1>5. CASE q <= One
  <2>1. PICK k \in Nat : One = k * q
    <3>1. CASE q = One
      <4>1. 1 * q = q
        BY <1>1
      <4>. QED
        BY <3>1, <4>1
    <3>2. CASE q < One
      <4>1. PICK k \in Nat : One = k * (2 * q)
        BY <1>1, <3>2, FloatFacts, UlpsNest
      <4>2. k * (2 * q) = (2 * k) * q /\ 2 * k \in Nat
        BY <1>1
      <4>. QED
        BY <4>1, <4>2
    <3>. QED
      BY <1>1, <1>5, <3>1, <3>2, FloatFacts
  <2>2. m * One = (m * k) * q /\ m * k \in Nat
    BY <1>1, <2>1, Products, NatProduct
  <2>. QED
    BY <1>4, <2>2
<1>6. CASE One < q
  <2>1. PICK k \in Nat \ {0} : q = k * (2 * One)
    BY <1>1, <1>6, FloatFacts, UlpsNest
  <2>2. PICK h \in Nat : Sig = 2 * h
    BY FloatFacts
  <2>3. h * q <= a
    <3>1. q * Sig <= 2 * a
      BY <1>1, <1>6, FloatFacts
    <3>2. q * Sig = 2 * (h * q) /\ h * q \in Nat
      BY <1>1, <2>2
    <3>. QED
      BY <3>1, <3>2
  <2>4. h * q <= Nearest(a, 1)
    BY <1>4, <2>3
  <2>5. m * One <= Sig * One /\ m * One \in Int
    BY FloatFacts, Scales, Products
  <2>6. Sig * One <= h * q
    <3>1. h * q = k * (Sig * One) /\ Sig * One \in Nat
      BY <2>1, <2>2, FloatFacts
    <3>2. 1 * (Sig * One) <= k * (Sig * One) /\ 1 * (Sig * One) = Sig * One
      BY <2>1, <3>1, Scales
    <3>. QED
      BY <3>1, <3>2
  <2>7. Sig * One \in Int /\ h * q \in Int
    BY <1>1, FloatFacts, Products
  <2>. QED
    BY <1>2, <2>4, <2>5, <2>6, <2>7
<1>. QED
  BY <1>1, <1>5, <1>6, FloatFacts

Magnitude(x) == IF x < 0 THEN -x ELSE x

(* The errors of rounding, either way. *)
Errors(x, b, rounded) == {b * rounded - x, x - b * rounded}

LEMMA NearestErrors ==
  ASSUME NEW a \in Nat, NEW b \in Nat \ {0}, NEW d \in Errors(a, b, Nearest(a, b))
  PROVE  /\ Nearest(a, b) \in Nat /\ d \in Int
         /\ Sig * d <= a + One * b
         /\ b = 1 => Sig * d <= a
<1> DEFINE q == Ulp(a, b)
<1>1. q \in Nat \ {0} /\ (q = 1 \/ q * (b * Sig) <= 2 * a)
  BY UlpFacts
<1>2. Nearest(a, b) \in Nat /\ 2 * d <= q * b /\ d \in Int
  <2> DEFINE near == Nearest(a, b)
  <2>1. near \in Nat /\ 2 * (b * near - a) <= q * b /\ 2 * (a - b * near) <= q * b
    BY NearestFacts
  <2>2. d \in {b * near - a, a - b * near}
    BY DEF Errors
  <2>. HIDE DEF near
  <2>3. b * near \in Nat
    BY <2>1, NatProduct
  <2>4. 2 * d <= q * b /\ d \in Int
    BY <2>1, <2>2, <2>3
  <2>. QED
    BY <2>1, <2>4 DEF near
<1>. HIDE DEF q
<1>3. q * b \in Nat /\ One * b \in Nat /\ Sig * d \in Int /\ d * Sig = Sig * d
  BY <1>1, <1>2, FloatFacts, NatProduct, Products
<1>4. 2 * (Sig * d) <= (q * b) * Sig
  <2>1. (2 * d) * Sig <= (q * b) * Sig
    BY <1>2, <1>3, FloatFacts, Scales
  <2>2. (2 * d) * Sig = 2 * (Sig * d)
    BY <1>2, FloatFacts
  <2>. QED
    BY <2>1, <2>2
<1>5. CASE q = 1
  <2>1. b * Sig <= One * b
    <3>1. Sig * b <= One * b
      BY FloatFacts, Scales
    <3>. QED
      BY <3>1, FloatFacts, Products
  <2>2. (q * b) * Sig = b * Sig /\ b * Sig \in Int
    BY <1>5, FloatFacts, Products
  <2>3. Sig * d <= a + One * b
    BY <1>3, <1>4, <2>1, <2>2
  <2>4. ASSUME b = 1 PROVE Sig * d <= a
    <3>1. 2 * d <= 1
      BY <1>2, <1>5, <2>4
    <3>2. d <= 0
      BY <1>2, <3>1
    <3>3. d * Sig <= 0 * Sig /\ 0 * Sig = 0
      BY <1>2, <3>2, FloatFacts, Scales
    <3>. QED
      BY <1>3, <3>3
  <2>. QED
    BY <1>2, <2>3, <2>4
<1>6. CASE q * (b * Sig) <= 2 * a
  <2>1. (q * b) * Sig = q * (b * Sig) /\ q * (b * Sig) \in Int
    BY <1>1, FloatFacts, Products
  <2>2. Sig * d <= a
    BY <1>3, <1>4, <1>6, <2>1
  <2>. QED
    BY <1>2, <1>3, <2>2
<1>. QED
  BY <1>1, <1>5, <1>6

LEMMA RoundErrors ==
  ASSUME NEW x \in Int, NEW b \in Nat \ {0}, NEW d \in Errors(x, b, Round(x, b))
  PROVE  /\ Round(x, b) \in Int /\ d \in Int
         /\ Sig * d <= Magnitude(x) + One * b
         /\ b = 1 => Sig * d <= Magnitude(x)
<1>1. CASE x >= 0
  <2>1. x \in Nat /\ Round(x, b) = Nearest(x, b) /\ Magnitude(x) = x
    BY <1>1 DEF Round, Magnitude
  <2>. QED
    BY <2>1, NearestErrors
<1>2. CASE x < 0
  <2> DEFINE near == Nearest(-x, b)
  <2>1. -x \in Nat /\ Round(x, b) = -near /\ Magnitude(x) = -x
    BY <1>2 DEF Round, Magnitude
  <2>2. near \in Nat
    BY <2>1, NearestFacts
  <2>3. d \in Errors(-x, b, near)
    <3>. HIDE DEF near
    <3>1. b * (-near) = -(b * near) /\ b * near \in Int
      BY <2>2
    <3>. QED
      BY <2>1, <3>1 DEF Errors
  <2>4. /\ d \in Int /\ Sig * d <= -x + One * b
        /\ b = 1 => Sig * d <= -x
    BY <2>1, <2>3, NearestErrors
  <2>. QED
    BY <2>1, <2>2, <2>4
<1>. QED
  BY <1>1, <1>2

(* d is at most a Sig-th of x, either way. *)
Small(d, x) == Sig * d <= x /\ Sig * (-d) <= x

LEMMA RoundIsNear ==
  ASSUME NEW x \in Int, NEW b \in Nat \ {0}
  PROVE  /\ Round(x, b) \in Int
         /\ Small(b * Round(x, b) - x, Magnitude(x) + One * b)
         /\ b = 1 => Small(Round(x, b) - x, Magnitude(x))
<1> DEFINE r == Round(x, b)
<1>1. r \in Int
  BY RoundErrors DEF Errors
<1>2. \A d \in Errors(x, b, r) : /\ Sig * d <= Magnitude(x) + One * b
                                 /\ b = 1 => Sig * d <= Magnitude(x)
  BY RoundErrors
<1>. HIDE DEF r
<1>3. b * r \in Int /\ -(b * r - x) = x - b * r
  BY <1>1
<1>4. b = 1 => b * r = r
  BY <1>1
<1>. QED
  BY <1>1, <1>2, <1>3, <1>4 DEF Errors, Small, r

LEMMA SmallFacts ==
  ASSUME NEW d \in Int, NEW x \in Nat, Small(d, x)
  PROVE  /\ 4 * d <= x /\ -(4 * d) <= x
         /\ \A k \in Nat : Small(k * d, k * x)
<1>1. ASSUME NEW e \in Int, Sig * e <= x PROVE 4 * e <= x
  <2>1. CASE e <= 0
    BY <2>1
  <2>2. CASE e > 0
    <3>1. 4 * e <= Sig * e /\ Sig * e \in Int
      BY <2>2, FloatFacts, Scales, Products
    <3>. QED
      BY <1>1, <3>1
  <2>. QED
    BY <2>1, <2>2
<1>2. ASSUME NEW e \in Int, Sig * e <= x, NEW k \in Nat PROVE Sig * (k * e) <= k * x
  <2>1. (Sig * e) * k <= x * k
    BY <1>2, FloatFacts, Scales, Products
  <2>2. (Sig * e) * k = Sig * (k * e) /\ x * k = k * x
    BY FloatFacts
  <2>. QED
    BY <2>1, <2>2
<1>3. -d \in Int /\ Sig * d <= x /\ Sig * (-d) <= x
  BY DEF Small
<1>4. \A k \in Nat : k * (-d) = -(k * d)
  OBVIOUS
<1>. QED
  BY <1>1, <1>2, <1>3, <1>4 DEF Small

LEMMA MagnitudeScales ==
  ASSUME NEW x \in Int, NEW k \in Nat
  PROVE  k * Magnitude(x) = Magnitude(k * x)
<1>1. CASE x >= 0
  <2>1. k * x \in Nat
    BY <1>1, NatProduct
  <2>. QED
    BY <1>1, <2>1 DEF Magnitude
<1>2. CASE x < 0
  <2>1. k * (-x) \in Nat /\ k * (-x) = -(k * x) /\ k * x \in Int
    BY <1>2, NatProduct
  <2>. QED
    BY <1>2, <2>1 DEF Magnitude
<1>. QED
  BY <1>1, <1>2

(* The limit errs by at most 4 parts in Sig: what becomes of the error of  *)
(* each of its three roundings.                                            *)
LEMMA LimitIsNear ==
  ASSUME NEW base \in Nat, NEW pct \in Int
  PROVE  /\ Limit(base, pct) \in Int
         /\ Small((100 * Percent) * Limit(base, pct) - One * ((100 * Percent + pct) * base),
                  One * Rounding(base, pct))
<1> DEFINE B == 100 * Percent
           r1 == Round(pct * One, B)
           s == One + r1
           r2 == Round(s, 1)
           L == Round(base * r2, 1)
           X == Magnitude(pct * One) + One * B
           d1 == B * r1 - pct * One
           d2 == r2 - s
           d3 == L - base * r2
<1>1. B \in Nat \ {0} /\ One \in Nat \ {0} /\ 1 \in Nat \ {0}
  BY FloatFacts
<1>2. r1 \in Int /\ Small(d1, X)
  <2>1. pct * One \in Int
    BY <1>1
  <2>. QED
    BY <1>1, <2>1, RoundIsNear
<1>3. s \in Int /\ r2 \in Int /\ Small(d2, Magnitude(s))
  <2>1. s \in Int
    BY <1>1, <1>2
  <2>. HIDE DEF s
  <2>. QED
    BY <1>1, <2>1, RoundIsNear
<1>4. L \in Int /\ Small(d3, Magnitude(base * r2))
  <2>1. base * r2 \in Int
    BY <1>3
  <2>. QED
    BY <1>1, <2>1, RoundIsNear
<1>5. X \in Nat /\ X = One * (B + Magnitude(pct)) /\ One * Rounding(base, pct) = base * (4 * X)
  <2>1. Magnitude(pct * One) = One * Magnitude(pct) /\ Magnitude(pct) \in Nat
    <3>1. CASE pct >= 0
      <4>1. pct * One \in Nat
        BY <1>1, <3>1, NatProduct
      <4>. QED
        BY <1>1, <3>1, <4>1 DEF Magnitude
    <3>2. CASE pct < 0
      <4>1. (-pct) * One \in Nat /\ (-pct) * One # 0
        BY <1>1, <3>2, NatProduct
      <4>2. (-pct) * One = -(pct * One) /\ One * (-pct) = (-pct) * One
        BY <1>1
      <4>. QED
        BY <1>1, <3>2, <4>1, <4>2 DEF Magnitude
    <3>. QED
      BY <3>1, <3>2
  <2>2. X = One * (B + Magnitude(pct))
    BY <1>1, <2>1, Products
  <2>3. Rounding(base, pct) = 4 * base * (B + Magnitude(pct))
    BY DEF Rounding, Magnitude
  <2>. HIDE DEF B
  <2>4. One * (B + Magnitude(pct)) \in Nat
    BY <1>1, <2>1, NatProduct
  <2>5. One * (4 * base * (B + Magnitude(pct))) = base * (4 * (One * (B + Magnitude(pct))))
    BY <1>1, <2>1
  <2>. QED
    BY <2>2, <2>3, <2>4, <2>5
<1>6. /\ -(One * B + pct * One) <= X /\ One * B + pct * One <= X
      /\ B * s = One * B + pct * One + d1
      /\ B * d2 = B * r2 - B * s
      /\ {One * B, pct * One, d1, B * s, B * r2, d2} \subseteq Int
  <2>1. pct * One \in Int /\ One * B \in Nat
    BY <1>1, NatProduct
  <2>2. -(One * B + pct * One) <= X /\ One * B + pct * One <= X
    BY <2>1 DEF Magnitude
  <2>. HIDE DEF B, r1
  <2>3. B * r1 \in Int /\ B * s = One * B + B * r1
    BY <1>1, <1>2
  <2>. HIDE DEF s, r2
  <2>4. B * s \in Int /\ B * r2 \in Int /\ B * (r2 - s) = B * r2 - B * s
    BY <1>1, <1>3
  <2>. QED
    BY <1>3, <2>1, <2>2, <2>3, <2>4
<1>. HIDE DEF X, d1, d2, d3, s, L
<1>7. 4 * d1 <= X /\ -(4 * d1) <= X
  BY <1>2, <1>5, <1>6, SmallFacts
<1>8. Magnitude(B * s) \in Nat /\ 4 * Magnitude(B * s) <= 5 * X
  <2> DEFINE w == One * B + pct * One
  <2>1. w \in Int /\ B * s = w + d1 /\ -w <= X /\ w <= X
    BY <1>6
  <2>. HIDE DEF w
  <2>. QED
    BY <1>5, <1>6, <1>7, <2>1 DEF Magnitude
<1>9. Small(B * d2, Magnitude(B * s)) /\ B * d2 \in Int
  <2>1. Magnitude(s) \in Nat /\ d2 \in Int /\ B \in Nat
    BY <1>1, <1>3, <1>6 DEF Magnitude
  <2>2. Small(B * d2, B * Magnitude(s))
    BY <1>3, <2>1, SmallFacts
  <2>3. B * Magnitude(s) = Magnitude(B * s)
    BY <1>1, <1>3, MagnitudeScales
  <2>4. B * d2 \in Int
    BY <2>1
  <2>. QED
    BY <2>2, <2>3, <2>4
<1>10. Magnitude(B * r2) \in Nat /\ 16 * Magnitude(B * r2) <= 25 * X
  <2>1. 4 * (B * d2) <= Magnitude(B * s) /\ -(4 * (B * d2)) <= Magnitude(B * s)
    BY <1>8, <1>9, SmallFacts
  <2> DEFINE u == B * s
             v == B * r2
             e == B * d2
  <2>2. u \in Int /\ v \in Int /\ e \in Int /\ e = v - u
    BY <1>6, <1>9
  <2>3. 4 * e <= Magnitude(u) /\ -(4 * e) <= Magnitude(u) /\ 4 * Magnitude(u) <= 5 * X
    BY <1>8, <2>1
  <2>. HIDE DEF u, v, e
  <2>4. Magnitude(v) \in Nat /\ 16 * Magnitude(v) <= 25 * X
    BY <1>5, <2>2, <2>3 DEF Magnitude
  <2>. QED
    BY <2>4 DEF v
<1>11. Small(B * d3, base * Magnitude(B * r2)) /\ B * d3 \in Int /\ d3 \in Int
  <2>1. base * r2 \in Int
    BY <1>3
  <2>2. Magnitude(base * r2) \in Nat /\ d3 \in Int /\ B \in Nat
    BY <1>1, <1>4, <2>1 DEF Magnitude, d3
  <2>3. Small(B * d3, B * Magnitude(base * r2)) /\ B * d3 \in Int
    <3>1. Small(d3, Magnitude(base * r2))
      BY <1>4 DEF d3
    <3>. HIDE DEF B
    <3>. QED
      BY <2>2, <3>1, SmallFacts
  <2>4. B * Magnitude(base * r2) = base * Magnitude(B * r2)
    <3>1. B * Magnitude(base * r2) = B * (base * Magnitude(r2))
      BY <1>3, MagnitudeScales
    <3>2. base * Magnitude(B * r2) = base * (B * Magnitude(r2))
      BY <1>1, <1>3, MagnitudeScales
    <3>3. Magnitude(r2) \in Nat
      BY <1>3 DEF Magnitude
    <3>. HIDE DEF B
    <3>4. B * (base * Magnitude(r2)) = base * (B * Magnitude(r2))
      BY <1>1, <3>3
    <3>. QED
      BY <3>1, <3>2, <3>4
  <2>. QED
    BY <2>2, <2>3, <2>4
<1>12. Small(base * (B * d2), base * Magnitude(B * s)) /\ Small(base * d1, base * X)
  BY <1>2, <1>5, <1>6, <1>8, <1>9, SmallFacts
<1> DEFINE D == B * L - One * ((B + pct) * base)
           e2 == base * (B * d2)
           e1 == base * d1
           e3 == B * d3
<1>13. D = e3 + e2 + e1 /\ {e1, e2, e3} \subseteq Int
  <2>1. e3 = B * L - B * (base * r2)
    BY <1>1, <1>3, <1>4 DEF d3
  <2>2. e2 = B * (base * r2) - base * (B * s)
    <3>1. e2 = base * (B * r2) - base * (B * s)
      BY <1>6
    <3>2. base * (B * r2) = B * (base * r2)
      BY <1>1, <1>3
    <3>. QED
      BY <3>1, <3>2
  <2>3. e1 = base * (B * s) - One * ((B + pct) * base)
    <3> DEFINE u == B * s
    <3>1. d1 = u - One * B - pct * One /\ u \in Int
      BY <1>6
    <3>. HIDE DEF u, B
    <3>2. base * (u - One * B - pct * One) = base * u - One * ((B + pct) * base)
      BY <1>1, <3>1
    <3>. QED
      BY <3>1, <3>2 DEF u
  <2>4. {B * L, B * (base * r2), base * (B * s), One * ((B + pct) * base)} \subseteq Int
    BY <1>1, <1>3, <1>4
  <2>. HIDE DEF B, e1, e2, e3
  <2>. QED
    BY <2>1, <2>2, <2>3, <2>4
<1>14. base * Magnitude(B * r2) + base * Magnitude(B * s) + base * X <= base * (4 * X)
  <2> DEFINE m2 == Magnitude(B * r2)
             m1 == Magnitude(B * s)
  <2>1. m1 \in Nat /\ m2 \in Nat /\ m2 + m1 + X <= 4 * X
    BY <1>5, <1>8, <1>10
  <2>. HIDE DEF m1, m2
  <2>2. (m2 + m1 + X) * base <= (4 * X) * base
    BY <1>5, <2>1, Scales
  <2>3. (m2 + m1 + X) * base = base * m2 + base * m1 + base * X /\ (4 * X) * base = base * (4 * X)
    BY <1>5, <2>1
  <2>. QED
    BY <2>2, <2>3 DEF m1, m2
<1>. HIDE DEF D, e1, e2, e3
<1>15. Small(D, base * (4 * X))
  <2>1. Sig * D = Sig * e3 + Sig * e2 + Sig * e1 /\ Sig * (-D) = Sig * (-e3) + Sig * (-e2) + Sig * (-e1)
    BY <1>13, FloatFacts
  <2> DEFINE b3 == base * Magnitude(B * r2)
             b2 == base * Magnitude(B * s)
             b1 == base * X
             b == base * (4 * X)
  <2>2. b1 \in Int /\ b2 \in Int /\ b3 \in Int /\ b \in Int
    BY <1>5, <1>8, <1>10
  <2>3. /\ Sig * e3 <= b3 /\ Sig * (-e3) <= b3
        /\ Sig * e2 <= b2 /\ Sig * (-e2) <= b2
        /\ Sig * e1 <= b1 /\ Sig * (-e1) <= b1
    BY <1>11, <1>12 DEF Small, e1, e2, e3
  <2>4. {Sig * e1, Sig * e2, Sig * e3, Sig * (-e1), Sig * (-e2), Sig * (-e3)} \subseteq Int
    BY <1>13, FloatFacts
  <2>5. b3 + b2 + b1 <= b
    BY <1>14
  <2>. HIDE DEF b1, b2, b3, b
  <2>6. Sig * D <= b /\ Sig * (-D) <= b
    BY <2>1, <2>2, <2>3, <2>4, <2>5
  <2>. QED
    BY <2>6 DEF Small, b
<1>16. Limit(base, pct) = L
  BY DEF Limit, L, s
<1>. QED
  BY <1>4, <1>5, <1>15, <1>16 DEF D

LEMMA LimitAtLeast ==
  ASSUME NEW base \in Nat, base < Sig, NEW pct \in Nat
  PROVE  base * One <= Limit(base, pct)
<1> DEFINE r1 == Round(pct * One, 100 * Percent)
           r2 == Round(One + r1, 1)
<1>1. One \in Nat \ {0} /\ 100 * Percent \in Nat \ {0} /\ 1 < Sig
  BY FloatFacts
<1>2. r1 \in Nat
  <2>1. pct * One \in Nat
    BY <1>1, NatProduct
  <2>2. Nearest(pct * One, 100 * Percent) \in Nat
    BY <1>1, <2>1, NearestFacts
  <2>. QED
    BY <2>1, <2>2 DEF Round
<1>. HIDE DEF r1
<1>3. r2 \in Nat /\ One <= r2
  <2>1. One + r1 \in Nat /\ 1 * One = One /\ One <= One + r1
    BY <1>1, <1>2
  <2>2. Round(One + r1, 1) = Nearest(One + r1, 1)
    BY <2>1 DEF Round
  <2>3. 1 * One <= Nearest(One + r1, 1)
    BY <1>1, <2>1, NearestAtLeast
  <2>4. Nearest(One + r1, 1) \in Nat
    BY <2>1, NearestFacts
  <2>. QED
    BY <2>1, <2>2, <2>3, <2>4
<1>. HIDE DEF r2
<1>4. base * r2 \in Nat /\ base * One <= base * r2
  <2>1. One * base <= r2 * base
    BY <1>1, <1>3, Scales
  <2>2. One * base = base * One /\ r2 * base = base * r2
    BY <1>1, <1>3, Products
  <2>. QED
    BY <1>3, <2>1, <2>2, NatProduct
<1>5. Limit(base, pct) = Nearest(base * r2, 1)
  BY <1>4 DEF Limit, Round, r1, r2
<1>. QED
  BY <1>4, <1>5, NearestAtLeast

LEMMA PctAgrees ==
  ASSUME NEW current \in Nat, NEW base \in Nat, NEW pct \in Int
  PROVE  /\ SurelyWithin(current, base, pct) => WithinPct(current, base, pct)
         /\ WithinPct(current, base, pct) => PerhapsWithin(current, base, pct)
<1> DEFINE B == 100 * Percent
           L == Limit(base, pct)
           c == current * One
           exact == (B + pct) * base
           more == Rounding(base, pct)
           D == B * L - One * exact
<1>1. B \in Nat \ {0} /\ One \in Nat \ {0} /\ Sig \in Nat \ {0} /\ c \in Nat /\ exact \in Int
  BY FloatFacts, NatProduct
<1>2. L \in Int /\ D \in Int /\ Sig * D <= One * more /\ Sig * (-D) <= One * more
  <2>1. L \in Int /\ Small(D, One * more)
    BY LimitIsNear
  <2>. HIDE DEF L, exact, B
  <2>2. D \in Int
    BY <1>1, <2>1
  <2>. QED
    BY <2>1, <2>2 DEF Small
<1>3. more \in Nat
  <2> DEFINE m == B + IF pct < 0 THEN -pct ELSE pct
  <2>1. m \in Nat /\ 4 * base \in Nat /\ more = (4 * base) * m
    BY <1>1 DEF Rounding
  <2>. HIDE DEF m
  <2>. QED
    BY <2>1, NatProduct
<1>4. /\ SurelyWithin(current, base, pct)
           <=> \/ 0 <= pct /\ current <= base /\ base < Sig
               \/ Sig * B * current + more <= Sig * exact
      /\ PerhapsWithin(current, base, pct) <=> Sig * B * current <= Sig * exact + more
      /\ WithinPct(current, base, pct) <=> c <= L
  <2>1. Sig * 100 * Percent * current = Sig * B * current
    BY FloatFacts
  <2>2. Sig * (100 * Percent + pct) * base = Sig * exact
    BY FloatFacts
  <2>. QED
    BY <2>1, <2>2 DEF SurelyWithin, PerhapsWithin, WithinPct
<1>. HIDE DEF B, L, exact, more
<1> DEFINE sb == Sig * B
           k == Sig * B * current
           x == Sig * exact
<1>5. /\ sb \in Nat \ {0} /\ k \in Int /\ x \in Int
      /\ c * sb = k * One
      /\ L * sb = x * One + Sig * D
      /\ Sig * D \in Int /\ Sig * (-D) = -(Sig * D)
      /\ One * more = more * One
      /\ {c * sb, L * sb, k * One, x * One, more * One} \subseteq Int
  <2>1. sb \in Nat \ {0}
    BY <1>1
  <2>2. Sig * D \in Int /\ Sig * (-D) = -(Sig * D)
    <3>. HIDE DEF D
    <3>. QED
      BY <1>1, <1>2
  <2>3. L * sb = x * One + Sig * D
    BY <1>1, <1>2
  <2>4. c * sb = k * One /\ k \in Int /\ x \in Int
    BY <1>1
  <2>. HIDE DEF sb, k, x, c
  <2>. QED
    BY <1>1, <1>2, <1>3, <2>1, <2>2, <2>3, <2>4
<1>6. ASSUME 0 <= pct, current <= base, base < Sig PROVE c <= L
  <2>1. base * One <= L
    BY <1>6, LimitAtLeast DEF L
  <2>2. c <= base * One /\ base * One \in Int
    BY <1>1, <1>6, Scales, Products
  <2>. QED
    BY <1>1, <1>2, <2>1, <2>2
<1>. HIDE DEF sb, k, x, c, D
<1>7. ASSUME k + more <= x PROVE c <= L
  <2>1. (k + more) * One <= x * One /\ (k + more) * One = k * One + more * One
    BY <1>1, <1>3, <1>5, <1>7, Scales, Products
  <2>2. c * sb <= L * sb
    BY <1>2, <1>5, <2>1
  <2>. QED
    BY <1>1, <1>2, <1>5, <2>2, Unscales
<1>8. ASSUME c <= L PROVE k <= x + more
  <2>1. c * sb <= L * sb
    BY <1>1, <1>2, <1>5, <1>8, Scales
  <2>2. (x + more) * One = x * One + more * One
    BY <1>1, <1>3, <1>5, Products
  <2>3. k * One <= (x + more) * One
    BY <1>2, <1>5, <2>1, <2>2
  <2>. QED
    BY <1>1, <1>3, <1>5, <2>3, Unscales
<1>. QED
  BY <1>4, <1>6, <1>7, <1>8 DEF k, x

-----------------------------------------------------------------------------
(* Budgets.                                                                *)

LimitsOf(budget) ==
  {budget.MaxTimeToStopRegressionPct, budget.MaxDoubleTalkRegressionPct,
   budget.MaxStallRegression, budget.MaxDroppedRegression}
AllBudgets == {DefaultBudget, ZeroBudget} \cup Budgets

LEMMA LimitsAreInt == \A budget \in AllBudgets : LimitsOf(budget) \subseteq Int
<1>1. LimitsOf(DefaultBudget) \subseteq Int /\ LimitsOf(ZeroBudget) \subseteq Int
  <2>1. 10 * Percent \in Int
    BY FloatFacts
  <2>. QED
    BY <2>1 DEF LimitsOf, DefaultBudget, ZeroBudget, Budget
<1>2. ASSUME NEW budget \in Budgets PROVE LimitsOf(budget) \subseteq Int
  <2>1. budget \in [MaxTimeToStopRegressionPct : Int, MaxDoubleTalkRegressionPct : Int,
                    MaxStallRegression : Int, MaxDroppedRegression : Int]
    BY CommandAssumption
  <2>. QED
    BY <2>1 DEF LimitsOf
<1>. QED
  BY <1>1, <1>2 DEF AllBudgets

LEMMA VerdictAgrees ==
  ASSUME NEW recorded \in Runs, NEW measured \in Runs, NEW budget \in AllBudgets
  PROVE  LET ok == CheckOK(ComputeAggregate(recorded), ComputeAggregate(measured), budget)
             j == [recorded |-> recorded, measured |-> measured, budget |-> budget, ok |-> ok] IN
         /\ WithinBudget(j, SurelyWithin) => ok
         /\ ok => WithinBudget(j, PerhapsWithin)
<1> DEFINE ok == CheckOK(ComputeAggregate(recorded), ComputeAggregate(measured), budget)
           j == [recorded |-> recorded, measured |-> measured, budget |-> budget, ok |-> ok]
           base == ComputeAggregate(recorded)
           current == ComputeAggregate(measured)
           checks == Checks(base, current, budget)
<1>1. LimitsOf(budget) \subseteq Int
  BY LimitsAreInt
<1>2. /\ base.TimeToStop.P95 = P95(recorded) /\ P95(recorded) \in Nat
      /\ base.DoubleTalkMs.Sum = SumOf(recorded, "DoubleTalkMs")
      /\ base.StallMs = SumOf(recorded, "StallMs")
      /\ base.DroppedFrames = SumOf(recorded, "DroppedFrames")
      /\ SumOf(recorded, "DoubleTalkMs") \in Nat
  BY AggregateAgrees
<1>3. /\ current.TimeToStop.P95 = P95(measured) /\ P95(measured) \in Nat
      /\ current.DoubleTalkMs.Sum = SumOf(measured, "DoubleTalkMs")
      /\ current.StallMs = SumOf(measured, "StallMs")
      /\ current.DroppedFrames = SumOf(measured, "DroppedFrames")
      /\ SumOf(measured, "DoubleTalkMs") \in Nat
  BY AggregateAgrees
<1>. HIDE DEF base, current
<1>4. DOMAIN checks = 1 .. 4
  BY DEF Checks
<1>5. /\ checks[1] = WithinPct(P95(measured), P95(recorded), budget.MaxTimeToStopRegressionPct)
      /\ checks[2] = WithinPct(SumOf(measured, "DoubleTalkMs"), SumOf(recorded, "DoubleTalkMs"),
                               budget.MaxDoubleTalkRegressionPct)
      /\ checks[3] = WithinAbs(SumOf(measured, "StallMs"), SumOf(recorded, "StallMs"),
                               budget.MaxStallRegression)
      /\ checks[4] = WithinAbs(SumOf(measured, "DroppedFrames"), SumOf(recorded, "DroppedFrames"),
                               budget.MaxDroppedRegression)
  BY <1>2, <1>3 DEF Checks
<1>6. CheckOK(base, current, budget) <=> checks[1] /\ checks[2] /\ checks[3] /\ checks[4]
  <2>1. 1 .. 4 = {1, 2, 3, 4}
    OBVIOUS
  <2>2. CheckOK(base, current, budget) <=> \A k \in DOMAIN checks : checks[k]
    BY DEF CheckOK
  <2>. HIDE DEF checks
  <2>. QED
    BY <1>4, <2>1, <2>2
<1>. HIDE DEF checks
<1>7. /\ budget.MaxTimeToStopRegressionPct \in Int
      /\ budget.MaxDoubleTalkRegressionPct \in Int
  BY <1>1 DEF LimitsOf
<1>8. /\ SurelyWithin(P95(measured), P95(recorded), budget.MaxTimeToStopRegressionPct)
           => checks[1]
      /\ checks[1]
           => PerhapsWithin(P95(measured), P95(recorded), budget.MaxTimeToStopRegressionPct)
      /\ SurelyWithin(SumOf(measured, "DoubleTalkMs"), SumOf(recorded, "DoubleTalkMs"),
                      budget.MaxDoubleTalkRegressionPct) => checks[2]
      /\ checks[2] => PerhapsWithin(SumOf(measured, "DoubleTalkMs"),
                                    SumOf(recorded, "DoubleTalkMs"),
                                    budget.MaxDoubleTalkRegressionPct)
  BY <1>2, <1>3, <1>5, <1>7, PctAgrees
<1>9. j.recorded = recorded /\ j.measured = measured /\ j.budget = budget
  OBVIOUS
<1>10. ok <=> checks[1] /\ checks[2] /\ checks[3] /\ checks[4]
  BY <1>6 DEF base, current
<1>. HIDE DEF ok, j
<1>11. WithinBudget(j, SurelyWithin) => ok
  BY <1>5, <1>8, <1>9, <1>10 DEF WithinBudget, WithinAbs
<1>12. ok => WithinBudget(j, PerhapsWithin)
  BY <1>5, <1>8, <1>9, <1>10 DEF WithinBudget, WithinAbs
<1>. QED
  BY <1>11, <1>12 DEF ok, j

-----------------------------------------------------------------------------
(* The verdict.                                                            *)

GateInv == (judged # << >> => exited) /\ GateJudgesTheRuns

LEMMA JudgesRight ==
  ASSUME NEW recorded \in Runs, NEW measured \in Runs, NEW budget \in AllBudgets,
         Judges(recorded, measured, budget), writable' = writable
  PROVE  GateInv'
<1> DEFINE ok == CheckOK(ComputeAggregate(recorded), ComputeAggregate(measured), budget)
           j == [recorded |-> recorded, measured |-> measured, budget |-> budget, ok |-> ok]
<1>1. judged' = <<j>> /\ exited' /\ exit' = IF ok /\ writable THEN 0 ELSE 1
  BY DEF Judges, Exits
<1>2. /\ j.recorded = recorded /\ j.measured = measured /\ j.budget = budget
      /\ j.ok = ok
  OBVIOUS
<1>3. (WithinBudget(j, SurelyWithin) => ok) /\ (ok => WithinBudget(j, PerhapsWithin))
  BY VerdictAgrees
<1>. HIDE DEF ok, j
<1>4. judged' # << >> /\ judged'[1] = j
  BY <1>1
<1>5. exit' = 0 <=> ok /\ writable'
  BY <1>1
<1>6. GateJudgesTheRuns'
  BY <1>2, <1>3, <1>4, <1>5 DEF GateJudgesTheRuns
<1>. QED
  BY <1>1, <1>6 DEF GateInv

LEMMA GateStep ==
  ASSUME IInv, GateInv, [Next]_vars
  PROVE  GateInv'
<1>1. CASE CheckExits \/ CompareExits
  <2>1. ~exited /\ exited' = TRUE /\ writable' = writable
    BY <1>1, ExitingKeeps DEF Exiting
  <2>2. CASE UNCHANGED judged
    BY <2>1, <2>2 DEF GateInv, GateJudgesTheRuns
  <2>3. CASE \E recorded, measured \in Runs, budget \in AllBudgets :
               Judges(recorded, measured, budget)
    BY <2>1, <2>3, JudgesRight
  <2>. QED
    BY <1>1, <2>2, <2>3 DEF CheckExits, CompareExits, AllBudgets
<1>2. CASE BadUsage \/ LoadFails \/ RunExits \/ SaveExits
  <2>1. ~exited /\ judged' = judged
    BY <1>2, ExitingKeeps DEF Exiting, BadUsage, LoadFails, RunExits, SaveExits
  <2>. QED
    BY <2>1 DEF GateInv, GateJudgesTheRuns
<1>3. CASE ~exited /\ UNCHANGED <<report, saved, judged, exited, exit>>
  BY <1>3 DEF GateInv, GateJudgesTheRuns
<1>4. CASE UNCHANGED vars
  BY <1>4 DEF GateInv, GateJudgesTheRuns, vars, commandVars
<1>. QED
  BY <1>1, <1>2, <1>3, <1>4, ExitIsLast DEF Exiting, IInv

(* For every run that may be measured and every budget, check and compare  *)
(* exit with 0 only when time-to-stop, double talk, stalls and drops are   *)
(* within the budget, and find no such run beyond it; of a percentage      *)
(* limit they err by no more than the float64s make them (main.go:441,     *)
(* :507, baseline.go:115).                                                 *)
THEOREM GateIsRight == Spec => []GateJudgesTheRuns
<1>1. Init => GateInv
  BY DEF Init, GateInv, GateJudgesTheRuns
<1>2. IInv /\ GateInv /\ [Next]_vars => GateInv'
  BY GateStep
<1>3. GateInv => GateJudgesTheRuns
  BY DEF GateInv
<1>. QED
  BY <1>1, <1>2, <1>3, Invariant, PTL DEF Spec
=============================================================================
