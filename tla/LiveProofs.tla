----------------------------- MODULE LiveProofs -----------------------------
(***************************************************************************)
(* Safety of a live session's goroutines over their connection, for any    *)
(* number of speech timers, any size of the socket's buffer and of a       *)
(* message, with and without a deadline.                                   *)
(***************************************************************************)
EXTENDS Live, TLAPS, SequenceTheorems

-----------------------------------------------------------------------------
(* The invariant.                                                          *)

(* Where the pump is between Read's rmu.Lock() and its Unlock(). *)
InRead == {"arm", "read", "pong", "echo", "took", "failed"}

(* Who holds a lock is where the lock is held. *)
Locks ==
  /\ \A a \in Actors : wr[a] \in {"header", "payload"} <=> wmu = a
  /\ wmu # "free" => wdl = WriteDeadline(wmu)
  /\ rmu = "pump" <=> pump \in InRead
  /\ rmu = "closer" <=> mpc \in {"drain", "join"}

(* How far Close has come. *)
Closing ==
  /\ drain = "reading" => mpc \in {"drain", "join"}
  /\ mpc \in {"try", "drain", "join", "workers", "returned"} => closed
  /\ mpc \in {"join", "workers", "returned"} => down
  /\ mpc = "returned" => pump = "done"

(* The pump and the closer write in their own places only. *)
Writing ==
  /\ wr["pump"] # "no" => pump \in {"pong", "echo"}
  /\ wr["closer"] # "no" => mpc # "run"

(* A header is followed by its payload, unless the write was cut short: by *)
(* the end of the connection, or by the run's deadline.                    *)
OnWire ==
  /\ \A a \in Actors : wr[a] = "payload" => last = <<a, "header">>
  /\ \A a \in Actors \ {"closer"} :
       last = <<a, "header">> => wr[a] = "payload" \/ down \/ gone \/ (HasDeadline /\ due)

(* The message being reassembled. *)
Message ==
  /\ pump # "failed" => buf = stream
  /\ pump \in {"recv", "lock", "decode", "done"} => buf = << >>
  /\ \A i \in 1 .. Len(buf) : buf[i].op = (IF i = 1 THEN "data" ELSE "cont")
  /\ pump \in {"arm", "read", "pong", "echo"} => \A i \in 1 .. Len(buf) : ~buf[i].fin
  /\ pump = "took" => \A i \in 1 .. Len(buf) : buf[i].fin <=> i = Len(buf)

IInv == TypeOK /\ Locks /\ Closing /\ Writing /\ OnWire /\ Message

LEMMA ActorsDiffer ==
  /\ "pump" \in Actors /\ "closer" \in Actors /\ "free" \notin Actors
  /\ \A w \in Writers : w \in Actors /\ w # "pump" /\ w # "closer"
BY ConnAssumption DEF Actors

-----------------------------------------------------------------------------
(* A step of a write.                                                      *)

LEMMA WriteKeepsTypes ==
  ASSUME TypeOK, NEW a \in Actors, NEW guarded, Write(a, guarded)
  PROVE  ConnTypeOK'
<1>. USE DEF TypeOK, ConnTypeOK, WritePlaces
<1>0. UNCHANGED <<rmu, closed, down, due, rdl, incoming, gone>>
  BY DEF Write
<1>1. CASE WriteLocks(a, guarded)
  BY <1>0, <1>1 DEF WriteLocks, WriteDeadline
<1>2. CASE WriteRefused(a, guarded)
  BY <1>0, <1>2 DEF WriteRefused
<1>3. CASE WriteHeader(a)
  BY <1>0, <1>3, ConnAssumption DEF WriteHeader, Puts, Parts
<1>4. CASE WritePayload(a)
  BY <1>0, <1>4, ConnAssumption DEF WritePayload, WriteReturns, Puts, Parts
<1>5. CASE WriteFails(a)
  BY <1>0, <1>5 DEF WriteFails, WriteReturns
<1>. QED
  BY <1>1, <1>2, <1>3, <1>4, <1>5 DEF Write

LEMMA WriteKeepsLocks ==
  ASSUME TypeOK, Locks, NEW a \in Actors, NEW guarded, Write(a, guarded),
         UNCHANGED <<pump, mpc>>
  PROVE  Locks'
<1>. USE ActorsDiffer DEF TypeOK, ConnTypeOK, Locks, WriteDeadline
<1>0. UNCHANGED rmu
  BY DEF Write
<1>1. CASE WriteLocks(a, guarded)
  BY <1>0, <1>1 DEF WriteLocks
<1>2. CASE WriteRefused(a, guarded)
  BY <1>0, <1>2 DEF WriteRefused
<1>3. CASE WriteHeader(a)
  BY <1>0, <1>3 DEF WriteHeader
<1>4. CASE WritePayload(a)
  BY <1>0, <1>4 DEF WritePayload, WriteReturns
<1>5. CASE WriteFails(a)
  BY <1>0, <1>5 DEF WriteFails, WriteReturns
<1>. QED
  BY <1>1, <1>2, <1>3, <1>4, <1>5 DEF Write

(* A write goes on only where one was called. *)
LEMMA WriteKeepsPlaces ==
  ASSUME TypeOK, NEW a \in Actors, NEW guarded, Write(a, guarded)
  PROVE  wr[a] # "no" /\ \A b \in Actors : b # a => wr'[b] = wr[b]
BY DEF TypeOK, ConnTypeOK, Write, WriteLocks, WriteRefused, WriteHeader, WritePayload,
       WriteFails, WriteReturns

LEMMA WriteKeepsWire ==
  ASSUME TypeOK, Locks, OnWire, NEW a \in Actors, NEW guarded, Write(a, guarded)
  PROVE  OnWire'
<1>. USE DEF TypeOK, ConnTypeOK, Locks, OnWire
<1>0. UNCHANGED <<down, due, gone>>
  BY DEF Write
<1>1. CASE WriteLocks(a, guarded) \/ WriteRefused(a, guarded)
  <2>1. UNCHANGED last /\ wr[a] = "lock" /\ wr'[a] \in {"header", "failed"}
    BY <1>1 DEF WriteLocks, WriteRefused
  <2>. QED
    BY <1>0, <2>1, WriteKeepsPlaces
<1>2. CASE WriteHeader(a)
  <2>1. /\ last' = <<a, "header">> /\ wr'[a] = "payload"
        /\ \A b \in Actors : b # a => wr'[b] # "payload"
    BY <1>2 DEF WriteHeader, Puts
  <2>. QED
    BY <2>1
<1>3. CASE WritePayload(a)
  <2>1. /\ last' = <<a, "payload">>
        /\ \A b \in Actors : wr'[b] # "payload"
    BY <1>3 DEF WritePayload, WriteReturns, Puts
  <2>. QED
    BY <2>1
<1>4. CASE WriteFails(a)
  <2>1. UNCHANGED last /\ wmu = a /\ \A b \in Actors : wr'[b] # "payload"
    BY <1>4 DEF WriteFails, WriteReturns
  <2>2. a # "closer" => down \/ gone \/ (HasDeadline /\ due)
    BY <1>4, <2>1, ActorsDiffer
       DEF WriteFails, WriteMayExpire, WriteExpired, WriteDeadline
  <2>3. \A b \in Actors : b # a => wr[b] # "payload"
    BY <2>1
  <2>. QED
    BY <1>0, <2>1, <2>2, <2>3
<1>. QED
  BY <1>1, <1>2, <1>3, <1>4 DEF Write

-----------------------------------------------------------------------------
(* Every step.                                                             *)


(* The actors of a write. *)
LEMMA Writes ==
  ASSUME PumpWrites \/ CloserWrites \/ \E w \in Writers : SpeechWrites(w)
  PROVE  /\ \E a \in Actors, guarded \in BOOLEAN : Write(a, guarded)
         /\ UNCHANGED <<ctx, mpc, pumpVars, afterVars, drain>>
BY ActorsDiffer DEF PumpWrites, CloserWrites, SpeechWrites, Guarded

(* Live's own variables. *)
RunTypeOK ==
  /\ ctx \in BOOLEAN /\ mpc \in RunPlaces /\ pump \in PumpPlaces
  /\ stream \in Seq(Frames) /\ buf \in Seq(Frames) /\ pending \in Nat
  /\ armed \in BOOLEAN /\ afters \in Nat /\ drain \in {"off", "reading", "done"}

LEMMA TypesSplit == TypeOK <=> ConnTypeOK /\ RunTypeOK
BY DEF TypeOK, RunTypeOK

LEMMA ConnAlone ==
  ASSUME ConnTypeOK, UNCHANGED connVars
  PROVE  ConnTypeOK'
BY DEF ConnTypeOK, connVars, lockVars

LEMMA RunAlone ==
  ASSUME RunTypeOK, UNCHANGED <<ctx, mpc, pumpVars, afterVars, drain>>
  PROVE  RunTypeOK'
BY DEF RunTypeOK, pumpVars, afterVars

LEMMA ConnTypeStep ==
  ASSUME TypeOK, [Next]_vars
  PROVE  ConnTypeOK'
<1>0. ConnTypeOK
  BY TypesSplit
<1>1. CASE DeadlinePasses
  BY <1>0, <1>1 DEF DeadlinePasses, ConnTypeOK, lockVars
<1>2. CASE ContextEnds \/ PumpRecvs \/ PumpReadFails \/ PumpDecodes \/ RunReturns \/ DrainEnds
  BY <1>0, <1>2, ConnAlone
     DEF ContextEnds, PumpRecvs, PumpReadFails, PumpDecodes, RunReturns, DrainEnds
<1>3. CASE PumpLocks \/ PumpArmsDeadline \/ ReadReturns
  BY <1>0, <1>3 DEF PumpLocks, PumpArmsDeadline, ReadReturns, ConnTypeOK, lockVars
<1>4. CASE PumpPonged \/ PumpEchoed
  BY <1>0, <1>4 DEF PumpPonged, PumpEchoed, ConnTypeOK, WritePlaces, lockVars
<1>5. CASE AfterFunc
  <2>1. CASE AfterFuncStarts
    BY <1>0, <2>1, ConnAlone DEF AfterFuncStarts
  <2>2. CASE AfterFuncRuns
    BY <1>0, <2>2 DEF AfterFuncRuns, ConnTypeOK, lockVars
  <2>. QED
    BY <1>5, <2>1, <2>2 DEF AfterFunc
<1>6. CASE CloserCloses
  BY <1>0, <1>6 DEF CloserCloses, CallsWrite, ConnTypeOK, WritePlaces, lockVars
<1>7. CASE CloserMarks \/ CloserHangsUp \/ CloserDrains \/ CloserStopsWaiting \/ CloserJoinsDrain
  BY <1>0, <1>7 DEF CloserMarks, CloserHangsUp, CloserDrains, CloserStopsWaiting,
                    CloserJoinsDrain, ConnTypeOK
<1>8. CASE PeerMoves
  <2>1. 0 \in 0 .. SockBuf
    BY ConnAssumption
  <2>. QED
    BY <1>0, <1>8, <2>1 DEF PeerMoves, PeerReads, PeerLeaves, ConnTypeOK, lockVars
<1>9. ASSUME NEW f \in Frames, PumpReads(f) PROVE ConnTypeOK'
  <2>1. /\ UNCHANGED <<lockVars, due, rdl, wdl, last, unread, gone>>
        /\ wr' = wr \/ wr' = [wr EXCEPT !["pump"] = "lock"]
    BY <1>9 DEF PumpReads, PumpAnswersPing, PumpSkipsPong, PumpEchoesClose, PumpTakesData,
                PumpRejects, CallsWrite
  <2>2. incoming' \in 0 .. MaxIn
    BY <1>0, <1>9, ConnAssumption DEF PumpReads, ReadsFrame, ConnTypeOK
  <2>. QED
    BY <1>0, <2>1, <2>2 DEF ConnTypeOK, WritePlaces, lockVars
<1>10. CASE PumpWrites \/ CloserWrites \/ \E w \in Writers : SpeechWrites(w)
  BY <1>10, Writes, WriteKeepsTypes
<1>11. ASSUME NEW w \in Writers, SpeechStarts(w) PROVE ConnTypeOK'
  BY <1>0, <1>11 DEF SpeechStarts, CallsWrite, ConnTypeOK, WritePlaces, lockVars
<1>12. CASE UNCHANGED vars
  BY <1>0, <1>12, ConnAlone DEF vars
<1>. QED
  BY <1>1, <1>2, <1>3, <1>4, <1>5, <1>6, <1>7, <1>8, <1>9, <1>10, <1>11, <1>12
     DEF Next, Pump, Closer, Drain, Peer, Finished

LEMMA RunTypeStep ==
  ASSUME TypeOK, [Next]_vars
  PROVE  RunTypeOK'
<1>0. RunTypeOK
  BY TypesSplit
<1>1. CASE DeadlinePasses
  BY <1>0, <1>1, RunAlone DEF DeadlinePasses
<1>2. CASE ContextEnds
  BY <1>0, <1>2 DEF ContextEnds, RunTypeOK, pumpVars, afterVars
<1>3. CASE PumpRecvs \/ PumpDecodes
  <2>1. pending' \in Nat
    BY <1>0, <1>3 DEF PumpRecvs, PumpDecodes, RunTypeOK
  <2>. QED
    BY <1>0, <1>3, <2>1 DEF PumpRecvs, PumpDecodes, RunTypeOK, PumpPlaces, afterVars
<1>4. CASE PumpLocks
  <2>1. afters' \in Nat
    BY <1>0, <1>4 DEF PumpLocks, RunTypeOK
  <2>2. armed' = armed \/ armed' = TRUE
    BY <1>4 DEF PumpLocks
  <2>. QED
    BY <1>0, <1>4, <2>1, <2>2 DEF PumpLocks, RunTypeOK, PumpPlaces
<1>5. CASE PumpArmsDeadline \/ PumpReadFails \/ PumpPonged \/ PumpEchoed
  BY <1>0, <1>5 DEF PumpArmsDeadline, PumpReadFails, PumpPonged, PumpEchoed, RunTypeOK,
                    PumpPlaces, afterVars
<1>6. CASE ReadReturns
  <2>1. << >> \in Seq(Frames)
    BY EmptySeq
  <2>. QED
    BY <1>0, <1>6, <2>1 DEF ReadReturns, RunTypeOK, PumpPlaces
<1>7. CASE AfterFunc
  <2>1. afters' \in Nat
    BY <1>0, <1>7 DEF AfterFunc, AfterFuncStarts, AfterFuncRuns, RunTypeOK
  <2>2. armed' = armed \/ armed' = FALSE
    BY <1>7 DEF AfterFunc, AfterFuncStarts, AfterFuncRuns
  <2>. QED
    BY <1>0, <1>7, <2>1, <2>2 DEF AfterFunc, AfterFuncStarts, AfterFuncRuns, RunTypeOK, pumpVars
<1>8. CASE CloserCloses \/ CloserMarks \/ CloserHangsUp \/ CloserDrains \/ CloserStopsWaiting
             \/ CloserJoinsDrain \/ RunReturns
  BY <1>0, <1>8 DEF CloserCloses, CloserMarks, CloserHangsUp, CloserDrains,
                    CloserStopsWaiting, CloserJoinsDrain, RunReturns, RunTypeOK, RunPlaces,
                    pumpVars, afterVars
<1>9. CASE DrainEnds
  BY <1>0, <1>9 DEF DrainEnds, RunTypeOK, pumpVars, afterVars
<1>10. ASSUME NEW f \in Frames, PumpReads(f) PROVE RunTypeOK'
  <2>1. /\ UNCHANGED <<ctx, mpc, pending, afterVars, drain>>
        /\ pump' \in PumpPlaces
        /\ buf' = buf \/ buf' = Append(buf, f)
        /\ stream' = stream \/ stream' = Append(stream, f)
    BY <1>0, <1>10 DEF PumpReads, PumpAnswersPing, PumpSkipsPong, PumpEchoesClose,
                       PumpTakesData, PumpRejects, RunTypeOK, PumpPlaces
  <2>2. /\ buf \in Seq(Frames) /\ stream \in Seq(Frames)
        /\ Append(buf, f) \in Seq(Frames) /\ Append(stream, f) \in Seq(Frames)
    BY <1>0, AppendProperties DEF RunTypeOK
  <2>3. stream' \in Seq(Frames) /\ buf' \in Seq(Frames)
    BY <2>1, <2>2
  <2>. QED
    BY <1>0, <2>1, <2>3 DEF RunTypeOK, afterVars
<1>11. CASE UNCHANGED <<ctx, mpc, pumpVars, afterVars, drain>>
  BY <1>0, <1>11, RunAlone
<1>. QED
  BY <1>1, <1>2, <1>3, <1>4, <1>5, <1>6, <1>7, <1>8, <1>9, <1>10, <1>11
     DEF Next, Pump, Closer, Drain, Peer, Finished, PumpWrites, CloserWrites, SpeechWrites,
         SpeechStarts, vars

LEMMA LocksStep ==
  ASSUME IInv, [Next]_vars
  PROVE  Locks' /\ Closing' /\ Writing'
<1>. USE ActorsDiffer
     DEF IInv, TypeOK, ConnTypeOK, Locks, Closing, Writing, InRead, WriteDeadline
<1>1. CASE DeadlinePasses \/ ContextEnds \/ AfterFunc
  BY <1>1 DEF DeadlinePasses, ContextEnds, AfterFunc, AfterFuncStarts, AfterFuncRuns,
              lockVars, connVars, pumpVars
<1>2. CASE PumpRecvs \/ PumpLocks \/ PumpArmsDeadline \/ PumpReadFails \/ PumpDecodes
  BY <1>2 DEF PumpRecvs, PumpLocks, PumpArmsDeadline, PumpReadFails, PumpDecodes,
              lockVars, connVars
<1>3. CASE PumpPonged \/ PumpEchoed
  BY <1>3 DEF PumpPonged, PumpEchoed, lockVars
<1>4. CASE ReadReturns
  BY <1>4 DEF ReadReturns
<1>5. CASE CloserCloses
  BY <1>5 DEF CloserCloses, CallsWrite, lockVars, pumpVars
<1>6. CASE CloserMarks \/ CloserHangsUp
  BY <1>6 DEF CloserMarks, CloserHangsUp, pumpVars
<1>7. CASE CloserDrains \/ CloserStopsWaiting
  BY <1>7 DEF CloserDrains, CloserStopsWaiting, pumpVars
<1>8. CASE CloserJoinsDrain \/ RunReturns
  BY <1>8 DEF CloserJoinsDrain, RunReturns, connVars, lockVars, pumpVars
<1>9. CASE DrainEnds
  BY <1>9 DEF DrainEnds, connVars, lockVars, pumpVars
<1>10. CASE PeerMoves /\ UNCHANGED <<ctx, mpc, pumpVars, afterVars, drain>>
  BY <1>10 DEF PeerMoves, PeerReads, PeerLeaves, lockVars, pumpVars
<1>11. ASSUME NEW f \in Frames, PumpReads(f) PROVE Locks' /\ Closing' /\ Writing'
  <2>1. /\ UNCHANGED <<lockVars, wdl, mpc, drain>> /\ pump = "read" /\ pump' \in InRead
        /\ \/ wr' = wr
           \/ wr' = [wr EXCEPT !["pump"] = "lock"] /\ pump' \in {"pong", "echo"}
    BY <1>11 DEF PumpReads, PumpAnswersPing, PumpSkipsPong, PumpEchoesClose, PumpTakesData,
                 PumpRejects, CallsWrite
  <2>. QED
    BY <2>1 DEF lockVars
<1>12. CASE PumpWrites \/ CloserWrites \/ \E w \in Writers : SpeechWrites(w)
  <2>1. PICK a \in Actors, guarded \in BOOLEAN : Write(a, guarded)
    BY <1>12, Writes
  <2>2. UNCHANGED <<pump, mpc, drain>>
    BY <1>12, Writes DEF pumpVars
  <2>3. UNCHANGED <<closed, down>>
    BY <2>1 DEF Write
  <2>. QED
    BY <2>1, <2>2, <2>3, WriteKeepsLocks, WriteKeepsPlaces
<1>13. ASSUME NEW w \in Writers, SpeechStarts(w) PROVE Locks' /\ Closing' /\ Writing'
  BY <1>13 DEF SpeechStarts, CallsWrite, lockVars, pumpVars
<1>14. CASE UNCHANGED vars
  BY <1>14 DEF vars, connVars, lockVars, pumpVars
<1>. QED
  BY <1>1, <1>2, <1>3, <1>4, <1>5, <1>6, <1>7, <1>8, <1>9, <1>10, <1>11, <1>12, <1>13, <1>14
     DEF Next, Pump, Closer, Drain, Peer, Finished

(* What goes on the wire is a write's; who is not in a write may call one, *)
(* and a connection once gone stays so.                                    *)
LEMMA WireAlone ==
  ASSUME OnWire, UNCHANGED last,
         \A a \in Actors : wr'[a] = wr[a] \/ (wr[a] # "payload" /\ wr'[a] # "payload"),
         down => down', gone => gone', due => due'
  PROVE  OnWire'
BY DEF OnWire

LEMMA WireStep ==
  ASSUME IInv, [Next]_vars
  PROVE  OnWire'
<1>. USE ActorsDiffer DEF IInv, TypeOK, ConnTypeOK
<1>1. CASE PumpWrites \/ CloserWrites \/ \E w \in Writers : SpeechWrites(w)
  BY <1>1, Writes, WriteKeepsWire
<1>2. CASE ~(PumpWrites \/ CloserWrites \/ \E w \in Writers : SpeechWrites(w))
  <2>1. UNCHANGED last /\ (down => down') /\ (gone => gone') /\ (due => due')
    BY <1>2 DEF Next, Pump, Closer, Drain, Peer, Finished, vars, connVars, lockVars,
         DeadlinePasses, ContextEnds, AfterFunc, AfterFuncStarts, AfterFuncRuns,
         PumpRecvs, PumpLocks, PumpArmsDeadline, PumpReadFails, PumpDecodes, PumpPonged,
         PumpEchoed, ReadReturns, PumpReads, CloserCloses, CloserMarks, CloserHangsUp,
         CloserDrains, CloserStopsWaiting, CloserJoinsDrain, RunReturns, DrainEnds,
         PeerMoves, PeerReads, PeerLeaves, SpeechStarts
  <2>2. \/ wr' = wr
        \/ \E a \in Actors : wr[a] # "payload" /\ \E p \in {"lock", "no"} : wr' = [wr EXCEPT ![a] = p]
    <3>1. ASSUME NEW f \in Frames, PumpReads(f)
          PROVE  wr' = wr \/ (wr["pump"] # "payload" /\ wr' = [wr EXCEPT !["pump"] = "lock"])
      BY <3>1 DEF PumpReads, PumpAnswersPing, PumpSkipsPong, PumpEchoesClose, PumpTakesData,
                  PumpRejects, CallsWrite, Writing
    <3>2. CASE PumpPonged \/ PumpEchoed
      BY <3>2 DEF PumpPonged, PumpEchoed
    <3>3. CASE CloserCloses
      BY <3>3 DEF CloserCloses, CallsWrite, Writing
    <3>4. ASSUME NEW w \in Writers, SpeechStarts(w)
          PROVE  wr[w] # "payload" /\ wr' = [wr EXCEPT ![w] = "lock"]
      BY <3>4 DEF SpeechStarts, CallsWrite
    <3>. QED
      BY <1>2, <3>1, <3>2, <3>3, <3>4
         DEF Next, Pump, Closer, Drain, Peer, Finished, vars, connVars,
         DeadlinePasses, ContextEnds, AfterFunc, AfterFuncStarts, AfterFuncRuns,
         PumpRecvs, PumpLocks, PumpArmsDeadline, PumpReadFails, PumpDecodes, ReadReturns,
         CloserMarks, CloserHangsUp, CloserDrains, CloserStopsWaiting,
         CloserJoinsDrain, RunReturns, DrainEnds, PeerMoves, PeerReads, PeerLeaves
  <2>. QED
    BY <2>1, <2>2, WireAlone
<1>. QED
  BY <1>1, <1>2

LEMMA MessageStep ==
  ASSUME IInv, [Next]_vars
  PROVE  Message'
<1>. USE DEF IInv, Message
<1>1. ASSUME NEW f \in Frames, PumpReads(f) PROVE Message'
  <2>1. buf \in Seq(Frames) /\ pump = "read" /\ buf = stream
    BY <1>1 DEF PumpReads, TypeOK
  <2>2. CASE PumpTakesData(f)
    <3>1. stream' = Append(buf, f) /\ buf' = Append(buf, f)
      BY <1>1, <2>1, <2>2 DEF PumpReads, PumpTakesData
    <3>2. /\ Len(buf) \in Nat /\ Len(buf') = Len(buf) + 1 /\ buf'[Len(buf) + 1] = f
          /\ \A i \in 1 .. Len(buf) : buf'[i] = buf[i]
      BY <2>1, <3>1, AppendProperties
    <3>3. f.op = (IF Len(buf) = 0 THEN "data" ELSE "cont")
      BY <2>1, <2>2, EmptySeq DEF PumpTakesData, Fits
    <3>4. pump' = IF f.fin THEN "took" ELSE "read"
      BY <2>1, <2>2 DEF PumpTakesData
    <3>. HIDE DEF Message
    <3>5. \A i \in 1 .. Len(buf) :
            buf[i].op = (IF i = 1 THEN "data" ELSE "cont") /\ ~buf[i].fin
      BY <2>1 DEF Message
    <3>6. \A i \in 1 .. Len(buf') : buf'[i].op = (IF i = 1 THEN "data" ELSE "cont")
      BY <3>2, <3>3, <3>5
    <3>7. \A i \in 1 .. Len(buf') : i # Len(buf') => ~buf'[i].fin
      BY <3>2, <3>5
    <3>8. Len(buf') \in 1 .. Len(buf') /\ buf'[Len(buf')] = f
      BY <3>2
    <3>. QED
      BY <3>1, <3>4, <3>6, <3>7, <3>8 DEF Message
  <2>3. CASE ~PumpTakesData(f)
    <3>1. buf' = buf /\ (pump' = "failed" \/ (pump' \in {"read", "pong", "echo"} /\ stream' = stream))
      BY <1>1, <2>1, <2>3 DEF PumpReads, PumpAnswersPing, PumpSkipsPong, PumpEchoesClose,
                              PumpRejects, IsData
    <3>. QED
      BY <2>1, <3>1
  <2>. QED
    BY <2>2, <2>3
<1>2. CASE UNCHANGED <<pump, buf, stream>>
  BY <1>2
<1>3. CASE ReadReturns
  BY <1>3, EmptySeq DEF ReadReturns
<1>4. CASE PumpLocks \/ PumpArmsDeadline \/ PumpRecvs \/ PumpDecodes
  BY <1>4, EmptySeq DEF PumpLocks, PumpArmsDeadline, PumpRecvs, PumpDecodes
<1>5. CASE PumpReadFails \/ PumpPonged \/ PumpEchoed
  BY <1>5 DEF PumpReadFails, PumpPonged, PumpEchoed
<1>6. CASE PumpWrites \/ CloserWrites \/ \E w \in Writers : SpeechWrites(w)
  BY <1>2, <1>6, Writes DEF pumpVars
<1>. QED
  BY <1>1, <1>2, <1>3, <1>4, <1>5, <1>6
     DEF Next, Pump, Closer, Drain, Peer, Finished, vars, pumpVars,
         DeadlinePasses, ContextEnds, AfterFunc, AfterFuncStarts, AfterFuncRuns,
         CloserCloses, CloserMarks, CloserHangsUp, CloserDrains, CloserStopsWaiting,
         CloserJoinsDrain, RunReturns, DrainEnds, SpeechStarts

-----------------------------------------------------------------------------
(* The theorems.                                                           *)

LEMMA Starts == Init => IInv
<1>. SUFFICES ASSUME Init PROVE IInv
  OBVIOUS
<1>. USE ActorsDiffer DEF Init, ConnInit
<1>1. TypeOK
  <2>1. ConnTypeOK
    <3>1. unread \in 0 .. SockBuf /\ incoming \in 0 .. MaxIn
      BY ConnAssumption
    <3>2. wr \in [Actors -> WritePlaces]
      BY DEF WritePlaces
    <3>. QED
      BY <3>1, <3>2 DEF ConnTypeOK
  <2>2. RunTypeOK
    BY EmptySeq DEF RunTypeOK, RunPlaces, PumpPlaces
  <2>. QED
    BY <2>1, <2>2, TypesSplit
<1>2. Locks /\ Closing /\ Writing
  BY DEF Locks, Closing, Writing, InRead
<1>3. OnWire /\ Message
  BY EmptySeq DEF OnWire, Message
<1>. QED
  BY <1>1, <1>2, <1>3 DEF IInv

(* The inductive invariant: who holds a lock is where it is held, Close    *)
(* comes as far as its flags say, a header waits for its payload, and what *)
(* has been read so far begins a message (ws.go:239, :307, :351, :486).    *)
THEOREM Invariant == Spec => []IInv
<1>1. TypeOK /\ [Next]_vars => TypeOK'
  BY ConnTypeStep, RunTypeStep DEF TypeOK, RunTypeOK
<1>2. IInv /\ [Next]_vars => IInv'
  BY <1>1, LocksStep, WireStep, MessageStep DEF IInv
<1>. QED
  BY <1>2, Starts, PTL DEF Spec

(* The variables of the connection and of the run keep their types.        *)
THEOREM TypeCorrect == Spec => []TypeOK
<1>1. IInv => TypeOK
  BY DEF IInv
<1>. QED
  BY <1>1, Invariant, PTL

(* The pump and Close's goroutine never share the connection's reader      *)
(* (ws.go:496).                                                            *)
THEOREM OneReaderOnly == Spec => []OneReader
<1>1. IInv => OneReader
  BY DEF IInv, Locks, Closing, InRead, OneReader
<1>. QED
  BY <1>1, Invariant, PTL

(* A message that Read returns is what the peer sent as one, control       *)
(* frames left out (ws.go:364).                                            *)
THEOREM MessagesAreReassembled == Spec => []Reassembled
<1>1. IInv => Reassembled
  <2>. SUFFICES ASSUME IInv, pump = "took" PROVE Reassembled
    BY DEF Reassembled
  <2>1. DOMAIN buf = 1 .. Len(buf)
    BY LenProperties DEF IInv, TypeOK
  <2>2. buf = stream
    BY DEF IInv, Message
  <2>3. \A i \in 1 .. Len(buf) : (buf[i].fin <=> i = Len(buf))
    BY DEF IInv, Message
  <2>4. \A i \in 1 .. Len(buf) : buf[i].op = (IF i = 1 THEN "data" ELSE "cont")
    BY DEF IInv, Message
  <2>. QED
    BY <2>1, <2>2, <2>3, <2>4, Zenon DEF Reassembled
<1>. QED
  BY <1>1, Invariant, PTL

(* RunLive returns with its goroutines ended and its connection closed     *)
(* (live.go:125, ws.go:480).                                               *)
THEOREM RunLeavesNothing == Spec => []NothingLeftRunning
<1>1. IInv => NothingLeftRunning
  BY DEF IInv, TypeOK, ConnTypeOK, Locks, Closing, InRead, NothingLeftRunning
<1>. QED
  BY <1>1, Invariant, PTL

(* What a step that writes is. *)
LEMMA WroteBy ==
  ASSUME IInv, [Next]_vars, last' # last
  PROVE  /\ ~down /\ ~gone
         /\ \E a \in Actors :
              \/ wr[a] = "header" /\ ~WriteExpired /\ last' = <<a, "header">>
              \/ wr[a] = "payload" /\ last' = <<a, "payload">>
<1>1. CASE PumpWrites \/ CloserWrites \/ \E w \in Writers : SpeechWrites(w)
  <2>1. PICK a \in Actors, guarded \in BOOLEAN : Write(a, guarded)
    BY <1>1, Writes
  <2>2. WriteHeader(a) \/ WritePayload(a)
    BY <2>1 DEF Write, WriteLocks, WriteRefused, WriteFails
  <2>. QED
    BY <2>2 DEF WriteHeader, WritePayload, Puts
<1>2. CASE ~(PumpWrites \/ CloserWrites \/ \E w \in Writers : SpeechWrites(w))
  BY <1>2 DEF Next, Pump, Closer, Drain, Peer, Finished, vars, connVars, lockVars,
       DeadlinePasses, ContextEnds, AfterFunc, AfterFuncStarts, AfterFuncRuns,
       PumpRecvs, PumpLocks, PumpArmsDeadline, PumpReadFails, PumpDecodes, PumpPonged,
       PumpEchoed, ReadReturns, PumpReads, CloserCloses, CloserMarks, CloserHangsUp,
       CloserDrains, CloserStopsWaiting, CloserJoinsDrain, RunReturns, DrainEnds,
       PeerMoves, PeerReads, PeerLeaves, SpeechStarts
<1>. QED
  BY <1>1, <1>2

(* However many speech timers, pongs and Close frames contend for the      *)
(* connection, each payload follows its own header (ws.go:239, :540).      *)
THEOREM FramesAreWhole == Spec => FramesWhole
<1>1. IInv /\ [Next]_vars => [Wrote("payload") => last = <<last'[1], "header">>]_vars
  <2>. SUFFICES ASSUME IInv, [Next]_vars, Wrote("payload")
                PROVE  last = <<last'[1], "header">>
    OBVIOUS
  <2>1. PICK a \in Actors :
          \/ wr[a] = "header" /\ last' = <<a, "header">>
          \/ wr[a] = "payload" /\ last' = <<a, "payload">>
    BY WroteBy DEF Wrote
  <2>2. wr[a] = "payload" /\ last' = <<a, "payload">>
    BY <2>1 DEF Wrote
  <2>. QED
    BY <2>2 DEF IInv, OnWire
<1>. QED
  BY <1>1, Invariant, PTL DEF Spec, FramesWhole

(* Nothing but a Close frame is written after a frame that was cut short   *)
(* (ws.go:245).                                                            *)
THEOREM CutShortIsLast == Spec => CutShort
<1>1. IInv /\ [Next]_vars =>
        [Wrote("header") /\ last # << >> /\ last[1] # "closer" =>
           last[2] = "payload" \/ last'[1] = "closer"]_vars
  <2>. SUFFICES ASSUME IInv, [Next]_vars, Wrote("header"), last # << >>, last[1] # "closer",
                       last[2] # "payload", last'[1] # "closer"
                PROVE  FALSE
    OBVIOUS
  <2>1. PICK a \in Actors :
          \/ wr[a] = "header" /\ ~WriteExpired /\ last' = <<a, "header">>
          \/ wr[a] = "payload" /\ last' = <<a, "payload">>
    BY WroteBy DEF Wrote
  <2>2. wr[a] = "header" /\ ~WriteExpired /\ a # "closer" /\ ~down /\ ~gone
    BY <2>1, WroteBy DEF Wrote
  <2>3. wmu = a /\ wdl = WriteDeadline(a)
    BY <2>2, ActorsDiffer DEF IInv, Locks
  <2>4. ~(HasDeadline /\ due)
    BY <2>2, <2>3 DEF WriteExpired, WriteDeadline
  <2>5. PICK b \in Actors : last = <<b, "header">> /\ b # "closer"
    BY DEF IInv, TypeOK, ConnTypeOK, Parts
  <2>6. wr[b] = "payload"
    BY <2>2, <2>4, <2>5 DEF IInv, OnWire
  <2>7. wmu = b
    BY <2>6 DEF IInv, Locks
  <2>. QED
    BY <2>2, <2>3, <2>6, <2>7
<1>. QED
  BY <1>1, Invariant, PTL DEF Spec, CutShort
=============================================================================
