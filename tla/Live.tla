-------------------------------- MODULE Live --------------------------------
(***************************************************************************)
(* A live run of one session, internal/engine/live.go, over one WSConn:    *)
(* RunLive's own goroutine, which closes the connection when the run's     *)
(* context ends, the session's read pump (Session.Serve, WSTransport.Recv, *)
(* WSConn.Read), the speech timers, the goroutine of Read's AfterFunc and  *)
(* the one that drains the connection for Close.  Sessions of one run      *)
(* share the context only.                                                 *)
(***************************************************************************)
EXTENDS WSConn, Sequences

VARIABLES
  ctx,       \* the run's context is done
  mpc,       \* where RunLive is
  pump,      \* where the read pump is
  stream,    \* the data frames this Read has read
  buf,       \* the message it is reassembling
  pending,   \* decoded frames that Recv has yet to return
  armed,     \* Read registered an AfterFunc neither started nor stopped
  afters,    \* AfterFunc goroutines started and not finished
  drain      \* Close's goroutine

pumpVars == <<pump, stream, buf, pending>>
afterVars == <<armed, afters>>
vars == <<connVars, ctx, mpc, pumpVars, afterVars, drain>>

RunPlaces  == {"run", "closing", "try", "drain", "join", "workers", "returned"}
PumpPlaces == {"recv", "lock", "arm", "read", "pong", "echo", "took", "failed",
               "decode", "done"}

TypeOK ==
  /\ ConnTypeOK
  /\ ctx \in BOOLEAN
  /\ mpc \in RunPlaces /\ pump \in PumpPlaces
  /\ stream \in Seq(Frames) /\ buf \in Seq(Frames)
  /\ pending \in Nat
  /\ armed \in BOOLEAN /\ afters \in Nat
  /\ drain \in {"off", "reading", "done"}

(* Dialed, primed, the pump launched. *)
Init ==
  /\ ConnInit
  /\ ctx = FALSE /\ mpc = "run" /\ pump = "recv"
  /\ stream = <<>> /\ buf = <<>> /\ pending = 0
  /\ armed = FALSE /\ afters = 0 /\ drain = "off"

-----------------------------------------------------------------------------
(* Time.  The run's context ends at its deadline, or when the caller's is  *)
(* cancelled.                                                              *)
DeadlinePasses ==
  /\ HasDeadline /\ ~due
  /\ due' = TRUE
  /\ UNCHANGED <<lockVars, rdl, wdl, wr, last, unread, incoming, gone,
                 ctx, mpc, pumpVars, afterVars, drain>>

ContextEnds ==
  /\ ~ctx
  /\ ctx' = TRUE
  /\ UNCHANGED <<connVars, mpc, pumpVars, afterVars, drain>>

ContextExpires == due /\ ContextEnds

-----------------------------------------------------------------------------
(* The read pump.                                                          *)

Guarded(a) == a \in Writers \/ (a = "pump" /\ pump = "pong")

(* Recv returns a frame that is left, or calls Read. *)
(* Mutant: Recv does not look whether one is left. *)
PumpRecvsUnchecked ==
  /\ pump = "recv"
  /\ pending' = pending - 1
  /\ UNCHANGED <<connVars, ctx, mpc, pump, stream, buf, afterVars, drain>>
PumpRecvs ==
  /\ pump = "recv"
  /\ IF pending > 0 THEN pending' = pending - 1 /\ UNCHANGED pump
                    ELSE pump' = "lock" /\ UNCHANGED pending
  /\ UNCHANGED <<connVars, ctx, mpc, stream, buf, afterVars, drain>>

(* Read: rmu.Lock(), context.AfterFunc. *)
PumpLocks ==
  /\ pump = "lock" /\ rmu = "free"
  /\ rmu' = "pump"
  /\ IF ctx THEN afters' = afters + 1 /\ UNCHANGED armed
            ELSE armed' = TRUE /\ UNCHANGED afters
  /\ pump' = "arm"
  /\ UNCHANGED <<wmu, closed, down, due, rdl, wdl, wr, last, unread, incoming,
                 gone, ctx, mpc, stream, buf, pending, drain>>

PumpArmsDeadline ==
  /\ pump = "arm"
  /\ rdl' = IF HasDeadline /\ ~down THEN "ctx" ELSE rdl
  /\ pump' = IF HasDeadline /\ down THEN "failed" ELSE "read"
  /\ UNCHANGED <<lockVars, due, wdl, wr, last, unread, incoming, gone,
                 ctx, mpc, stream, buf, pending, afterVars, drain>>

(* What Read does with a frame. *)
PumpAnswersPing(f) ==
  /\ f.op = "ping"
  /\ CallsWrite("pump")
  /\ pump' = "pong"
  /\ UNCHANGED buf

PumpSkipsPong(f) ==
  /\ f.op = "pong"
  /\ UNCHANGED <<wr, pump, buf>>

PumpEchoesClose(f) ==
  /\ f.op = "close"
  /\ CallsWrite("pump")
  /\ pump' = "echo"
  /\ UNCHANGED buf

(* A message starts with a data frame when there is none, goes on with     *)
(* continuations, and fits maxMsg.                                         *)
(* Mutant: a data frame may interrupt a message. *)
FitsWhateverItStarts(f) ==
  /\ f.op = "cont" => buf # <<>>
  /\ Len(buf) < MaxMsg
Fits(f) ==
  /\ f.op = (IF buf = <<>> THEN "data" ELSE "cont")
  /\ Len(buf) < MaxMsg

PumpTakesData(f) ==
  /\ IsData(f) /\ Fits(f)
  /\ buf' = Append(buf, f)
  /\ pump' = IF f.fin THEN "took" ELSE pump
  /\ UNCHANGED wr

PumpRejects(f) ==
  /\ f.op = "bad" \/ (IsData(f) /\ ~Fits(f))
  /\ pump' = "failed"
  /\ UNCHANGED <<wr, buf>>

PumpReads(f) ==
  /\ pump = "read" /\ ReadsFrame(f)
  /\ stream' = IF IsData(f) THEN Append(stream, f) ELSE stream
  /\ \/ PumpAnswersPing(f) \/ PumpSkipsPong(f) \/ PumpEchoesClose(f)
     \/ PumpTakesData(f) \/ PumpRejects(f)
  /\ UNCHANGED <<lockVars, due, rdl, wdl, last, unread, gone, ctx, mpc, pending,
                 afterVars, drain>>

PumpReadFails ==
  /\ pump = "read" /\ ReadFails
  /\ pump' = "failed"
  /\ UNCHANGED <<connVars, ctx, mpc, stream, buf, pending, afterVars, drain>>

PumpPonged ==
  /\ pump = "pong" /\ wr["pump"] \in {"sent", "failed"}
  /\ pump' = IF wr["pump"] = "sent" THEN "read" ELSE "failed"
  /\ wr' = [wr EXCEPT !["pump"] = "no"]
  /\ UNCHANGED <<lockVars, due, rdl, wdl, last, unread, incoming, gone,
                 ctx, mpc, stream, buf, pending, afterVars, drain>>

(* The echo is best effort; then markClosed. *)
PumpEchoed ==
  /\ pump = "echo" /\ wr["pump"] \in {"sent", "failed"}
  /\ closed' = TRUE
  /\ pump' = "failed"
  /\ wr' = [wr EXCEPT !["pump"] = "no"]
  /\ UNCHANGED <<wmu, rmu, down, due, rdl, wdl, last, unread, incoming, gone,
                 ctx, mpc, stream, buf, pending, afterVars, drain>>

(* Read's deferred calls: clear the deadline, stop the AfterFunc, unlock;  *)
(* an error ends Recv, Serve and the goroutine.                            *)
ReadReturns ==
  /\ pump \in {"took", "failed"}
  /\ rdl' = IF closed \/ down THEN rdl ELSE "none"
  /\ armed' = FALSE
  /\ rmu' = "free"
  /\ pump' = IF pump = "took" THEN "decode" ELSE "done"
  /\ stream' = <<>> /\ buf' = <<>>
  /\ UNCHANGED <<wmu, closed, down, due, wdl, wr, last, unread, incoming,
                 gone, ctx, mpc, pending, afters, drain>>

(* DecodeRecv makes frames of a message (two at most: a bound), or fails.  *)
PumpDecodes ==
  /\ pump = "decode"
  /\ \/ pump' = "recv" /\ pending' \in 0 .. 2
     \/ pump' = "done" /\ UNCHANGED pending
  /\ UNCHANGED <<connVars, ctx, mpc, stream, buf, afterVars, drain>>

PumpWrites ==
  /\ Write("pump", Guarded("pump"))
  /\ UNCHANGED <<ctx, mpc, pumpVars, afterVars, drain>>

Pump ==
  \/ PumpRecvs \/ PumpLocks \/ PumpArmsDeadline
  \/ PumpReadFails \/ PumpPonged \/ PumpEchoed
  \/ ReadReturns \/ PumpDecodes \/ PumpWrites

(* Cancellation forces a read deadline in the past. *)
AfterFuncStarts ==
  /\ ctx /\ armed
  /\ armed' = FALSE /\ afters' = afters + 1
  /\ UNCHANGED <<connVars, ctx, mpc, pumpVars, drain>>

AfterFuncRuns ==
  /\ afters > 0
  /\ afters' = afters - 1
  /\ rdl' = IF down THEN rdl ELSE "past"
  /\ UNCHANGED <<lockVars, due, wdl, wr, last, unread, incoming, gone,
                 ctx, mpc, pumpVars, armed, drain>>

AfterFunc == AfterFuncStarts \/ AfterFuncRuns

-----------------------------------------------------------------------------
(* A speech timer: nothing stops it when the run is over.                  *)
SpeechStarts(w) ==
  /\ wr[w] = "no"
  /\ CallsWrite(w)
  /\ UNCHANGED <<lockVars, due, rdl, wdl, last, unread, incoming, gone,
                 ctx, mpc, pumpVars, afterVars, drain>>

SpeechWrites(w) ==
  /\ Write(w, Guarded(w))
  /\ UNCHANGED <<ctx, mpc, pumpVars, afterVars, drain>>

-----------------------------------------------------------------------------
(* RunLive's goroutine: <-runCtx.Done(), Close, wg.Wait().                 *)

CloserCloses ==
  /\ mpc = "run" /\ ctx
  /\ CallsWrite("closer")
  /\ mpc' = "closing"
  /\ UNCHANGED <<lockVars, due, rdl, wdl, last, unread, incoming, gone,
                 ctx, pumpVars, afterVars, drain>>

CloserWrites ==
  /\ Write("closer", FALSE)
  /\ UNCHANGED <<ctx, mpc, pumpVars, afterVars, drain>>

CloserMarks ==
  /\ mpc = "closing" /\ wr["closer"] \in {"sent", "failed"}
  /\ closed' = TRUE
  /\ mpc' = "try"
  /\ UNCHANGED <<wmu, rmu, down, due, rdl, wdl, wr, last, unread, incoming,
                 gone, ctx, pumpVars, afterVars, drain>>

(* TryLock fails: whoever reads will see the connection go. *)
CloserHangsUp ==
  /\ mpc = "try" /\ rmu # "free"
  /\ down' = TRUE
  /\ mpc' = "workers"
  /\ UNCHANGED <<wmu, rmu, closed, due, rdl, wdl, wr, last, unread, incoming,
                 gone, ctx, pumpVars, afterVars, drain>>

(* Mutant: the drain starts whether or not the lock was free. *)
CloserDrainsAnyway ==
  /\ mpc = "try"
  /\ rmu' = "closer" /\ drain' = "reading"
  /\ mpc' = "drain"
  /\ UNCHANGED <<wmu, closed, down, due, rdl, wdl, wr, last, unread, incoming,
                 gone, ctx, pumpVars, afterVars>>
CloserDrains ==
  /\ mpc = "try" /\ rmu = "free"
  /\ rmu' = "closer" /\ drain' = "reading"
  /\ mpc' = "drain"
  /\ UNCHANGED <<wmu, closed, down, due, rdl, wdl, wr, last, unread, incoming,
                 gone, ctx, pumpVars, afterVars>>

(* The drain is over, or its second has passed. *)
(* Mutant: no timer. *)
CloserWaitsForDrain ==
  /\ mpc = "drain" /\ drain = "done"
  /\ down' = TRUE
  /\ mpc' = "join"
  /\ UNCHANGED <<wmu, rmu, closed, due, rdl, wdl, wr, last, unread, incoming,
                 gone, ctx, pumpVars, afterVars, drain>>
CloserStopsWaiting ==
  /\ mpc = "drain"
  /\ down' = TRUE
  /\ mpc' = "join"
  /\ UNCHANGED <<wmu, rmu, closed, due, rdl, wdl, wr, last, unread, incoming,
                 gone, ctx, pumpVars, afterVars, drain>>

(* Mutant: Close does not join the goroutine. *)
CloserDetachesDrain ==
  /\ mpc = "join"
  /\ rmu' = "free"
  /\ mpc' = "workers"
  /\ UNCHANGED <<wmu, closed, down, due, rdl, wdl, wr, last, unread, incoming,
                 gone, ctx, pumpVars, afterVars, drain>>
CloserJoinsDrain ==
  /\ mpc = "join" /\ drain = "done"
  /\ rmu' = "free"
  /\ mpc' = "workers"
  /\ UNCHANGED <<wmu, closed, down, due, rdl, wdl, wr, last, unread, incoming,
                 gone, ctx, pumpVars, afterVars, drain>>

RunReturns ==
  /\ mpc = "workers" /\ pump = "done"
  /\ mpc' = "returned"
  /\ UNCHANGED <<connVars, ctx, pumpVars, afterVars, drain>>

Closer ==
  \/ CloserCloses \/ CloserWrites \/ CloserMarks \/ CloserHangsUp
  \/ CloserDrains \/ CloserStopsWaiting \/ CloserJoinsDrain \/ RunReturns

(* Close's goroutine reads on until a Close frame, a frame that is none,   *)
(* or an error.                                                            *)
DrainEnds ==
  /\ drain = "reading"
  /\ drain' = "done"
  /\ UNCHANGED <<connVars, ctx, mpc, pumpVars, afterVars>>

Drain == ReadFails /\ DrainEnds

-----------------------------------------------------------------------------
(* The peer reads, leaves, or sends a frame to whoever is reading. *)
Peer ==
  \/ PeerMoves /\ UNCHANGED <<ctx, mpc, pumpVars, afterVars, drain>>
  \/ \E f \in Frames : PumpReads(f)
  \/ DrainEnds

Finished == mpc = "returned" /\ UNCHANGED vars

Next ==
  \/ DeadlinePasses \/ ContextEnds
  \/ Pump \/ AfterFunc \/ Closer \/ Drain \/ Peer
  \/ \E w \in Writers : SpeechStarts(w) \/ SpeechWrites(w)
  \/ Finished

Spec == Init /\ [][Next]_vars

(* Every goroutine that can go on does, and clocks do not stop.  Nobody    *)
(* else has to do anything: not the peer, not the caller of RunLive.       *)
FairSpec ==
  /\ Spec
  /\ WF_vars(Pump) /\ WF_vars(AfterFunc) /\ WF_vars(Closer) /\ WF_vars(Drain)
  /\ \A w \in Writers : WF_vars(SpeechWrites(w))
  /\ WF_vars(DeadlinePasses) /\ WF_vars(ContextExpires)

-----------------------------------------------------------------------------
(* Properties.                                                             *)

(* The pump and Close's goroutine never read frames off the connection at  *)
(* the same time: they would share one bufio.Reader.                       *)
OneReader ==
  ~(pump \in {"arm", "read", "pong", "echo", "took", "failed"} /\ drain = "reading")

Wrote(part) == last' # last /\ last'[2] = part

(* Frames do not interleave on the wire: a payload follows its own header. *)
FramesWhole ==
  [][Wrote("payload") => last = <<last'[1], "header">>]_vars

(* A message or a pong that the run's deadline cut short is the last thing *)
(* written, but for the Close frame: the rest fail before their header.    *)
CutShort ==
  [][Wrote("header") /\ last # <<>> /\ last[1] # "closer" =>
       last[2] = "payload" \/ last'[1] = "closer"]_vars

(* A message that Read returns is made of the data frames it read, all of  *)
(* them and in order, begins where the peer began one and ends where the   *)
(* peer ended it, whatever control frames came in between.                 *)
Reassembled ==
  pump = "took" =>
    /\ buf = stream
    /\ \A i \in DOMAIN buf :
         /\ buf[i].fin <=> i = Len(buf)
         /\ buf[i].op = (IF i = 1 THEN "data" ELSE "cont")

(* When RunLive returns, the pump and Close's goroutine have ended and the *)
(* connection is closed; only speech timers may be left.                   *)
NothingLeftRunning ==
  mpc = "returned" =>
    pump = "done" /\ drain # "reading" /\ down /\ closed /\ rmu = "free"

(* transport.go:28-29, live.go:116: once its context is done RunLive       *)
(* closes the connection, gets everyone off it and returns.                *)
RunEnds == ctx ~> mpc = "returned"
=============================================================================
