------------------------------- MODULE Engine -------------------------------
(***************************************************************************)
(* One offline run, internal/engine/engine.go: Run launches two tracked    *)
(* goroutines per session (the agent's driver and the session's read       *)
(* pump, here one worker per transport end) and a cancellation watcher,    *)
(* drives the shared ManualClock to quiescence on its own goroutine,       *)
(* closes every end and joins everything it started.  The ends are those   *)
(* of Loopback; a context.AfterFunc goroutine wakes an end on              *)
(* cancellation.                                                           *)
(*                                                                         *)
(* An action is one critical section, or one step nothing can interleave   *)
(* with.  The clock's heap is abstracted to how many callbacks of each     *)
(* kind it holds: Advance may pop any of them, so what holds here holds    *)
(* for every order of the heap (Conversation has the times and the order). *)
(***************************************************************************)
EXTENDS Loopback, Integers, FiniteSets

CONSTANTS
  Prompts,    \* caller speech frames primed per session
  MaxWork,    \* bound: timers that reactions and callbacks may add in a run
  SemCap      \* capacity of Instrumentation.Sem

(* Run: "an Instrumentation.Sem must admit at least 2*sc.Callers tokens". *)
ASSUME SessionsAssumption ==
  Sessions # {} /\ Sessions \subseteq Nat /\ IsFiniteSet(Sessions)
ASSUME BoundsAssumption == Prompts \in Nat /\ MaxWork \in Nat
ASSUME SemAssumption == SemCap \in Nat /\ SemCap >= 2 * Cardinality(Sessions)

VARIABLES
  ctx,        \* the run's context is cancelled
  mpc,        \* where Run's own goroutine, the clock driver, is
  cur,        \* the end whose timer it fires or to which it delivers
  before,     \* deliver's snapshot of parkSeq
  mainLeft,   \* ends its closeAllEnds has yet to close
  wst,        \* where the cancellation watcher is
  watchLeft,  \* ends the watcher's closeAllEnds has yet to close
  wpc,        \* where the worker of each end is
  armed,      \* its Recv registered an AfterFunc neither started nor stopped
  afters,     \* AfterFunc goroutines started and not finished, by end
  holders,    \* workers holding a token of Sem
  live, peak, \* workers counted live, and the most there were
  wg,         \* workers added to the WaitGroup and not Done
  timers,     \* callbacks on the heap, by the end of the party that set them
  arrivals,   \* deliveries on the heap, by destination
  work,       \* what is left of MaxWork
  sent, dropped, consumed, lost,  \* frames, by end: accepted by Send; dropped
              \* by its delay; returned by Recv; abandoned by deliver
  result      \* what Run returned

runVars  == <<mpc, cur, before, mainLeft, result>>
watchVars == <<wst, watchLeft>>
afterVars == <<armed, afters>>
trackVars == <<holders, live, peak, wg>>
heapVars == <<timers, arrivals, work>>
countVars == <<sent, dropped, consumed, lost>>
vars == <<endVars, ctx, runVars, watchVars, wpc, afterVars, trackVars,
          heapVars, countVars>>

Driving     == {"launch", "drive", "advance", "fire", "deliver", "rendezvous"}
TearingDown == {"close", "join", "wait", "returned"}
WorkerPcs   == {"off", "starting", "call", "recv", "took", "react", "failed",
                "exit", "uncounted", "released", "done"}

TypeOK ==
  /\ EndTypeOK
  /\ ctx \in BOOLEAN
  /\ mpc \in Driving \cup TearingDown
  /\ cur \in Ends
  /\ before \in Nat
  /\ mainLeft \subseteq Ends
  /\ wst \in {"off", "select", "closing", "done"}
  /\ watchLeft \subseteq Ends
  /\ wpc \in [Ends -> WorkerPcs]
  /\ armed \in [Ends -> BOOLEAN]
  /\ afters \in [Ends -> Nat]
  /\ holders \subseteq Ends /\ live \subseteq Ends /\ wg \subseteq Ends
  /\ peak \in Nat
  /\ timers \in [Ends -> Nat] /\ arrivals \in [Ends -> Nat]
  /\ work \in Nat
  /\ sent \in [Ends -> Nat] /\ dropped \in [Ends -> Nat]
  /\ consumed \in [Ends -> Nat] /\ lost \in [Ends -> Nat]
  /\ result \in {"running", "ok", "ctxErr"}

Zero == [e \in Ends |-> 0]
HeapEmpty == timers = Zero /\ arrivals = Zero

(* Rigs built and every session primed, nothing launched. *)
Init ==
  /\ EndInit
  /\ ctx = FALSE
  /\ mpc = "launch" /\ cur = CHOOSE e \in Ends : TRUE
  /\ before = 0 /\ mainLeft = Ends
  /\ wst = "off" /\ watchLeft = Ends
  /\ wpc = [e \in Ends |-> "off"]
  /\ armed = [e \in Ends |-> FALSE] /\ afters = Zero
  /\ holders = {} /\ live = {} /\ peak = 0 /\ wg = {}
  /\ timers = [e \in Ends |-> IF e[1] = "caller" THEN Prompts ELSE 0]
  /\ arrivals = Zero
  /\ work = MaxWork
  /\ sent = Zero /\ dropped = Zero /\ consumed = Zero /\ lost = Zero
  /\ result = "running"

(* The context's deadline passes, or the run is interrupted. *)
Cancel ==
  /\ ~ctx /\ mpc # "returned"
  /\ ctx' = TRUE
  /\ UNCHANGED <<endVars, runVars, watchVars, wpc, afterVars, trackVars,
                 heapVars, countVars>>

-----------------------------------------------------------------------------
(* Run's goroutine: launching the workers through track.                   *)

(* The loops over rigs: session by session, one side before the other. *)
Earlier(e, f, firstSide) ==
  e[2] < f[2] \/ (e[2] = f[2] /\ e[1] = firstSide /\ f[1] # firstSide)
IsFirst(e, S, firstSide) ==
  e \in S /\ \A f \in S \ {e} : Earlier(e, f, firstSide)

Unlaunched == {e \in Ends : wpc[e] = "off"}

(* inst.Sem <- struct{}{} *)
TrackAcquires(e) ==
  /\ mpc = "launch" /\ IsFirst(e, Unlaunched, "agent")
  /\ \A f \in Ends : wpc[f] # "starting"
  /\ Cardinality(holders) < SemCap
  /\ holders' = holders \cup {e}
  /\ wpc' = [wpc EXCEPT ![e] = "starting"]
  /\ UNCHANGED <<endVars, ctx, runVars, watchVars, afterVars, live, peak, wg,
                 heapVars, countVars>>

(* wg.Add(1), the live and peak counters, and the go statement. *)
TrackStarts(e) ==
  /\ mpc = "launch" /\ wpc[e] = "starting"
  /\ wg' = wg \cup {e}
  /\ live' = live \cup {e}
  /\ peak' = IF Cardinality(live') > peak THEN Cardinality(live') ELSE peak
  /\ wpc' = [wpc EXCEPT ![e] = "call"]
  /\ UNCHANGED <<endVars, ctx, runVars, watchVars, afterVars, holders,
                 heapVars, countVars>>

StartWatcher ==
  /\ mpc = "launch"
  /\ \A e \in Ends : wpc[e] \notin {"off", "starting"}
  /\ wst' = "select"
  /\ mpc' = "drive"
  /\ UNCHANGED <<endVars, ctx, cur, before, mainLeft, result, watchLeft, wpc,
                 afterVars, trackVars, heapVars, countVars>>

-----------------------------------------------------------------------------
(* Run's goroutine: drive and ManualClock.Advance.                         *)

(* drive looks at ctx.Err() between two Advances, and only there. *)
DriveChecks ==
  /\ mpc = "drive"
  /\ mpc' = IF ctx THEN "close" ELSE "advance"
  /\ UNCHANGED <<endVars, ctx, cur, before, mainLeft, result, watchVars, wpc,
                 afterVars, trackVars, heapVars, countVars>>

AdvanceFindsEmpty ==
  /\ mpc = "advance" /\ HeapEmpty
  /\ mpc' = "close"
  /\ UNCHANGED <<endVars, ctx, cur, before, mainLeft, result, watchVars, wpc,
                 afterVars, trackVars, heapVars, countVars>>

(* Mutant: Advance pops without looking whether there is anything to pop. *)
AdvancePopsUnchecked(e) ==
  /\ mpc = "advance"
  /\ timers' = [timers EXCEPT ![e] = @ - 1]
  /\ cur' = e /\ mpc' = "fire"
  /\ UNCHANGED <<endVars, ctx, before, mainLeft, result, watchVars, wpc,
                 afterVars, trackVars, arrivals, work, countVars>>
AdvancePopsTimer(e) ==
  /\ mpc = "advance" /\ timers[e] > 0
  /\ timers' = [timers EXCEPT ![e] = @ - 1]
  /\ cur' = e /\ mpc' = "fire"
  /\ UNCHANGED <<endVars, ctx, before, mainLeft, result, watchVars, wpc,
                 afterVars, trackVars, arrivals, work, countVars>>

AdvancePopsArrival(e) ==
  /\ mpc = "advance" /\ arrivals[e] > 0
  /\ arrivals' = [arrivals EXCEPT ![e] = @ - 1]
  /\ cur' = e /\ mpc' = "deliver"
  /\ UNCHANGED <<endVars, ctx, before, mainLeft, result, watchVars, wpc,
                 afterVars, trackVars, timers, work, countVars>>

(* An agent's callback may set timers of its own (startTurn). *)
CallbackSchedules ==
  /\ mpc = "fire" /\ cur[1] = "agent" /\ work > 0
  /\ timers' = [timers EXCEPT ![cur] = @ + 1]
  /\ work' = work - 1
  /\ UNCHANGED <<endVars, ctx, runVars, watchVars, wpc, afterVars, trackVars,
                 arrivals, countVars>>

(* A callback that sends nothing: suppressed, stale or refused by Send. *)
CallbackEnds ==
  /\ mpc = "fire"
  /\ mpc' = "drive"
  /\ UNCHANGED <<endVars, ctx, cur, before, mainLeft, result, watchVars, wpc,
                 afterVars, trackVars, heapVars, countVars>>

(* A callback ends by sending a frame.  Send refuses it when the context   *)
(* is cancelled or the end closed; only the downlink is impaired.          *)
CallbackSends ==
  /\ mpc = "fire" /\ ~ctx /\ ~closed[cur]
  /\ sent' = [sent EXCEPT ![cur] = @ + 1]
  /\ \/ /\ arrivals' = [arrivals EXCEPT ![Peer(cur)] = @ + 1]
        /\ UNCHANGED dropped
     \/ /\ cur[1] = "agent"
        /\ dropped' = [dropped EXCEPT ![cur] = @ + 1]
        /\ UNCHANGED arrivals
  /\ mpc' = "drive"
  /\ UNCHANGED <<endVars, ctx, cur, before, mainLeft, result, watchVars, wpc,
                 afterVars, trackVars, timers, work, consumed, lost>>

(* The driver runs on unless it is blocked in cur's e.cond.Wait(). *)
DriverAwake == "driver" \notin waiting[cur]

DeliverWaits ==
  /\ mpc = "deliver" /\ DriverAwake
  /\ DeliverBlocks(cur)
  /\ UNCHANGED <<ctx, runVars, watchVars, wpc, afterVars, trackVars, heapVars,
                 countVars>>

DeliverAbandons ==
  /\ mpc = "deliver" /\ DriverAwake /\ DeliverGivesUp(cur)
  /\ lost' = [lost EXCEPT ![cur] = @ + 1]
  /\ mpc' = "drive"
  /\ UNCHANGED <<endVars, ctx, cur, before, mainLeft, result, watchVars, wpc,
                 afterVars, trackVars, heapVars, sent, dropped, consumed>>

DeliverHands ==
  /\ mpc = "deliver" /\ DriverAwake
  /\ Hand(cur)
  /\ before' = parkSeq[cur]
  /\ mpc' = "rendezvous"
  /\ UNCHANGED <<ctx, cur, mainLeft, result, watchVars, wpc, afterVars,
                 trackVars, heapVars, countVars>>

RendezvousWaits ==
  /\ mpc = "rendezvous" /\ DriverAwake /\ ~RendezvousOver(cur, before)
  /\ waiting' = [waiting EXCEPT ![cur] = @ \cup {"driver"}]
  /\ UNCHANGED <<pending, parked, parkSeq, closed, cancelled, ctx, runVars,
                 watchVars, wpc, afterVars, trackVars, heapVars, countVars>>

RendezvousEnds ==
  /\ mpc = "rendezvous" /\ DriverAwake /\ RendezvousOver(cur, before)
  /\ mpc' = "drive"
  /\ UNCHANGED <<endVars, ctx, cur, before, mainLeft, result, watchVars, wpc,
                 afterVars, trackVars, heapVars, countVars>>

-----------------------------------------------------------------------------
(* Run's goroutine: tearing down.                                          *)

(* closeAllEnds, one Close at a time. *)
MainCloses(e) ==
  /\ mpc = "close" /\ IsFirst(e, mainLeft, "caller")
  /\ Close(e)
  /\ mainLeft' = mainLeft \ {e}
  /\ UNCHANGED <<ctx, mpc, cur, before, result, watchVars, wpc, afterVars,
                 trackVars, heapVars, countVars>>

(* close(closeOnce), and on to <-watchDone. *)
MainSignals ==
  /\ mpc = "close" /\ mainLeft = {}
  /\ mpc' = "join"
  /\ UNCHANGED <<endVars, ctx, cur, before, mainLeft, result, watchVars, wpc,
                 afterVars, trackVars, heapVars, countVars>>

MainJoinsWatcher ==
  /\ mpc = "join" /\ wst = "done"
  /\ mpc' = "wait"
  /\ UNCHANGED <<endVars, ctx, cur, before, mainLeft, result, watchVars, wpc,
                 afterVars, trackVars, heapVars, countVars>>

(* wg.Wait(), then the logs and ctx.Err(). *)
MainReturns ==
  /\ mpc = "wait" /\ wg = {}
  /\ mpc' = "returned"
  /\ result' = IF ctx THEN "ctxErr" ELSE "ok"
  /\ UNCHANGED <<endVars, ctx, cur, before, mainLeft, watchVars, wpc,
                 afterVars, trackVars, heapVars, countVars>>

Main ==
  \/ \E e \in Ends :
       \/ TrackAcquires(e) \/ TrackStarts(e)
       \/ AdvancePopsTimer(e) \/ AdvancePopsArrival(e)
       \/ MainCloses(e)
  \/ StartWatcher \/ DriveChecks \/ AdvanceFindsEmpty
  \/ CallbackSchedules \/ CallbackEnds \/ CallbackSends
  \/ DeliverWaits \/ DeliverAbandons \/ DeliverHands
  \/ RendezvousWaits \/ RendezvousEnds
  \/ MainSignals \/ MainJoinsWatcher \/ MainReturns

-----------------------------------------------------------------------------
(* The cancellation watcher.                                               *)

(* select: both cases may be ready. *)
WatcherSeesCancel ==
  /\ wst = "select" /\ ctx
  /\ wst' = "closing"
  /\ UNCHANGED <<endVars, ctx, runVars, watchLeft, wpc, afterVars, trackVars,
                 heapVars, countVars>>

WatcherCloses(e) ==
  /\ wst = "closing" /\ IsFirst(e, watchLeft, "caller")
  /\ Close(e)
  /\ watchLeft' = watchLeft \ {e}
  /\ UNCHANGED <<ctx, runVars, wst, wpc, afterVars, trackVars, heapVars,
                 countVars>>

(* Mutant: the select waits for the cancellation only. *)
WatcherEndsOnceCancelled ==
  /\ wst = "closing" /\ watchLeft = {}
  /\ wst' = "done"
  /\ UNCHANGED <<endVars, ctx, runVars, watchLeft, wpc, afterVars, trackVars,
                 heapVars, countVars>>
WatcherEnds ==
  /\ \/ wst = "closing" /\ watchLeft = {}
     \/ wst = "select" /\ mpc \in {"join", "wait", "returned"}
  /\ wst' = "done"
  /\ UNCHANGED <<endVars, ctx, runVars, watchLeft, wpc, afterVars, trackVars,
                 heapVars, countVars>>

Watcher ==
  WatcherSeesCancel \/ (\E e \in Ends : WatcherCloses(e)) \/ WatcherEnds

-----------------------------------------------------------------------------
(* The worker of end e: FakeAgent.Run on an agent end, Session.Serve on a  *)
(* caller end, wrapped by track.                                           *)

(* Recv's context.AfterFunc: with the context already cancelled its        *)
(* goroutine starts at once.                                               *)
WorkerCallsRecv(e) ==
  /\ wpc[e] = "call"
  /\ wpc' = [wpc EXCEPT ![e] = "recv"]
  /\ IF ctx
     THEN afters' = [afters EXCEPT ![e] = @ + 1] /\ UNCHANGED armed
     ELSE armed' = [armed EXCEPT ![e] = TRUE] /\ UNCHANGED afters
  /\ UNCHANGED <<endVars, ctx, runVars, watchVars, trackVars, heapVars,
                 countVars>>

WorkerAwake(e) == wpc[e] = "recv" /\ "worker" \notin waiting[e]

WorkerTakes(e) ==
  /\ WorkerAwake(e) /\ RecvTakes(e)
  /\ wpc' = [wpc EXCEPT ![e] = "took"]
  /\ consumed' = [consumed EXCEPT ![e] = @ + 1]
  /\ UNCHANGED <<ctx, runVars, watchVars, afterVars, trackVars, heapVars,
                 sent, dropped, lost>>

WorkerFails(e) ==
  /\ WorkerAwake(e)
  /\ RecvErrClosed(e) \/ (ctx /\ RecvCtxErr(e))
  /\ wpc' = [wpc EXCEPT ![e] = "failed"]
  /\ UNCHANGED <<ctx, runVars, watchVars, afterVars, trackVars, heapVars,
                 countVars>>

WorkerParks(e) ==
  /\ WorkerAwake(e) /\ ~ctx
  /\ RecvParks(e)
  /\ UNCHANGED <<ctx, runVars, watchVars, wpc, afterVars, trackVars, heapVars,
                 countVars>>

(* Recv's deferred stop(), and its return to the loop that called it. *)
RecvReturns(e) ==
  /\ wpc[e] \in {"took", "failed"}
  /\ armed' = [armed EXCEPT ![e] = FALSE]
  /\ wpc' = [wpc EXCEPT ![e] = IF @ = "took" THEN "react" ELSE "exit"]
  /\ UNCHANGED <<endVars, ctx, runVars, watchVars, afters, trackVars,
                 heapVars, countVars>>

(* onCallerSpeech arms a timer; onRecv may schedule a barge-in burst. *)
ReactionSchedules(e) ==
  /\ wpc[e] = "react" /\ work > 0
  /\ timers' = [timers EXCEPT ![e] = @ + 1]
  /\ work' = work - 1
  /\ UNCHANGED <<endVars, ctx, runVars, watchVars, wpc, afterVars, trackVars,
                 arrivals, countVars>>

ReactionEnds(e) ==
  /\ wpc[e] = "react"
  /\ wpc' = [wpc EXCEPT ![e] = "call"]
  /\ UNCHANGED <<endVars, ctx, runVars, watchVars, afterVars, trackVars,
                 heapVars, countVars>>

(* track's deferred calls: uncount, release the token, wg.Done(). *)
(* Mutant: wg.Done() is not the last of the deferred calls to run. *)
WorkerUncountsWithDone(e) ==
  /\ wpc[e] = "exit"
  /\ live' = live \ {e}
  /\ wg' = wg \ {e}
  /\ wpc' = [wpc EXCEPT ![e] = "uncounted"]
  /\ UNCHANGED <<endVars, ctx, runVars, watchVars, afterVars, holders, peak,
                 heapVars, countVars>>
WorkerUncounts(e) ==
  /\ wpc[e] = "exit"
  /\ live' = live \ {e}
  /\ wpc' = [wpc EXCEPT ![e] = "uncounted"]
  /\ UNCHANGED <<endVars, ctx, runVars, watchVars, afterVars, holders, peak,
                 wg, heapVars, countVars>>

WorkerReleases(e) ==
  /\ wpc[e] = "uncounted"
  /\ holders' = holders \ {e}
  /\ wpc' = [wpc EXCEPT ![e] = "released"]
  /\ UNCHANGED <<endVars, ctx, runVars, watchVars, afterVars, live, peak, wg,
                 heapVars, countVars>>

WorkerDone(e) ==
  /\ wpc[e] = "released"
  /\ wg' = wg \ {e}
  /\ wpc' = [wpc EXCEPT ![e] = "done"]
  /\ UNCHANGED <<endVars, ctx, runVars, watchVars, afterVars, holders, live,
                 peak, heapVars, countVars>>

Worker(e) ==
  \/ WorkerCallsRecv(e) \/ WorkerTakes(e) \/ WorkerFails(e) \/ WorkerParks(e)
  \/ RecvReturns(e) \/ ReactionSchedules(e) \/ ReactionEnds(e)
  \/ WorkerUncounts(e) \/ WorkerReleases(e) \/ WorkerDone(e)

-----------------------------------------------------------------------------
(* The AfterFunc goroutines of end e: cancellation starts those armed.     *)
AfterFuncStarts(e) ==
  /\ ctx /\ armed[e]
  /\ armed' = [armed EXCEPT ![e] = FALSE]
  /\ afters' = [afters EXCEPT ![e] = @ + 1]
  /\ UNCHANGED <<endVars, ctx, runVars, watchVars, wpc, trackVars, heapVars,
                 countVars>>

AfterFuncRuns(e) ==
  /\ afters[e] > 0
  /\ AfterFuncWakes(e)
  /\ afters' = [afters EXCEPT ![e] = @ - 1]
  /\ UNCHANGED <<ctx, runVars, watchVars, wpc, armed, trackVars, heapVars,
                 countVars>>

AfterFunc(e) == AfterFuncStarts(e) \/ AfterFuncRuns(e)

-----------------------------------------------------------------------------
(* Once Run has returned and the stray AfterFuncs are gone nothing runs.   *)
Finished ==
  /\ mpc = "returned" /\ afters = Zero
  /\ UNCHANGED vars

Next ==
  \/ Cancel \/ Main \/ Watcher
  \/ \E e \in Ends : Worker(e) \/ AfterFunc(e)
  \/ Finished

Spec == Init /\ [][Next]_vars

(* Go's scheduler runs every runnable goroutine and its mutexes do not     *)
(* starve a waiter; nothing forces a cancellation.  The watcher is left    *)
(* out: it is scheduled like the rest, but not everything depends on it.   *)
Goroutines ==
  /\ WF_vars(Main)
  /\ \A e \in Ends : WF_vars(Worker(e)) /\ WF_vars(AfterFunc(e))

FairSpec == Spec /\ Goroutines

-----------------------------------------------------------------------------
(* Properties.                                                             *)

(* A frame has been handed to e's worker, which has not finished reacting. *)
Busy(e) == pending[e] \/ wpc[e] \in {"took", "react"}

(* While the driver launches, looks at the heap, runs a callback or looks  *)
(* for a parked worker, no worker holds a frame or reacts to one, even if  *)
(* the run is being cancelled: callbacks and reactions, which share the    *)
(* agent's and the session's state and release its lock half way           *)
(* (emitAgentFrame, maybeRespond), never interleave.                       *)
DriverAlone ==
  mpc \in {"launch", "advance", "fire", "deliver"} => \A e \in Ends : ~Busy(e)

(* At most one worker of the whole run holds a frame at any time, so the   *)
(* order in which reactions schedule is the heap's and not Go's.           *)
OneReaction == \A e, f \in Ends : Busy(e) /\ Busy(f) => e = f

InDelivery(e) == mpc = "deliver" /\ cur = e
Once(p) == IF p THEN 1 ELSE 0

(* Every frame Send accepted is in exactly one place: dropped by the       *)
(* impairment, on the heap, in the driver's hands, in the end's pending    *)
(* slot, returned by Recv, or abandoned by a deliver that gave up.  None   *)
(* is overwritten in the slot and none is consumed twice.                  *)
FrameConservation ==
  \A e \in Ends :
    sent[Peer(e)] = dropped[Peer(e)] + arrivals[e] + Once(InDelivery(e))
                    + Once(pending[e]) + consumed[e] + lost[e]

(* A run that returns without an error is complete: nothing is left on the *)
(* clock and every frame sent was consumed or recorded as dropped.         *)
CompleteRun ==
  result = "ok" =>
    /\ HeapEmpty
    /\ \A e \in Ends : sent[Peer(e)] = dropped[Peer(e)] + consumed[e]

(* When Run returns, the workers and the watcher it started have ended,    *)
(* none is counted live and every Sem token is back.                       *)
NothingLeftRunning ==
  mpc = "returned" =>
    /\ \A e \in Ends : wpc[e] = "done"
    /\ wst = "done"
    /\ live = {} /\ holders = {}

(* If the watcher is scheduled too, Run returns, whether or not, and       *)
(* whenever, it is cancelled.                                              *)
Termination == WF_vars(Watcher) => <>(mpc = "returned")

(* loopback.go:51: cancellation alone, without the watcher's Close, gets   *)
(* the driver out of a delivery.                                           *)
SelfUnblocking ==
  (ctx /\ mpc \in {"deliver", "rendezvous"}) ~> mpc \notin {"deliver", "rendezvous"}
=============================================================================
