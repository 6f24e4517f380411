# voicechaos in TLA+

A verification project for voicechaos, the chaos tester for voice agents: TLA+
modules for the parts of the program whose correctness depends on order, timing
and concurrency, TLC configurations that check them on small instances, and
TLAPS proofs of the results that matter most for every instance.

* [The system](#the-system)
* [Modules](#modules)
* [What is checked](#what-is-checked)
* [Bounds](#bounds)
* [Fairness](#fairness)
* [What is proved](#what-is-proved)
* [Where the program and its documentation disagree](#where-the-program-and-its-documentation-disagree)
* [What is not modelled](#what-is-not-modelled)
* [Plan](#plan)

## The system

voicechaos plays scripted callers against a voice agent over an impaired
network and measures how the agent behaves: how fast it stops when interrupted,
how long both talk at once, whether it stalls. An *offline* run has a modeled
agent, an in-memory transport and virtual time, and promises the same log, byte
for byte, for the same scenario and seed. A *live* run has a real endpoint, a
WebSocket and real time.

| Component | State | Operations | What makes it correct |
|---|---|---|---|
| Loopback transport, `internal/transport/loopback.go` | per end: a mutex and condition variable, the `pending` slot, `parked`, `parkSeq`, `closed`, `cancelled` | `Send` (any goroutine), `deliver` (the clock driver), `Recv` (the end's worker), `Close` (driver and watcher) | no frame lost or doubled; the driver goes on only when the worker has finished reacting; nobody waits forever |
| Offline engine, `internal/engine/engine.go` | rigs, `WaitGroup`, `Sem`, live and peak counters, the watcher's channels | `Run`, `track`, `drive` | always returns, joins everything it started, returns without error only for a complete run |
| Virtual clock, `internal/clock/clock.go` | `now`, a heap of callbacks ordered by `(deliverAt, seq, sessionIndex)` | `Schedule`, `Advance` | time never goes back; the firing order is a function of what was scheduled |
| Impairment queue, `internal/impair/impair.go` | the link's backlog and remainder, the burst-loss state, the dropped frames | `Delay`, `Dropped` | never delivers in the past; a limited link is a FIFO of exactly its capacity |
| Modeled agent, `internal/agentproto/fake.go` | sequence counters, turn, `talking`, `interrupted`, `ended`, `stopAt`, `speechGen` | `onCallerSpeech` (its worker), `maybeRespond`, `emitAgentFrame`, `emitTurnEnd` (timers) | answers each utterance once, after silence; stops in time; sends well-formed turns |
| Caller session, `internal/session/session.go` | the log, `obsTurn`, `callerSeq` | `Prime`, speech callbacks, `onRecv` | every frame is logged, under the turn it belongs to; each barge-in goes where the script says |
| Scenario, `internal/script` | none | `Validate`, `FakeConfig` | what the rest assumes of a script and a profile is checked first |
| Frames and event log, `internal/audio`, `internal/eventlog` | none; an ordered list | `Append`, `Sort`, `Merge` | a canonical total order |
| Metrics, `internal/metrics` | none | `ComputeSession`, `ComputeAggregate` | each number is what its definition says |
| Runner, `internal/runner` | none | `Run` | sizes the semaphore so that no launch waits for a token, and returns the engine's error with the metrics |
| Live engine, `internal/engine/live.go` | connections, real-time timers | `RunLive` | ends at its bound, closes what it dialed, joins its workers |
| WebSocket connection, `internal/transport/ws.go` | locks of reader, writer and flag, `closed`, deadlines | `Read`, `Write`, `Close` | cancellation and `Close` unblock everything; one reader at a time |
| WebSocket transport and codecs, `ws_transport.go`, `ws_codec.go` | decoded frames waiting; the codec's mid-turn flag | `Send`, `Recv`, `Close` | frames in order, turns bracketed |
| Baseline, `internal/baseline` | none | `Check` | reports the metrics beyond their tolerance and no others, up to the rounding of float64 |
| Command and configuration, `cmd/voicechaos`, `internal/config` | none | flags, files, exit codes | a truncated run is never taken for a complete one |
| Text to speech, `internal/tts` | none | text to frame count | - |

How they interact. The command loads a scenario and calls the runner, which sizes
the semaphore, runs the offline or the live engine and measures the logs; the
command then writes a report, saves a baseline or compares with one, and exits
with a code that says which.

Offline, `Run` builds, per session, a pair of loopback ends,
an agent and a session, all on one clock; it primes the sessions, launches the
agent's driver and the session's read pump, and advances the clock on its own
goroutine until the heap is empty. A callback on the heap either speaks for the
caller, runs a timer of the agent, or delivers a frame; the first two end in
`Send`, which asks the queue for a delivery time and schedules the delivery. A
delivery hands the frame to the worker parked in `Recv` on the far end and
*blocks until the worker parks again*. All of determinism hangs on that
rendezvous: four kinds of goroutine share the state, and the program is right
only if they take turns.

What is hard. The rendezvous under cancellation (three parties close and wake
the same end); an empty heap as the criterion for being done; timers that
outlive the state they were armed in; several things due at the same virtual
millisecond; fractions of a millisecond on a fast link; markers of zero bytes
that must keep their place; lost markers; several ends of a run (its script,
`max_duration_ms`, `--timeout`, Ctrl-C, a failed dial) that meet in one error.
PROJECT.json lists these hazards with
the line where each bites and the properties that would catch it.

## Modules

```
Loopback <- Engine <- EngineSerial (INSTANCE SerialLoop) <- MCEngine
                       EngineSerial <- EngineProofs
Impair <- ImpairQueue <- MCImpairQueue
                      <- ImpairProofs, with ImpairLemmas
Impair <- Conversation, with Metrics <- ConversationMetrics <- MCConversation
          Conversation, with ImpairLemmas and DataLemmas <- ConversationProofs
          ConversationProofs, with ConversationMetrics <- ConversationLogProofs
WSConn <- Live <- LiveProofs
Codec <- LiveRun, with Metrics and Baseline <- Command <- MCCommand
          Command, with DataLemmas <- CommandProofs
```

**Loopback** has the ends' variables and one operator per critical section of
`e.mu`: what the code does between taking the lock and releasing it or waiting
on the condition variable. `waiting[e]` is the set of goroutines blocked in
`cond.Wait()`; a broadcast empties it. A wake-up is not a re-evaluation: the
woken goroutine checks its condition in a step of its own, so that several may
interleave between.

**Engine** composes the ends with the goroutines of one offline run: Run's own
(`mpc`: launch, drive, advance, fire, deliver, rendezvous, then the teardown),
the cancellation watcher (`wst`), a worker per end (`wpc`: the agent's `Run` or
the session's `Serve`, inside `track`) and the goroutines that
`context.AfterFunc` starts. The context may be cancelled at any point. The heap
is abstracted to *how many* callbacks of each kind it holds and `Advance` may
pop any of them, which is more than any heap order allows; what a callback or
reaction does is abstracted to the timers it sets and the frame it sends.

**SerialLoop** is what an offline run promises, without a lock, a wait or a
worker: it takes one callback off the heap, runs a timer or a delivery to the
end of the receiver's reaction, and takes the next. Only a cancelled run may drop
what it has taken or stop with something left. **EngineSerial** is the refinement
mapping: a delivery is over for the loop when the frame is in the end's slot,
and the frame then keeps the receiver busy (`handed`, then `reacting`) until its
worker has reacted; the launch, the rendezvous, the parking, the watcher and the
AfterFuncs are stutters.

**Impair** is `Queue.Delay` as a set-valued operator: what it may return for a
frame and the queue it leaves. A random draw is a choice among the values it may
take; probabilities are "zero", "one" or "some". **ImpairQueue** is a run of
one queue: a sender with a clock that does not go back, and the history of what
became of the frames.

**Conversation** is one session in virtual time. A step is one `Advance` with
all that follows: the heap is a set of events with their keys, times and
frames, and the agent, the session and the downlink queue are those of the
code, field by field. That a whole reaction is one step is not an assumption
but what Engine shows (`DriverAlone`, `OneReaction`) for a run nobody cancels.
Ties of the heap's key are broken in every way, because `container/heap`'s
choice depends on its shape. `heard`, `air`, `answered` and the `turn` and
`from` of a frame are history that the code does not keep; the properties need
them.

**Metrics** is `internal/metrics` and the order of `internal/eventlog` as operators
over a log: the stable sort (by insertion: `sort.SliceStable` promises its result,
not a method), the four kinds of metric of a session, and the
aggregate with its nearest ranks. The code's loops are sets and folds here, except
where the order they go in matters (`reorderedFrames`, `timeToStop`); a slice that is
sorted is one of the permutations of it that ascend (`Sorted`).
**ConversationMetrics** folds the dropped frames into a conversation's log, as
`engine.Run` does, and measures it.

**WSConn** is a WebSocket connection: its locks, the socket's two deadlines, and
writes in two parts, header and payload, each of which may block on a full
socket, succeed, or fail on an expired deadline or a broken connection. **Live**
is RunLive with one session on top of it: the read pump (`pump`: WSTransport's
`Recv` and `Read` with its AfterFunc), speech timers that each write one
message, RunLive's own goroutine (`mpc`: it waits for the context, runs `Close`
step by step and joins the pump) and the goroutine that drains the connection
for `Close`. Real time is three events: the context's deadline passes, the
context ends (at its deadline or before), a time-out of `Close` passes. The peer
may read, send any frame, reset the connection, or do nothing at all. A frame
that nobody has read yet shows nowhere, so reading is an action of the peer and
never forced; what a read that gave up in the middle of a frame leaves in the
buffer matters only to the drain, which may end at any time.

**Codec** is what an endpoint's message decodes to, for both codecs. **LiveRun** is
RunLive with several sessions: `pc` and `next` are its place in its loops (dial,
launch, close, join), a connection is none, in its handshake, open or closed, and
a pump reads a message, fails, or logs a frame it has decoded. The dial heeds the
context, the handshake only its deadline, unless it is the one of TLS, which may also
fail with the context's error; the pump reads what is buffered, and logs what is
decoded, whatever became of the context and the connection. Where Live has the frames, locks and deadlines of one
connection, a read and a `Close` are one step each here.

**Baseline** is the gate: a budget and the four comparisons. A percentage limit is
`base*(1+pct/100)` in float64 in the code, three operations that each round
(baseline.go:115, 124), and it is here too. TLA+ has no floats, so a float is a number
of the least float above zero: `Round(a, b)` is the float nearest to `a / b`, ties to
even, with as many bits as `Sig` allows and a unit in the last place from `Ulps`. With
`Sig` = 2^53, `One` = 2^1074 and `Ulps` = 2^0 to 2^2045 these are the float64s.
**Command** is
`main.go` over a run: for each of run (live or offline), baseline save, check
and compare, what can fail before the run, what ends the run, and what is
written under which exit code. A live run is LiveRun's, step by step; an offline
one is a single step, whose result Engine justifies (a run without an error is
complete). `whole` is history: whether the run was over before it was stopped.

The MC modules hold the scenarios and profiles for TLC.

In every module a definition whose comment begins "Mutant" is a plausible bug:
the definition that follows it, changed. Nothing uses them; PROJECT.json pairs
each with the property it breaks, which shows that the property depends on that
line of the code.

## What is checked

| Run | States | Shows |
|---|---|---|
| engine_cancel | 1.0 M | one session, cancelled anywhere or never: the driver never runs beside a reaction, no frame is lost or doubled, an `ok` run is complete, nothing is left running; and it is a run of the serial loop (`SerialRun`) |
| engine_liveness | 270 k | `Run` returns, cancelled or not; a delivery ends after cancellation without the watcher's help, as loopback.go:51 claims |
| queue | 380 k | FIFO, capacity and rounding with frames below and above a millisecond of the link, under jitter, reordering and burst loss |
| conversation_narrow | 42 k | two prompts and long barge-ins on a limited link with jitter: the agent answers after silence, once per burst, and stops in time, for every alignment of the caller with its timers; the caller attributes audio to the right turn |
| conversation_lossy | 86 k | when any frame may be lost and any other delayed past its successors: every utterance is answered, turns are well formed, every frame is accounted for, and what the metrics report is what happened |
| live_bounded | 570 k | a run with `max_duration_ms`: one reader, whole frames on the wire, whole messages from it, and RunLive returns with everything joined whatever the peer does |
| command | 320 k | every subcommand, over live runs of two sessions and over offline runs: everything dialed is closed and joined, audio lies within turns, exit codes and reports tell the truth, baselines are of whole runs, the gate judges what was measured, and a bounded run exits |

Five runs are expected to fail; see
[below](#where-the-program-and-its-documentation-disagree).

The metrics are compared with what happened in the conversation, not with another
way to write the same sum. `ReorderedIsOvertaken` counts overtaken frames in the
order of arrival, which the metric, given the sorted log, does not see.
`StallsWithinTurns` and `TimeToStopWithinLatency` use the turn the agent gave a
frame, while the metrics use the turn the caller was in when it arrived; they
assume that no TurnStart was lost or changed places with audio, since a lost
TurnStart leaves the caller's count behind for the rest of the session and no
document says what is to be reported then, and `TimeToStopWithinLatency` speaks of
links whose delay is bounded, not of a limited one with a backlog.
`DoubleTalkIsSharedTime` counts milliseconds of shared sound, where the metric
adds up pairs of frames: the two agree only if no two frames of one side overlap.
`GateJudgesTheRuns` judges from the sessions, with the p95 as the least value
that 95 in 100 do not exceed, where the code judges from an aggregate by ranks. It
does not demand that a percentage limit is the exact product, which the code's is not:
16 % over 25 ms is 29 ms, and a run of 29 ms fails, in the code as in the run here. What it
demands is that a run within the exact limit by more than the rounding passes, that one
beyond it by more does not, and that a limit of 0 % or above is never below the
baseline. The rounding is 4 parts in `Sig`: in float64, and up to an hour of double
talk, less than 10^-8 ms, so that of whole milliseconds and whole per cents only a limit
that is met exactly is ever left to it.

## Bounds

*Engine.* One prompt and two further timers (`MaxWork`) reach every combination
that one session has: a prompt that triggers a response, a response that
triggers a reaction, both directions of the link, and a cancellation at every
step of each. The ends of different sessions share only the driver and the
context, and the proofs cover any number of sessions and timers. Liveness is
checked with the prompt alone: the agent's end and the caller's run the same
code, and what could block is one delivery against a cancellation, the watcher
and the teardown. `SemCap` is the least the code admits. `parkSeq` and the counters need
no bound: they grow with the frames, which the timers limit.

*ImpairQueue.* `MaxFrames` lets a backlog build up, drain and build up again;
payloads are 0 (a marker), a fraction of a millisecond of the link and several
milliseconds, gaps 0 and one that lets the link go idle. The proofs cover the
rest.

*Live.* One speech timer, the pump and `Close` are all the kinds of writer there
are. The socket holds one part of a frame (`SockBuf`), so that every second part
may block. Two data frames (`MaxIn`) make a fragmented message or one that
breaks off; control frames are not bounded.

*Conversation.* A frame lasts 2 ms and a turn has 3 frames, so jitter of 0 to 2
ms moves a caller frame across each of the agent's timers, and a barge-in of up
to 8 frames outlasts the turn it interrupts by several. A stall threshold of 3
ms lies between the distance of two frames and that of two turns. `MaxSeq` stands
for `1 << 40`, the distance between the bands of sequence numbers. `TypeOK` says
that the caller stays below it, which is proved from `BandAssumption`, that the
script has fewer frames. The agent numbers its frames and timers without regard
to the script, so a step that would take it past `MaxSeq` is cut off (`Fires`);
the runs check for deadlock, which is what a step cut off would look like, and
find none.

*Command.* Two sessions make a dial that fails with another open, a close with
another open and a semaphore that could be short; three messages (`MaxMessages`)
make a Gemini turn in one message or two, and the next one's audio. The measured
runs have none, one, two and three times to stop, limits met, met exactly and
missed, each alone and two together; budgets are the default, none at all,
one with absolute tolerances at 16 and 12.5 per cent, and one of a negative percentage,
which asks for an improvement. Percentages are counted in halves of a per cent
(`Percent`). Floats have 13 bits: the binary expansion of a hundredth has period 20, so
13 bits round hundredths to the same side as 53 do, and on every number that the run
compares the verdict is that of float64. One of them, 29 over 25 at 16 per cent,
is a limit that is met exactly and missed by the rounding.

## Fairness

Engine's `FairSpec` assumes weak fairness of the steps of Run's goroutine, of
each worker and of each end's AfterFunc goroutine: Go's scheduler runs every
runnable goroutine, and Go's mutexes and condition variables do not starve a
waiter that can go on. It assumes nothing of `Cancel`: the run must end whether
or not it comes. Nor does it assume anything of the watcher, so that
`SelfUnblocking` shows what the transport achieves by itself; `Termination`,
which needs the watcher, says so: `WF_vars(Watcher) => <>(mpc = "returned")`. An
action of a goroutine that is blocked in `cond.Wait()` is disabled until a
broadcast, so the fairness does not assume away lost wake-ups.

Live's `FairSpec` assumes the same of its goroutines, and that clocks go on: a
deadline passes, and the context ends when it has passed. A write under
`Close`'s own two seconds may fail at any time and so cannot block for ever. The
peer is under no fairness: nothing it fails to do may keep a run from ending. No
goroutine waits on `wmu` against another that takes it over and over: a timer
writes once, and the pump's pongs fail once a deadline has passed.

Command's `FairSpec` assumes that time passes (`--timeout` and
`max_duration_ms` run out), that TCP connects or gives up, that RunLive and its
pumps are scheduled, and that an endpoint whose connection was closed is soon
seen to be gone. It assumes of a handshake and of a `Close`, which wait for the
endpoint, that they end only when the run has a deadline: `live_bounded` shows
that for `Close`, and `handshake` sets the deadline on the connection. Nothing is
assumed of Ctrl-C.

## What is proved

**EngineProofs**, for every finite non-empty set of sessions and every value of
the bounds: the type invariant and all five safety properties. The inductive
invariant grows in four layers, each proved on top of the ones before.

1. `OnlyCancellationCloses`: while the driver drives, an end is closed or
   cancelled only if the context is cancelled, and a worker has left its loop
   only if one of these holds. Without it a delivery might be abandoned in a
   calm run.
2. `BusyOnlyInRendezvous` and `SerialInv`: a worker holds a frame only while
   the driver waits for its end's rendezvous, and the driver's snapshot of
   `parkSeq` is still current until that worker parks. This is the heart of the
   argument: `parkSeq = before` and `~parked` hold together from the hand-over
   until the worker parks again, so the wait cannot end early, unless by
   cancellation, after which `drive` does not advance again. `DriverAlone` and
   `OneReaction` follow.
3. `FrameConservation` is inductive given that a frame is handed over only to
   an empty slot, which the layer before provides; `CompleteRun` needs
   `DrainedBeforeClosing`, that a run which nobody cancelled starts closing
   only with the heap and the slots empty.
4. `Tracked` relates `wg`, `live` and `holders` to the workers' places and
   gives `NothingLeftRunning`.

The same module proves the refinement, `Spec => SerialRun`, for the same
constants: the engine implements the serial loop. Each action of Engine maps to an action of SerialLoop
or to a stutter. From the layers above the proof takes that a popped callback
finds nobody busy (layer 2), that a delivery is abandoned only after a
cancellation (layer 1), and that at the end every worker is done (layer 4). What
they leave open is whether a worker may be done with a frame still in its slot;
`HeldByRecv` closes it: whoever is parked, or has a frame waiting, is in `Recv`.

**CommandProofs**, for every number of sessions, messages and measured runs: types,
`ClosedAndJoined`, `ExitTellsTheEnd`, `BaselineIsComplete`, `AudioInTurns` and
`GateJudgesTheRuns`. `Placed` says where a
session's connection and pump are at each place of RunLive, and `Counted` that
tokens and the live count are the number of running pumps, from which it follows
that a token is left while pumps are launched (`TokenLeft`). `Causes` and
`ErrTells` carry the reason of a context's end through to the exit: a run that
returned with `Canceled` was interrupted, one that came past its dials returns
without an error only at its bound, and with one only at `--timeout` or Ctrl-C.

`AudioInTurns` holds for every sequence of messages and any number of parts in one.
`InTurn` says that a turn has begun in the
log and not ended. `Ready` relates the frames pending to it: every frame of audio
among them finds a turn open once the frames before it are logged, and one is open
after all of them if the codec thinks that the agent is talking. A message is read
only when nothing is pending, so the codec's flag is true to the log when it
decodes (`DecodedReady`); logging a frame moves both along (`TailReady`).

`GateJudgesTheRuns` holds for all non-empty sequences of sessions whose metrics are in
range (`SessionMetrics`), all budgets and floats of any precision. `NearestRankIsP95`: in an
ascending permutation of the values, those up to `x` come first and are as many as
there are in the values themselves (`NotAboveFirst`), so the value at the rank that
`Rank` rounds up to is the least that 95 in 100 do not exceed. `TotalIsSum` and `SortedTotal`: the
aggregate's fold along the sessions, or along their values once sorted, and the
property's over a set of them count the same units. `NearestFacts`: a float is at most half
a unit in the last place from what it is rounded from, which is at most a part in `Sig` of
it (`RoundIsNear`); `LimitIsNear` follows the three errors through the product, where
each grows by what the others did to its factor, to 4 parts in `Sig`. `NearestAtLeast`:
nothing is rounded below a float that it is not below already, which needs that of two
units in the last place one divides the other (`UlpsNest`), and keeps a limit from
falling below the baseline (`LimitAtLeast`). With these, Check's four comparisons on two
aggregates are the property's on
the sessions (`VerdictAgrees`); `GateInv` adds that a verdict is reached only in exiting,
which is why the exit code still tells it.

**LiveProofs**, for any number of speech timers, any sizes of a message and of the
socket's buffer, with and without a deadline: all safety properties of Live. `Locks`
says that who holds `wmu` or `rmu` is where the code holds it, and that the write
deadline is the holder's; `Closing` what Close has done by each of its places;
`Writing` that the pump and the closer call a write in their own places only. They
give `OneReader` and `NothingLeftRunning`. `OnWire` adds that a header at the end of
the wire waits for its payload, or the connection has gone, or the run's deadline
has passed, after which a data frame or a pong fails before its header: `FramesWhole`
and `CutShort`. `Message` is what holds of a message half read, and gives
`Reassembled`.

**ImpairProofs**, for every profile that validates, all payload sizes and all
gaps: types, `NoPastDelivery`, `NoOvertaking`, `WithinCapacity` and
`NotOvercharged`. The lemma `Charge` bounds what one frame is charged: a
remainder of `r` bits is left with `r * 1000 < Bps + 1000`, and the
milliseconds charged pay for all bits but those, up to one. `LinkInv` adds it
up along a run (the lemma `Carry`): the bits delivered since *any* earlier
frame fit the time since then, but for the current remainder. `ChargeInv` is
the same in the other direction.

What a proof about any user of the queue needs, that a delay is never negative,
what a marker is spared and how a limited link charges, is in **ImpairLemmas**.

**ConversationProofs**, for every script, agent and profile that validate and have no
negative number in them, and for every way the network may draw. Each layer rests on
those before.

1. *Types* (`TypeCorrect`). That frames and timers keep their numbers apart needs
   to know how many frames are still to come: `CallerBand` says that the caller's
   number plus the speech on the heap is the script's total, and `HeapFits` that
   an event carries what its kind demands.
2. *Turns* (`TurnsBracketed`). A turn's start, audio and end are set as timers when
   the agent responds, and the fields they read may have changed by the time they
   fire. `TurnInv` ties the two together: while the agent talks, the heap holds the
   turn's end (`Talking`); while a turn's start is pending nothing of it has been
   sent (`Starting`); what has been sent is a run of whole turns and the open one
   (`Bracketed`).
3. *Answers* (`UtterancesAnswered`). `UtteranceInv`: whatever the caller said after
   the agent's last answer has a timer of endpointing on the heap that the agent
   will not take for stale (`Endpointing`), or is being answered (`Answering`).
4. *Stopping* (`StopsInTime`). `StopInv`: once a barge-in has been heard, no audio of
   that turn has been sent after the time to stop, `stopAt` stays at it for the
   rest of the turn, and the turn's end was sent by then or is on the heap, within
   a frame of it.
5. *Silence* (`AnswersFollowSilence`). A timer that is not stale was armed by the
   last frame heard, and a frame that is due at the same time as the timer comes
   first, since the caller's numbers lie below the timers' band
   (`SpeechBeforeTimers`). This is the purpose of the bands, which the code
   states in a comment only.
6. *Once per burst* (`RespondsOnce`). A burst that interrupts the agent may outlast
   the turn and be heard again as an utterance. `BurstInv` follows a burst from the
   heap to the last answer: its frames are on a chain of one frame time
   (`Unbroken`), which is no longer than the silence an answer waits for, so no
   second answer fits into it (`AnsweredOnce`). Without that,
   `EndpointMs >= FrameMs`, nothing is claimed.

**ConversationLogProofs**, for the same constants, first follows the agent's frames
over the link. `NumberedInv`: numbers grow as frames are sent. `LocatedInv`: each frame
sent is on the heap, in the log or dropped, and in one of these exactly once, which
gives `FramesLogged`. `OrderInv` is about a link that loses and reorders nothing:
due times do not decrease with the numbers, so that what is on its way is always the
tail of what was sent, and the caller's count of turns is that of the last
frame which arrived; `TurnsLoggedRight` follows, for a fixed delay and, with jitter too, for a limited
rate.

Then it is about what is reported of a conversation. For `StallsWithinTurns` and
`TimeToStopWithinLatency`: the metrics file a
frame under the turn the caller had counted to when it arrived, the properties under
the turn the agent sent it in. `CountedInv` says that the two are the same and that
the caller has counted to the last TurnStart it saw, as long as `InPlace`: no
TurnStart lost, and none overtaken, be it logged or still under way. `InPlace` is the
hypothesis of the properties, stated for any moment of the run and not only for its
end. It is no invariant; what the induction needs is that it holds *before* a step if
it holds after it (`InPlaceBefore`), so that a run which has it at the end had it all
along. `LateInv` bounds the delay of a frame on a link of unlimited bandwidth
(`DelayBound`), `ObeyInv` follows a barge-in from the caller's log to the agent: it is
still on its way and nothing of the turn can be sent after it, or the agent will stop
in time.

All metrics speak of the sorted log. `SortPermutes` and `SortOrders` prove that the
recursive function `Sort` exists, that it returns the entries it is given, each as often,
and that none comes before a smaller one; `AscendingIn` that a finite set of naturals has
an element of each rank.

`ReorderedIsOvertaken` asks that sorting by millisecond, type and number loses nothing of
the order of arrival that the metric needs. `ArrivedInv` says what the log has of it:
audio is appended at times that do not decrease, and of two frames that arrive in one
millisecond the one with the lower number is logged first. A frame is then overtaken in
the log if and only if one with a higher number has an earlier time (`OvertakenInLog`),
which the sort does not change (`OvertakenSorted`), and `reorderedFrames`, which looks at
the highest number so far only, counts exactly these (`ReorderedCounts`).

`DoubleTalkIsSharedTime`: the sum over pairs of frames is the number of their units, a pair with one
of its milliseconds (`DoubleTalkCounts`), and when no two frames of one side overlap
each millisecond that both are heard belongs to one unit (`DoubleTalkMeasured`).

`MetricInRange` says that at any point of any conversation `Metric` is a
member of `SessionMetrics`: what CommandProofs assumes of the runs that the gate compares
is what a session measures.

**DataLemmas** has what these proofs need of numbers, finite sets and sums. The library's
folds and its induction theorems take operators as parameters. Here a fold is a function:
`IsFold` and `IsFoldLeft` say which equation it solves, `FoldExists` that there is a
solution, and `FoldCounts` that its value is the number of units of the summands,
whichever order it takes them in, which is how two sums in different orders are compared.

The sequence numbers of a script's prompts are sums over the script, a recursive
function in the model. That the recursion has a solution, and that it grows, is
proved by induction over a *set* of numbers (`LeastNat`, `NatInduct`, from the
library's well-foundedness of the naturals), which takes no operator as a
parameter; `RunningSum` states it once for both.

Assumed are only the named assumptions on the constants. The numbers of a script, an
agent and a profile are not negative: `script.Validate` sees to that for the profile and
for `at_ms`, `dur_ms` and `into_ms`, and demands `frames_per_turn > 0`, but it does not look at
`barge_in.dur_ms` nor at the agent's `frame_ms`, `payload_len`, `stop_latency_ms`,
`stall_before_frame`, `stall_ms` and `endpoint_ms`. Of a scenario that has a negative number there
the proofs and the runs say nothing. Further assumptions are
a finite set of sessions, a `Sem` that admits
`2 * Callers` tokens, as `Run` demands, that speech timers are goroutines of
their own, that a script has fewer frames than a band has numbers
(`1 << 40` in the code), and that the runs the gate compares have at least one session
each, as `Validate` demands, with metrics in range; and of the floats, in
`FloatAssumption`, that `Ulps` has 1 and `One`, that each unit in it is a multiple of twice
any smaller one, and that `Sig` is even and at most `One`. A budget's percentages are whole
numbers of a fraction of a per cent, `1 / Percent`, which may be as small as the least float,
so that every percentage a file can hold is one. Metrics are compared as the integers they
are: a float64 holds them exactly up to 2^53, and only there is it claimed that a run no
worse than the baseline passes. Overflow to infinity is not modelled.

Model-checked only: `Termination`, `SelfUnblocking`, `RunEnds` and
`BoundedRunExits`, which are liveness under fairness and beyond TLAPS. Every safety
property that a passing run checks is also a theorem.

## Where the program and its documentation disagree

* **The heap's key is not total** (`conversation_keys`). A caller's timer and
  the delivery of an agent frame use small per-stream numbers and may be due at
  the same millisecond with the same number. The outcome is then a function of
  the heap's shape: still deterministic, but not "the documented total order".
* **A barge-in may go to another response than the script's**
  (`conversation_barge_in`). The session counts the TurnStarts it sees. The rest
  of a long barge-in is an utterance of its own and gets a response, which uses
  up the next prompt's barge-in.
* **Close can wait forever in an unbounded live run** (`live_unbounded`).
  Without `max_duration_ms` writes have no deadline. If the endpoint stops
  reading, a speech frame or a pong blocks in `conn.Write` with `wmu` held, and
  `Close` waits for `wmu` before it gets to any of its time-outs, so
  cancelling the run does not end it. transport.go says that `Close` unblocks
  any in-flight `Send`. With a bound the run ends (`live_bounded`).
* **Ctrl-C does not end a handshake** (`command_dial`). `handshake` takes over the
  context's deadline but not its cancellation, so an endpoint that accepts the
  connection and never answers holds an unbounded run, although ws.go says that
  the context bounds the dial and the handshake.
* **A bound that passes during the dials is a failure** (`command_bound`). The
  dials run under `max_duration_ms`, and their error is returned as it is: the
  command exits with 1 and writes no report. live.go and README.md call reaching
  the bound a normal end.

## What is not modelled

* Sound and its payload (a frame is its size); the random generator (its draws
  are choices); JSON, headers, flags, `report` and `validate`, the rendering of
  reports; the RFC 6455 byte layout; `EncodeSend`, which wraps a payload in JSON;
  TTS, which the engine does not call.
* `eventlog.Merge`, which only the determinism tests use, and
  `Options.MaxConcurrency`, which no command sets.
* Float64s that are no numbers: JSON has no infinity or NaN, and no metric or budget of
  a real run comes near the largest float.
* `max_duration_ms` offline: README.md and script.go say that it bounds virtual
  time, but no line of the offline path reads it, so there is nothing to run.
* That `compare` ignores the mark on a truncated report (main.go:507) is noted as a
  hazard; it is one missing check, which a run would only restate.
* In Engine, the contents of callbacks. In Conversation, cancellation, and more
  than one session, which share nothing but the clock. In LiveRun, the speech
  timers, which Live has, and the order in which they reach `Send`, of which the
  code promises nothing.

## Plan

1. *Done*: Loopback, Engine, SerialLoop and its refinement, Impair, ImpairQueue,
   Conversation with its metrics, WSConn, Live, LiveRun, Command with the
   gate; the proofs of the engine, the refinement, the queue, the connection,
   the command, the audio of a Gemini endpoint, every safety property of
   Conversation, everything the runs check of its metrics, and the gate.
2. Open: more than one session on one clock in Conversation, and `eventlog.Merge`.
