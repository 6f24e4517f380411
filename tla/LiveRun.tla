------------------------------ MODULE LiveRun ------------------------------
(***************************************************************************)
(* engine.RunLive with several sessions: they are dialed one after the     *)
(* other, a read pump decodes and logs what each endpoint says, and when   *)
(* the run's context ends, every connection is closed and every pump       *)
(* joined.  Live has one connection's frames, locks and deadlines; here a  *)
(* Read is one step, and so is a Close.                                    *)
(***************************************************************************)
EXTENDS Codec, Integers, FiniteSets

CONSTANTS
  Callers,         \* the scenario's sessions
  MaxMessages,     \* bound: messages in a run, of all endpoints
  OpenAIMessages, GeminiMessages   \* what an endpoint may say

ASSUME LiveAssumption ==
  /\ Callers \in Nat \ {0} /\ MaxMessages \in Nat
  /\ OpenAIMessages \subseteq [type : DOMAIN OpenAIFrames]
  /\ GeminiMessages \subseteq [parts : Nat, complete : BOOLEAN]

Sessions == 1 .. Callers
Messages(codec) ==
  {Garbled} \cup (IF codec = "gemini-live" THEN GeminiMessages ELSE OpenAIMessages)

VARIABLES
  ctxErr,     \* the caller's context: "none", or why it ended
  runErr,     \* runCtx, which MaxDurationMs bounds as well
  bounded,    \* sc.MaxDurationMs > 0
  codec,
  pc, next,   \* where RunLive is, and at which session
  conn,       \* the connections
  pump,       \* the read pumps
  talking, pending, obsTurn, log,   \* codec, transport and Session of each
  messages,   \* read so far
  tokens,     \* taken from inst.Sem
  live, peak, \* inst.Live and inst.Peak
  err         \* what RunLive returned

ctxVars == <<ctxErr, runErr, bounded, codec>>
pumpVars == <<pump, talking, pending, obsTurn, log, messages, tokens, live, peak>>
liveVars == <<ctxVars, pumpVars, pc, next, conn, err>>

LiveInit ==
  /\ ctxErr = "none" /\ runErr = "none"
  /\ bounded \in BOOLEAN /\ codec \in {"openai-realtime", "gemini-live"}
  /\ pc = "off" /\ next = 1
  /\ conn = [s \in Sessions |-> "none"]
  /\ pump = [s \in Sessions |-> "off"]
  /\ talking = [s \in Sessions |-> FALSE]
  /\ pending = [s \in Sessions |-> << >>]
  /\ obsTurn = [s \in Sessions |-> 0]
  /\ log = [s \in Sessions |-> << >>]
  /\ messages = 0 /\ tokens = 0 /\ live = 0 /\ peak = 0
  /\ err = "none"

-----------------------------------------------------------------------------
(* The contexts.                                                           *)

Running == pc \notin {"off", "returned"}

CtxEnds(why) ==
  /\ ctxErr = "none"
  /\ ctxErr' = why
  /\ runErr' = IF runErr = "none" /\ Running THEN why ELSE runErr
  /\ UNCHANGED <<bounded, codec, pumpVars, pc, next, conn, err>>

(* Mutant: the bound holds for the dials only. *)
BoundPassesWhileDialing ==
  /\ bounded /\ pc = "dial" /\ runErr = "none"
  /\ runErr' = "DeadlineExceeded"
  /\ UNCHANGED <<ctxErr, bounded, codec, pumpVars, pc, next, conn, err>>
BoundPasses ==
  /\ bounded /\ Running /\ runErr = "none"
  /\ runErr' = "DeadlineExceeded"
  /\ UNCHANGED <<ctxErr, bounded, codec, pumpVars, pc, next, conn, err>>

-----------------------------------------------------------------------------
(* RunLive.                                                                *)

Goto(place, s) == pc' = place /\ next' = s
(* Mutant: one session too many. *)
AfterSessionOffByOne(place, following) ==
  IF next <= Callers THEN Goto(place, next + 1) ELSE Goto(following, 1)
AfterSession(place, following) ==
  IF next < Callers THEN Goto(place, next + 1) ELSE Goto(following, 1)

(* closeAll over the connections opened so far, and out. *)
(* Mutant: the connections opened so far are left as they are. *)
DialFailsLeaving(why) ==
  /\ conn' = [conn EXCEPT ![next] = "none"]
  /\ err' = why
  /\ Goto("returned", next)
DialFails(why) ==
  /\ conn' = [s \in Sessions |-> IF s < next THEN "closed" ELSE "none"]
  /\ err' = why
  /\ Goto("returned", next)

(* DialContext heeds the context, and says so in its error. *)
DialConnects ==
  /\ pc = "dial" /\ conn[next] = "none"
  /\ \/ /\ runErr = "none"
        /\ conn' = [conn EXCEPT ![next] = "handshake"]
        /\ UNCHANGED <<err, pc, next>>
     \/ DialFails(IF runErr = "none" THEN "other" ELSE runErr)
  /\ UNCHANGED <<ctxVars, pumpVars>>

(* The handshake heeds only the context's deadline, as a deadline of the   *)
(* connection: it fails with an i/o timeout, like with any other error.    *)
(* That of TLS before it, with a wss endpoint, may fail with the context's *)
(* error.                                                                  *)
HandshakeEnds ==
  /\ pc = "dial" /\ conn[next] = "handshake"
  /\ \/ /\ conn' = [conn EXCEPT ![next] = "open"]
        /\ AfterSession("dial", "launch")
        /\ UNCHANGED err
     \/ \E why \in {"other"} \cup ({runErr} \ {"none"}) : DialFails(why)
  /\ UNCHANGED <<ctxVars, pumpVars>>

(* The runner sizes the semaphore: a live session is one goroutine.        *)
(* Mutant: one token short. *)
SemBoundShort == Callers - 1
SemBound == Callers

(* track. *)
Launch ==
  /\ pc = "launch" /\ tokens < SemBound
  /\ tokens' = tokens + 1
  /\ live' = live + 1 /\ peak' = (IF live' > peak THEN live' ELSE peak)
  /\ pump' = [pump EXCEPT ![next] = "run"]
  /\ AfterSession("launch", "wait")
  /\ UNCHANGED <<ctxVars, talking, pending, obsTurn, log, messages, conn, err>>

ContextEnds ==
  /\ pc = "wait" /\ runErr # "none"
  /\ Goto("close", 1)
  /\ UNCHANGED <<ctxVars, pumpVars, conn, err>>

CloseOne ==
  /\ pc = "close"
  /\ conn' = [conn EXCEPT ![next] = "closed"]
  /\ AfterSession("close", "join")
  /\ UNCHANGED <<ctxVars, pumpVars, err>>

Joined == \A s \in Sessions : pump[s] # "run"

(* Mutant: the error of runCtx is returned. *)
ReturnsRunErr ==
  /\ pc = "join" /\ Joined
  /\ err' = runErr
  /\ Goto("returned", 1)
  /\ UNCHANGED <<ctxVars, pumpVars, conn>>
(* wg.Wait; the error is that of the caller's context. *)
Returns ==
  /\ pc = "join" /\ Joined
  /\ err' = ctxErr
  /\ Goto("returned", 1)
  /\ UNCHANGED <<ctxVars, pumpVars, conn>>

-----------------------------------------------------------------------------
(* A session's read pump: Session.Serve over WSTransport.Recv.             *)

(* Serve returns, and the deferred calls of track run. *)
PumpEnds(s) ==
  /\ pump' = [pump EXCEPT ![s] = "ended"]
  /\ live' = live - 1 /\ tokens' = tokens - 1
  /\ UNCHANGED <<peak, pending, obsTurn, log>>

(* Recv has nothing pending and reads a message, after the context's end   *)
(* and the Close too, when it was buffered before.  What cannot be decoded *)
(* ends Serve.                                                             *)
PumpReads(s) ==
  /\ pump[s] = "run" /\ pending[s] = << >>
  /\ messages < MaxMessages
  /\ messages' = messages + 1
  /\ \E msg \in Messages(codec) :
       LET d == DecodeRecv(codec, talking[s], msg) IN
       /\ talking' = [talking EXCEPT ![s] = d.talking]
       /\ IF d.ok
          THEN /\ pending' = [pending EXCEPT ![s] = d.frames]
               /\ UNCHANGED <<pump, tokens, live, peak, obsTurn, log>>
          ELSE PumpEnds(s)
  /\ UNCHANGED <<ctxVars, pc, next, conn, err>>

(* Read fails: the context has ended, the connection is closed, or the     *)
(* endpoint has hung up, which it may do at any time.                      *)
PumpFails(s) ==
  /\ pump[s] = "run" /\ pending[s] = << >>
  /\ PumpEnds(s)
  /\ UNCHANGED <<ctxVars, talking, messages, pc, next, conn, err>>

(* Recv returns the first pending frame, whatever became of the context or *)
(* the connection, and onRecv logs it.                                     *)
PumpLogs(s) ==
  /\ pump[s] = "run" /\ pending[s] # << >>
  /\ LET kind == Head(pending[s])
         turn == obsTurn[s] + (IF kind = "turn_start" THEN 1 ELSE 0) IN
     /\ obsTurn' = [obsTurn EXCEPT ![s] = turn]
     /\ log' = [log EXCEPT ![s] = Append(@, [kind |-> kind, turn |-> turn])]
  /\ pending' = [pending EXCEPT ![s] = Tail(@)]
  /\ UNCHANGED <<ctxVars, pump, talking, messages, tokens, live, peak, pc, next, conn, err>>

LiveNext ==
  \/ BoundPasses
  \/ DialConnects \/ HandshakeEnds \/ Launch \/ ContextEnds \/ CloseOne \/ Returns
  \/ \E s \in Sessions : PumpReads(s) \/ PumpFails(s) \/ PumpLogs(s)

-----------------------------------------------------------------------------
(* Properties.                                                             *)

LiveTypeOK ==
  /\ {ctxErr, runErr} \subseteq {"none", "Canceled", "DeadlineExceeded"}
  /\ err \in {"none", "Canceled", "DeadlineExceeded", "other"}
  /\ pc \in {"off", "dial", "launch", "wait", "close", "join", "returned"}
  /\ next \in Sessions /\ messages \in 0 .. MaxMessages
  /\ conn \in [Sessions -> {"none", "handshake", "open", "closed"}]
  /\ pump \in [Sessions -> {"off", "run", "ended"}]
  /\ {tokens, live, peak} \subseteq 0 .. Callers

(* A Gemini endpoint sends no TurnStart, and may put a turn into one       *)
(* message or several: every frame of audio is logged after a TurnStart of *)
(* its turn and before the TurnEnd (ws_codec.go:59).                       *)
AudioInTurns ==
  codec = "gemini-live" =>
    \A s \in Sessions : \A i \in DOMAIN log[s] :
      log[s][i].kind = "agent" =>
        \E j \in 1 .. i - 1 :
          /\ log[s][j] = [kind |-> "turn_start", turn |-> log[s][i].turn]
          /\ \A k \in j .. i : log[s][k].kind # "turn_end"

(* The launching of the pumps never waits for a token, and whatever dial   *)
(* fails and whatever ends the run, RunLive returns with every connection  *)
(* it opened closed, every pump joined and every token back                *)
(* (live.go:100, runner.go:42).                                            *)
ClosedAndJoined ==
  /\ pc = "launch" => tokens < SemBound
  /\ pc = "returned" =>
       /\ \A s \in Sessions : conn[s] \in {"none", "closed"} /\ pump[s] # "run"
       /\ tokens = 0 /\ live = 0
=============================================================================
