----------------------------- MODULE SerialLoop -----------------------------
(***************************************************************************)
(* What an offline run promises (engine.go:15-18, loopback.go:32-39): a    *)
(* loop without concurrency.  It takes one callback after the other off    *)
(* the heap; a timer runs to its end, a delivery to the end of the         *)
(* receiver's reaction, before the next is taken.  Only a cancelled run    *)
(* may drop what it has taken, or stop with something left.                *)
(*                                                                         *)
(* There are no locks, waits, workers or watchers here: Engine, which has  *)
(* them, implements this module (EngineSerial).                            *)
(***************************************************************************)
EXTENDS Naturals

CONSTANTS Sessions, Prompts, MaxWork

VARIABLES
  ctx,               \* the run is cancelled
  timers, arrivals,  \* the heap, by party
  work,              \* what is left of MaxWork
  doing,             \* what the loop does
  cur,               \* the party it does it to
  busy,              \* what each party does with a frame
  result

vars == <<ctx, timers, arrivals, work, doing, cur, busy, result>>

Parties == {"caller", "agent"} \X Sessions
Other(p) == <<IF p[1] = "caller" THEN "agent" ELSE "caller", p[2]>>

Init ==
  /\ ctx = FALSE
  /\ timers = [p \in Parties |-> IF p[1] = "caller" THEN Prompts ELSE 0]
  /\ arrivals = [p \in Parties |-> 0]
  /\ work = MaxWork
  /\ doing = "idle" /\ cur \in Parties
  /\ busy = [p \in Parties |-> "no"]
  /\ result = "running"

Cancel ==
  /\ ~ctx /\ doing # "returned"
  /\ ctx' = TRUE
  /\ UNCHANGED <<timers, arrivals, work, doing, cur, busy, result>>

Quiet == \A p \in Parties : busy[p] = "no"
NothingLeft == \A p \in Parties : timers[p] = 0 /\ arrivals[p] = 0

TakeTimer(p) ==
  /\ doing = "idle" /\ Quiet /\ timers[p] > 0
  /\ timers' = [timers EXCEPT ![p] = @ - 1]
  /\ doing' = "fire" /\ cur' = p
  /\ UNCHANGED <<ctx, arrivals, work, busy, result>>

TakeDelivery(p) ==
  /\ doing = "idle" /\ Quiet /\ arrivals[p] > 0
  /\ arrivals' = [arrivals EXCEPT ![p] = @ - 1]
  /\ doing' = "deliver" /\ cur' = p
  /\ UNCHANGED <<ctx, timers, work, busy, result>>

(* A timer or a reaction of p sets a timer. *)
Schedules(p) ==
  /\ busy[p] = "reacting" \/ (doing = "fire" /\ cur = p /\ p[1] = "agent")
  /\ work > 0
  /\ timers' = [timers EXCEPT ![p] = @ + 1]
  /\ work' = work - 1
  /\ UNCHANGED <<ctx, arrivals, doing, cur, busy, result>>

(* A timer ends, with a frame for the other side or without. *)
FireEnds ==
  /\ doing = "fire"
  /\ doing' = "idle"
  /\ \/ UNCHANGED arrivals
     \/ ~ctx /\ arrivals' = [arrivals EXCEPT ![Other(cur)] = @ + 1]
  /\ UNCHANGED <<ctx, timers, work, cur, busy, result>>

DeliveryEnds ==
  /\ doing = "deliver"
  /\ doing' = "idle"
  /\ \/ busy' = [busy EXCEPT ![cur] = "handed"]
     \/ ctx /\ UNCHANGED busy
  /\ UNCHANGED <<ctx, timers, arrivals, work, cur, result>>

Receives(p) ==
  /\ busy[p] = "handed"
  /\ busy' = [busy EXCEPT ![p] = "reacting"]
  /\ UNCHANGED <<ctx, timers, arrivals, work, doing, cur, result>>

ReactionEnds(p) ==
  /\ busy[p] = "reacting"
  /\ busy' = [busy EXCEPT ![p] = "no"]
  /\ UNCHANGED <<ctx, timers, arrivals, work, doing, cur, result>>

Stops ==
  /\ doing = "idle"
  /\ ctx \/ (Quiet /\ NothingLeft)
  /\ doing' = "stopping"
  /\ UNCHANGED <<ctx, timers, arrivals, work, cur, busy, result>>

Returns ==
  /\ doing = "stopping" /\ Quiet
  /\ doing' = "returned"
  /\ result' = IF ctx THEN "ctxErr" ELSE "ok"
  /\ UNCHANGED <<ctx, timers, arrivals, work, cur, busy>>

Next ==
  \/ Cancel \/ FireEnds \/ DeliveryEnds \/ Stops \/ Returns
  \/ \E p \in Parties :
       \/ TakeTimer(p) \/ TakeDelivery(p)
       \/ Schedules(p) \/ Receives(p) \/ ReactionEnds(p)

Spec == Init /\ [][Next]_vars
=============================================================================
