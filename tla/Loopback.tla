------------------------------ MODULE Loopback ------------------------------
(***************************************************************************)
(* The in-memory transport ends of internal/transport/loopback.go: the     *)
(* mutex-and-condition-variable rendezvous between the clock driver, which *)
(* hands a frame to an end (deliver), and the one goroutine that reads     *)
(* that end (Recv).                                                        *)
(*                                                                         *)
(* Every operator below is one critical section of e.mu: what the code     *)
(* does between acquiring the lock and either releasing it or waiting on   *)
(* e.cond.  Who runs the section, and when, is for the module that         *)
(* composes this one (Engine).  A goroutine blocked in e.cond.Wait() is a  *)
(* member of waiting[e]; Broadcast empties that set.                       *)
(***************************************************************************)
EXTENDS Naturals

CONSTANT Sessions       \* the synthetic callers of the run

VARIABLES
  pending,    \* e.pending # nil: a handed frame awaits consumption
  parked,     \* the worker is blocked in Recv with nothing to consume
  parkSeq,    \* increments each time the worker parks (and on Close)
  closed,     \* Close was called on this end
  cancelled,  \* a Recv on this end observed its context cancelled
  waiting     \* goroutines blocked in e.cond.Wait() and not yet woken

endVars == <<pending, parked, parkSeq, closed, cancelled, waiting>>

(* Loopback() makes a caller end and an agent end per session, each the   *)
(* other's peer.                                                          *)
CallerEnd(s) == <<"caller", s>>
AgentEnd(s)  == <<"agent", s>>
Ends == {"caller", "agent"} \X Sessions
Peer(e) == IF e[1] = "caller" THEN AgentEnd(e[2]) ELSE CallerEnd(e[2])

EndTypeOK ==
  /\ pending   \in [Ends -> BOOLEAN]
  /\ parked    \in [Ends -> BOOLEAN]
  /\ parkSeq   \in [Ends -> Nat]
  /\ closed    \in [Ends -> BOOLEAN]
  /\ cancelled \in [Ends -> BOOLEAN]
  /\ waiting   \in [Ends -> SUBSET {"driver", "worker"}]

EndInit ==
  /\ pending   = [e \in Ends |-> FALSE]
  /\ parked    = [e \in Ends |-> FALSE]
  /\ parkSeq   = [e \in Ends |-> 0]
  /\ closed    = [e \in Ends |-> FALSE]
  /\ cancelled = [e \in Ends |-> FALSE]
  /\ waiting   = [e \in Ends |-> {}]

(* e.cond.Broadcast(): every waiter may run again. *)
Broadcast(e) == waiting' = [waiting EXCEPT ![e] = {}]

(* e.cond.Broadcast() followed by who's own e.cond.Wait(). *)
BroadcastThenWait(e, who) == waiting' = [waiting EXCEPT ![e] = {who}]

-----------------------------------------------------------------------------
(* deliver, run by the clock driver.                                       *)

(* The conditions of its two wait loops. *)
DeliverReady(e) == parked[e] \/ closed[e] \/ cancelled[e]
DeliverGivesUp(e) == closed[e] \/ cancelled[e]

(* Mutant: the rendezvous as it was before cancellation was made to end it. *)
RendezvousOverUnlessCancelled(e, before) == parkSeq[e] # before \/ closed[e]
RendezvousOver(e, before) ==
  parkSeq[e] # before \/ closed[e] \/ cancelled[e]

(* Nobody parked here yet: the driver waits. *)
DeliverBlocks(e) ==
  /\ ~DeliverReady(e)
  /\ waiting' = [waiting EXCEPT ![e] = @ \cup {"driver"}]
  /\ UNCHANGED <<pending, parked, parkSeq, closed, cancelled>>

(* The frame is handed to the parked worker, which is woken; the driver    *)
(* goes on to wait for the re-park.                                        *)
Hand(e) ==
  /\ parked[e] /\ ~DeliverGivesUp(e)
  /\ pending' = [pending EXCEPT ![e] = TRUE]
  /\ parked' = [parked EXCEPT ![e] = FALSE]
  /\ BroadcastThenWait(e, "driver")
  /\ UNCHANGED <<parkSeq, closed, cancelled>>

-----------------------------------------------------------------------------
(* Recv, run by the end's one worker.  The checks come in the order        *)
(* pending, closed, ctx.Err(), park; a worker woken from e.cond.Wait()     *)
(* clears parked before it checks again.                                   *)

(* Mutant: the slot keeps the frame it returned. *)
RecvTakesWithoutClearing(e) ==
  /\ pending[e]
  /\ parked' = [parked EXCEPT ![e] = FALSE]
  /\ UNCHANGED <<pending, parkSeq, closed, cancelled, waiting>>
(* Mutant: taking the frame ends the rendezvous, not parking again. *)
RecvTakesAsParking(e) ==
  /\ pending[e]
  /\ pending' = [pending EXCEPT ![e] = FALSE]
  /\ parked' = [parked EXCEPT ![e] = FALSE]
  /\ parkSeq' = [parkSeq EXCEPT ![e] = @ + 1]
  /\ Broadcast(e)
  /\ UNCHANGED <<closed, cancelled>>
RecvTakes(e) ==
  /\ pending[e]
  /\ pending' = [pending EXCEPT ![e] = FALSE]
  /\ parked' = [parked EXCEPT ![e] = FALSE]
  /\ UNCHANGED <<parkSeq, closed, cancelled, waiting>>

RecvErrClosed(e) ==
  /\ ~pending[e] /\ closed[e]
  /\ parked' = [parked EXCEPT ![e] = FALSE]
  /\ UNCHANGED <<pending, parkSeq, closed, cancelled, waiting>>

RecvCtxErr(e) ==
  /\ ~pending[e] /\ ~closed[e]
  /\ parked' = [parked EXCEPT ![e] = FALSE]
  /\ cancelled' = [cancelled EXCEPT ![e] = TRUE]
  /\ Broadcast(e)
  /\ UNCHANGED <<pending, parkSeq, closed>>

RecvParks(e) ==
  /\ ~pending[e] /\ ~closed[e]
  /\ parked' = [parked EXCEPT ![e] = TRUE]
  /\ parkSeq' = [parkSeq EXCEPT ![e] = @ + 1]
  /\ BroadcastThenWait(e, "worker")
  /\ UNCHANGED <<pending, closed, cancelled>>

(* The context.AfterFunc goroutine that a Recv registered: wake the end. *)
AfterFuncWakes(e) ==
  /\ Broadcast(e)
  /\ UNCHANGED <<pending, parked, parkSeq, closed, cancelled>>

-----------------------------------------------------------------------------
(* Close: idempotent but for parkSeq. *)
Close(e) ==
  /\ closed' = [closed EXCEPT ![e] = TRUE]
  /\ parkSeq' = [parkSeq EXCEPT ![e] = @ + 1]
  /\ Broadcast(e)
  /\ UNCHANGED <<pending, parked, cancelled>>
=============================================================================
