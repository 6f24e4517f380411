---------------------------- MODULE EngineSerial ----------------------------
(***************************************************************************)
(* An offline run implements the serial loop: of Engine's goroutines, only *)
(* the steps that touch the heap or a frame show; everything else, from    *)
(* the rendezvous to the watcher, is a stutter of the loop.                *)
(***************************************************************************)
EXTENDS Engine

(* What the loop is doing, by Run's place: a delivery is over for it when  *)
(* the frame is handed over, and the frame keeps the receiver busy until   *)
(* it has reacted.                                                         *)
LoopDoing ==
  CASE mpc \in {"fire", "deliver", "returned"} -> mpc
    [] mpc \in {"close", "join", "wait"}       -> "stopping"
    [] OTHER                                   -> "idle"

LoopBusy ==
  [e \in Ends |-> IF pending[e] THEN "handed"
                  ELSE IF wpc[e] \in {"took", "react"} THEN "reacting" ELSE "no"]

Loop == INSTANCE SerialLoop WITH doing <- LoopDoing, busy <- LoopBusy

(* However Go schedules the driver, the workers, the watcher and the       *)
(* AfterFuncs, and whenever the run is cancelled, it is a run of the       *)
(* serial loop: the promise of engine.go:15 and loopback.go:32.            *)
SerialRun == Loop!Spec
=============================================================================
