------------------------------ MODULE MCEngine ------------------------------
(***************************************************************************)
(* Instances of Engine for TLC: one session, which has every interleaving  *)
(* of a cancellation with the driver, two workers, their AfterFuncs and    *)
(* the watcher.                                                            *)
(***************************************************************************)
EXTENDS EngineSerial

(* The least capacity that Run admits. *)
TwoPerSession == 2 * Cardinality(Sessions)
=============================================================================
