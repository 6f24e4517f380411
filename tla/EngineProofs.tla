---------------------------- MODULE EngineProofs ----------------------------
(***************************************************************************)
(* Safety of the offline run, for every number of sessions, prompts and    *)
(* timers: type correctness, that the driver and the workers never         *)
(* interleave, that frames are conserved, that a run without an error is   *)
(* complete, that nothing is left running, and that every run is a run of  *)
(* the serial loop.                                                        *)
(***************************************************************************)
EXTENDS EngineSerial, TLAPS, FiniteSetTheorems

LEMMA EndsFacts ==
  /\ Ends # {} /\ IsFiniteSet(Ends)
  /\ \A e \in Ends : Peer(e) \in Ends /\ Peer(Peer(e)) = e /\ Peer(e) # e
<1>1. Ends # {}
  <2>1. PICK s : s \in Sessions
    BY SessionsAssumption
  <2>2. <<"caller", s>> \in Ends
    BY <2>1 DEF Ends
  <2>. QED
    BY <2>2
<1>2. IsFiniteSet(Ends)
  <2>1. IsFiniteSet(({} \cup {"caller"}) \cup {"agent"})
    BY FS_EmptySet, FS_AddElement
  <2>2. ({} \cup {"caller"}) \cup {"agent"} = {"caller", "agent"}
    OBVIOUS
  <2>3. IsFiniteSet({"caller", "agent"})
    BY <2>1, <2>2
  <2>. QED
    BY <2>3, SessionsAssumption, FS_Product DEF Ends
<1>3. ASSUME NEW e \in Ends
      PROVE  Peer(e) \in Ends /\ Peer(Peer(e)) = e /\ Peer(e) # e
  <2>1. PICK side \in {"caller", "agent"}, s \in Sessions : e = <<side, s>>
    BY DEF Ends
  <2>2. /\ Peer(<<"caller", s>>) = <<"agent", s>>
        /\ Peer(<<"agent", s>>) = <<"caller", s>>
    BY DEF Peer, CallerEnd, AgentEnd
  <2>. QED
    BY <2>1, <2>2 DEF Ends
<1>. QED
  BY <1>1, <1>2, <1>3

-----------------------------------------------------------------------------
LEMMA TypeInit == Init => TypeOK
<1>1. (CHOOSE e \in Ends : TRUE) \in Ends
  BY EndsFacts
<1>2. ASSUME Init PROVE /\ timers \in [Ends -> Nat] /\ work \in Nat
                         /\ cur \in Ends
  BY <1>1, <1>2, BoundsAssumption DEF Init
<1>3. Init => EndTypeOK
  BY DEF Init, EndInit, EndTypeOK
<1>4. /\ Zero \in [Ends -> Nat] /\ [e \in Ends |-> FALSE] \in [Ends -> BOOLEAN]
      /\ [e \in Ends |-> "off"] \in [Ends -> WorkerPcs]
  BY DEF Zero, WorkerPcs
<1>5. ASSUME Init
      PROVE  /\ afters \in [Ends -> Nat] /\ arrivals \in [Ends -> Nat]
             /\ sent \in [Ends -> Nat] /\ dropped \in [Ends -> Nat]
             /\ consumed \in [Ends -> Nat] /\ lost \in [Ends -> Nat]
             /\ armed \in [Ends -> BOOLEAN] /\ wpc \in [Ends -> WorkerPcs]
  BY <1>4, <1>5 DEF Init
<1>6. ASSUME Init
      PROVE  /\ ctx \in BOOLEAN /\ mpc \in Driving /\ before \in Nat
             /\ wst \in {"off", "select", "closing", "done"}
             /\ mainLeft \subseteq Ends /\ watchLeft \subseteq Ends
             /\ holders \subseteq Ends /\ live \subseteq Ends /\ wg \subseteq Ends
             /\ peak \in Nat /\ result \in {"running", "ok", "ctxErr"}
  BY <1>6 DEF Init, Driving
<1>. QED
  BY <1>2, <1>3, <1>5, <1>6 DEF TypeOK

LEMMA TypeStep == TypeOK /\ [Next]_vars => TypeOK'
<1> SUFFICES ASSUME TypeOK, [Next]_vars PROVE TypeOK'
  OBVIOUS
<1> USE EndsFacts DEF TypeOK, EndTypeOK, Driving, TearingDown, WorkerPcs,
      vars, endVars, runVars, watchVars, afterVars, trackVars, heapVars,
      countVars
<1>1. CASE Cancel
  BY <1>1 DEF Cancel
<1>2. CASE StartWatcher
  BY <1>2 DEF StartWatcher
<1>3. CASE DriveChecks
  BY <1>3 DEF DriveChecks
<1>4. CASE AdvanceFindsEmpty
  BY <1>4 DEF AdvanceFindsEmpty
<1>5. CASE CallbackSchedules
  BY <1>5 DEF CallbackSchedules
<1>6. CASE CallbackEnds
  BY <1>6 DEF CallbackEnds
<1>7. CASE CallbackSends
  BY <1>7 DEF CallbackSends
<1>8. CASE DeliverWaits
  BY <1>8 DEF DeliverWaits, DeliverBlocks
<1>9. CASE DeliverAbandons
  BY <1>9 DEF DeliverAbandons, DeliverGivesUp
<1>10. CASE DeliverHands
  BY <1>10 DEF DeliverHands, Hand, BroadcastThenWait, DeliverGivesUp
<1>11. CASE RendezvousWaits
  BY <1>11 DEF RendezvousWaits
<1>12. CASE RendezvousEnds
  BY <1>12 DEF RendezvousEnds, RendezvousOver
<1>13. CASE MainSignals
  BY <1>13 DEF MainSignals
<1>14. CASE MainJoinsWatcher
  BY <1>14 DEF MainJoinsWatcher
<1>15. CASE MainReturns
  BY <1>15 DEF MainReturns
<1>16. ASSUME NEW e \in Ends, TrackAcquires(e) PROVE TypeOK'
  BY <1>16 DEF TrackAcquires, IsFirst, Unlaunched
<1>17. ASSUME NEW e \in Ends, TrackStarts(e) PROVE TypeOK'
  <2>1. IsFiniteSet(live') /\ live' \subseteq Ends
    BY <1>17, FS_Subset, live' \in SUBSET Ends DEF TrackStarts
  <2>2. peak' \in Nat
    BY <1>17, <2>1, FS_CardinalityType DEF TrackStarts
  <2>. QED
    BY <1>17, <2>1, <2>2 DEF TrackStarts
<1>18. ASSUME NEW e \in Ends, AdvancePopsTimer(e) PROVE TypeOK'
  BY <1>18 DEF AdvancePopsTimer
<1>19. ASSUME NEW e \in Ends, AdvancePopsArrival(e) PROVE TypeOK'
  BY <1>19 DEF AdvancePopsArrival
<1>20. ASSUME NEW e \in Ends, MainCloses(e) PROVE TypeOK'
  BY <1>20 DEF MainCloses, IsFirst, Close, Broadcast
<1>21. CASE WatcherSeesCancel
  BY <1>21 DEF WatcherSeesCancel
<1>22. CASE WatcherEnds
  BY <1>22 DEF WatcherEnds
<1>23. ASSUME NEW e \in Ends, WatcherCloses(e) PROVE TypeOK'
  BY <1>23 DEF WatcherCloses, IsFirst, Close, Broadcast
<1>24. ASSUME NEW e \in Ends, WorkerCallsRecv(e) PROVE TypeOK'
  <2>1. CASE ctx
    BY <1>24, <2>1 DEF WorkerCallsRecv
  <2>2. CASE ~ctx
    BY <1>24, <2>2 DEF WorkerCallsRecv
  <2>. QED
    BY <2>1, <2>2
<1>25. ASSUME NEW e \in Ends, WorkerTakes(e) PROVE TypeOK'
  BY <1>25 DEF WorkerTakes, WorkerAwake, RecvTakes
<1>26. ASSUME NEW e \in Ends, WorkerFails(e) PROVE TypeOK'
  BY <1>26 DEF WorkerFails, WorkerAwake, RecvErrClosed, RecvCtxErr, Broadcast
<1>27. ASSUME NEW e \in Ends, WorkerParks(e) PROVE TypeOK'
  BY <1>27 DEF WorkerParks, WorkerAwake, RecvParks, BroadcastThenWait
<1>28. ASSUME NEW e \in Ends, RecvReturns(e) PROVE TypeOK'
  BY <1>28 DEF RecvReturns
<1>29. ASSUME NEW e \in Ends, ReactionSchedules(e) PROVE TypeOK'
  BY <1>29 DEF ReactionSchedules
<1>30. ASSUME NEW e \in Ends, ReactionEnds(e) PROVE TypeOK'
  BY <1>30 DEF ReactionEnds
<1>31. ASSUME NEW e \in Ends, WorkerUncounts(e) PROVE TypeOK'
  BY <1>31 DEF WorkerUncounts
<1>32. ASSUME NEW e \in Ends, WorkerReleases(e) PROVE TypeOK'
  BY <1>32 DEF WorkerReleases
<1>33. ASSUME NEW e \in Ends, WorkerDone(e) PROVE TypeOK'
  BY <1>33 DEF WorkerDone
<1>34. ASSUME NEW e \in Ends, AfterFuncStarts(e) PROVE TypeOK'
  BY <1>34 DEF AfterFuncStarts
<1>35. ASSUME NEW e \in Ends, AfterFuncRuns(e) PROVE TypeOK'
  BY <1>35 DEF AfterFuncRuns, AfterFuncWakes, Broadcast
<1>36. CASE Finished \/ UNCHANGED vars
  BY <1>36 DEF Finished
<1>. QED
  BY <1>1, <1>2, <1>3, <1>4, <1>5, <1>6, <1>7, <1>8, <1>9, <1>10, <1>11, <1>12, <1>13, <1>14, <1>15, <1>16, <1>17, <1>18, <1>19, <1>20, <1>21, <1>22, <1>23, <1>24, <1>25, <1>26, <1>27, <1>28, <1>29, <1>30, <1>31, <1>32, <1>33, <1>34, <1>35, <1>36
  DEF Next, Main, Watcher, Worker, AfterFunc

(* Every variable keeps its type.                                          *)
THEOREM TypeCorrect == Spec => []TypeOK
BY TypeInit, TypeStep, PTL DEF Spec

-----------------------------------------------------------------------------
(* While the run is driven, an end is closed or marked cancelled only if   *)
(* the context is cancelled.                                               *)
OnlyCancellationCloses ==
  /\ \A e \in Ends : cancelled[e] => ctx
  /\ \A e \in Ends : closed[e] => ctx \/ mpc \in TearingDown
  /\ wst = "closing" => ctx

LEMMA ClosesStep ==
  TypeOK /\ OnlyCancellationCloses /\ [Next]_vars => OnlyCancellationCloses'
<1> SUFFICES ASSUME TypeOK, OnlyCancellationCloses, [Next]_vars
             PROVE  OnlyCancellationCloses'
  OBVIOUS
<1> USE DEF OnlyCancellationCloses, TypeOK, EndTypeOK, Driving, TearingDown,
      vars, endVars, runVars, watchVars, afterVars, trackVars, heapVars,
      countVars
<1>1. CASE Cancel
  BY <1>1 DEF Cancel
<1>2. CASE StartWatcher
  BY <1>2 DEF StartWatcher
<1>3. CASE DriveChecks
  BY <1>3 DEF DriveChecks
<1>4. CASE AdvanceFindsEmpty
  BY <1>4 DEF AdvanceFindsEmpty
<1>5. CASE CallbackSchedules
  BY <1>5 DEF CallbackSchedules
<1>6. CASE CallbackEnds
  BY <1>6 DEF CallbackEnds
<1>7. CASE CallbackSends
  BY <1>7 DEF CallbackSends
<1>8. CASE DeliverWaits
  BY <1>8 DEF DeliverWaits, DeliverBlocks
<1>9. CASE DeliverAbandons
  BY <1>9 DEF DeliverAbandons, DeliverGivesUp
<1>10. CASE DeliverHands
  BY <1>10 DEF DeliverHands, Hand, BroadcastThenWait, DeliverGivesUp
<1>11. CASE RendezvousWaits
  BY <1>11 DEF RendezvousWaits
<1>12. CASE RendezvousEnds
  BY <1>12 DEF RendezvousEnds, RendezvousOver
<1>13. CASE MainSignals
  BY <1>13 DEF MainSignals
<1>14. CASE MainJoinsWatcher
  BY <1>14 DEF MainJoinsWatcher
<1>15. CASE MainReturns
  BY <1>15 DEF MainReturns
<1>16. ASSUME NEW e \in Ends, TrackAcquires(e) PROVE OnlyCancellationCloses'
  BY <1>16 DEF TrackAcquires, IsFirst, Unlaunched
<1>17. ASSUME NEW e \in Ends, TrackStarts(e) PROVE OnlyCancellationCloses'
  BY <1>17 DEF TrackStarts
<1>18. ASSUME NEW e \in Ends, AdvancePopsTimer(e) PROVE OnlyCancellationCloses'
  BY <1>18 DEF AdvancePopsTimer
<1>19. ASSUME NEW e \in Ends, AdvancePopsArrival(e) PROVE OnlyCancellationCloses'
  BY <1>19 DEF AdvancePopsArrival
<1>20. ASSUME NEW e \in Ends, MainCloses(e) PROVE OnlyCancellationCloses'
  BY <1>20 DEF MainCloses, IsFirst, Close, Broadcast
<1>21. CASE WatcherSeesCancel
  BY <1>21 DEF WatcherSeesCancel
<1>22. CASE WatcherEnds
  BY <1>22 DEF WatcherEnds
<1>23. ASSUME NEW e \in Ends, WatcherCloses(e) PROVE OnlyCancellationCloses'
  BY <1>23 DEF WatcherCloses, IsFirst, Close, Broadcast
<1>24. ASSUME NEW e \in Ends, WorkerCallsRecv(e) PROVE OnlyCancellationCloses'
  BY <1>24 DEF WorkerCallsRecv
<1>25. ASSUME NEW e \in Ends, WorkerTakes(e) PROVE OnlyCancellationCloses'
  BY <1>25 DEF WorkerTakes, WorkerAwake, RecvTakes
<1>26. ASSUME NEW e \in Ends, WorkerFails(e) PROVE OnlyCancellationCloses'
  BY <1>26 DEF WorkerFails, WorkerAwake, RecvErrClosed, RecvCtxErr, Broadcast
<1>27. ASSUME NEW e \in Ends, WorkerParks(e) PROVE OnlyCancellationCloses'
  BY <1>27 DEF WorkerParks, WorkerAwake, RecvParks, BroadcastThenWait
<1>28. ASSUME NEW e \in Ends, RecvReturns(e) PROVE OnlyCancellationCloses'
  BY <1>28 DEF RecvReturns
<1>29. ASSUME NEW e \in Ends, ReactionSchedules(e) PROVE OnlyCancellationCloses'
  BY <1>29 DEF ReactionSchedules
<1>30. ASSUME NEW e \in Ends, ReactionEnds(e) PROVE OnlyCancellationCloses'
  BY <1>30 DEF ReactionEnds
<1>31. ASSUME NEW e \in Ends, WorkerUncounts(e) PROVE OnlyCancellationCloses'
  BY <1>31 DEF WorkerUncounts
<1>32. ASSUME NEW e \in Ends, WorkerReleases(e) PROVE OnlyCancellationCloses'
  BY <1>32 DEF WorkerReleases
<1>33. ASSUME NEW e \in Ends, WorkerDone(e) PROVE OnlyCancellationCloses'
  BY <1>33 DEF WorkerDone
<1>34. ASSUME NEW e \in Ends, AfterFuncStarts(e) PROVE OnlyCancellationCloses'
  BY <1>34 DEF AfterFuncStarts
<1>35. ASSUME NEW e \in Ends, AfterFuncRuns(e) PROVE OnlyCancellationCloses'
  BY <1>35 DEF AfterFuncRuns, AfterFuncWakes, Broadcast
<1>36. CASE Finished \/ UNCHANGED vars
  BY <1>36 DEF Finished
<1>. QED
  BY <1>1, <1>2, <1>3, <1>4, <1>5, <1>6, <1>7, <1>8, <1>9, <1>10, <1>11, <1>12, <1>13, <1>14, <1>15, <1>16, <1>17, <1>18, <1>19, <1>20, <1>21, <1>22, <1>23, <1>24, <1>25, <1>26, <1>27, <1>28, <1>29, <1>30, <1>31, <1>32, <1>33, <1>34, <1>35, <1>36
  DEF Next, Main, Watcher, Worker, AfterFunc

(* Where a busy worker can be: the driver waits for it in the rendezvous   *)
(* of its own end, or a cancellation let the driver go, for good.          *)
BusyOnlyInRendezvous ==
  \A e \in Ends : Busy(e) =>
    \/ mpc = "rendezvous" /\ cur = e /\ (parkSeq[e] = before \/ ctx)
    \/ ctx /\ mpc \in {"drive"} \cup TearingDown

LEMMA BusyStep ==
  TypeOK /\ OnlyCancellationCloses /\ BusyOnlyInRendezvous /\ OneReaction
  /\ [Next]_vars => BusyOnlyInRendezvous' /\ OneReaction'
<1> SUFFICES ASSUME TypeOK, OnlyCancellationCloses, BusyOnlyInRendezvous,
                    OneReaction, [Next]_vars
             PROVE  BusyOnlyInRendezvous' /\ OneReaction'
  OBVIOUS
<1> USE DEF BusyOnlyInRendezvous, OneReaction, Busy, OnlyCancellationCloses,
      TypeOK, EndTypeOK, Driving, TearingDown, WorkerPcs,
      vars, endVars, runVars, watchVars, afterVars, trackVars, heapVars,
      countVars
<1>1. CASE Cancel
  BY <1>1 DEF Cancel
<1>2. CASE StartWatcher
  BY <1>2 DEF StartWatcher
<1>3. CASE DriveChecks
  BY <1>3 DEF DriveChecks
<1>4. CASE AdvanceFindsEmpty
  BY <1>4 DEF AdvanceFindsEmpty
<1>5. CASE CallbackSchedules
  BY <1>5 DEF CallbackSchedules
<1>6. CASE CallbackEnds
  BY <1>6 DEF CallbackEnds
<1>7. CASE CallbackSends
  BY <1>7 DEF CallbackSends
<1>8. CASE DeliverWaits
  BY <1>8 DEF DeliverWaits, DeliverBlocks
<1>9. CASE DeliverAbandons
  BY <1>9 DEF DeliverAbandons, DeliverGivesUp
<1>10. CASE DeliverHands
  BY <1>10 DEF DeliverHands, Hand, BroadcastThenWait, DeliverGivesUp
<1>11. CASE RendezvousWaits
  BY <1>11 DEF RendezvousWaits
<1>12. CASE RendezvousEnds
  BY <1>12 DEF RendezvousEnds, RendezvousOver
<1>13. CASE MainSignals
  BY <1>13 DEF MainSignals
<1>14. CASE MainJoinsWatcher
  BY <1>14 DEF MainJoinsWatcher
<1>15. CASE MainReturns
  BY <1>15 DEF MainReturns
<1>16. ASSUME NEW e \in Ends, TrackAcquires(e) PROVE BusyOnlyInRendezvous' /\ OneReaction'
  BY <1>16 DEF TrackAcquires, IsFirst, Unlaunched
<1>17. ASSUME NEW e \in Ends, TrackStarts(e) PROVE BusyOnlyInRendezvous' /\ OneReaction'
  BY <1>17 DEF TrackStarts
<1>18. ASSUME NEW e \in Ends, AdvancePopsTimer(e) PROVE BusyOnlyInRendezvous' /\ OneReaction'
  BY <1>18 DEF AdvancePopsTimer
<1>19. ASSUME NEW e \in Ends, AdvancePopsArrival(e) PROVE BusyOnlyInRendezvous' /\ OneReaction'
  BY <1>19 DEF AdvancePopsArrival
<1>20. ASSUME NEW e \in Ends, MainCloses(e) PROVE BusyOnlyInRendezvous' /\ OneReaction'
  BY <1>20 DEF MainCloses, IsFirst, Close, Broadcast
<1>21. CASE WatcherSeesCancel
  BY <1>21 DEF WatcherSeesCancel
<1>22. CASE WatcherEnds
  BY <1>22 DEF WatcherEnds
<1>23. ASSUME NEW e \in Ends, WatcherCloses(e) PROVE BusyOnlyInRendezvous' /\ OneReaction'
  BY <1>23 DEF WatcherCloses, IsFirst, Close, Broadcast
<1>24. ASSUME NEW e \in Ends, WorkerCallsRecv(e) PROVE BusyOnlyInRendezvous' /\ OneReaction'
  BY <1>24 DEF WorkerCallsRecv
<1>25. ASSUME NEW e \in Ends, WorkerTakes(e) PROVE BusyOnlyInRendezvous' /\ OneReaction'
  BY <1>25 DEF WorkerTakes, WorkerAwake, RecvTakes
<1>26. ASSUME NEW e \in Ends, WorkerFails(e) PROVE BusyOnlyInRendezvous' /\ OneReaction'
  BY <1>26 DEF WorkerFails, WorkerAwake, RecvErrClosed, RecvCtxErr, Broadcast
<1>27. ASSUME NEW e \in Ends, WorkerParks(e) PROVE BusyOnlyInRendezvous' /\ OneReaction'
  BY <1>27 DEF WorkerParks, WorkerAwake, RecvParks, BroadcastThenWait
<1>28. ASSUME NEW e \in Ends, RecvReturns(e) PROVE BusyOnlyInRendezvous' /\ OneReaction'
  BY <1>28 DEF RecvReturns
<1>29. ASSUME NEW e \in Ends, ReactionSchedules(e) PROVE BusyOnlyInRendezvous' /\ OneReaction'
  BY <1>29 DEF ReactionSchedules
<1>30. ASSUME NEW e \in Ends, ReactionEnds(e) PROVE BusyOnlyInRendezvous' /\ OneReaction'
  BY <1>30 DEF ReactionEnds
<1>31. ASSUME NEW e \in Ends, WorkerUncounts(e) PROVE BusyOnlyInRendezvous' /\ OneReaction'
  BY <1>31 DEF WorkerUncounts
<1>32. ASSUME NEW e \in Ends, WorkerReleases(e) PROVE BusyOnlyInRendezvous' /\ OneReaction'
  BY <1>32 DEF WorkerReleases
<1>33. ASSUME NEW e \in Ends, WorkerDone(e) PROVE BusyOnlyInRendezvous' /\ OneReaction'
  BY <1>33 DEF WorkerDone
<1>34. ASSUME NEW e \in Ends, AfterFuncStarts(e) PROVE BusyOnlyInRendezvous' /\ OneReaction'
  BY <1>34 DEF AfterFuncStarts
<1>35. ASSUME NEW e \in Ends, AfterFuncRuns(e) PROVE BusyOnlyInRendezvous' /\ OneReaction'
  BY <1>35 DEF AfterFuncRuns, AfterFuncWakes, Broadcast
<1>36. CASE Finished \/ UNCHANGED vars
  BY <1>36 DEF Finished
<1>. QED
  BY <1>1, <1>2, <1>3, <1>4, <1>5, <1>6, <1>7, <1>8, <1>9, <1>10, <1>11, <1>12, <1>13, <1>14, <1>15, <1>16, <1>17, <1>18, <1>19, <1>20, <1>21, <1>22, <1>23, <1>24, <1>25, <1>26, <1>27, <1>28, <1>29, <1>30, <1>31, <1>32, <1>33, <1>34, <1>35, <1>36
  DEF Next, Main, Watcher, Worker, AfterFunc

SerialInv == TypeOK /\ OnlyCancellationCloses /\ BusyOnlyInRendezvous /\ OneReaction

LEMMA SerialInvariant == Spec => []SerialInv
<1>1. Init => SerialInv
  BY TypeInit
  DEF Init, EndInit, SerialInv, OnlyCancellationCloses, BusyOnlyInRendezvous,
      OneReaction, Busy
<1>2. SerialInv /\ [Next]_vars => SerialInv'
  BY TypeStep, ClosesStep, BusyStep DEF SerialInv
<1>. QED
  BY <1>1, <1>2, PTL DEF Spec

(* The driver's callbacks and the workers' reactions never interleave.     *)
THEOREM DriverRunsAlone == Spec => []DriverAlone
<1>1. SerialInv => DriverAlone
  BY DEF SerialInv, BusyOnlyInRendezvous, DriverAlone, TearingDown
<1>. QED
  BY <1>1, SerialInvariant, PTL

(* At most one worker of the run holds a frame.                            *)
THEOREM OneReactionAtATime == Spec => []OneReaction
<1>1. SerialInv => OneReaction
  BY DEF SerialInv
<1>. QED
  BY <1>1, SerialInvariant, PTL

-----------------------------------------------------------------------------
LEMMA ConservationStep ==
  SerialInv /\ FrameConservation /\ [Next]_vars => FrameConservation'
<1> SUFFICES ASSUME SerialInv, FrameConservation, [Next]_vars
             PROVE  FrameConservation'
  OBVIOUS
<1> USE EndsFacts DEF SerialInv, BusyOnlyInRendezvous, Busy, FrameConservation,
      InDelivery, Once, TypeOK, EndTypeOK, Driving, TearingDown,
      vars, endVars, runVars, watchVars, afterVars, trackVars, heapVars,
      countVars
<1>1. CASE Cancel
  BY <1>1 DEF Cancel
<1>2. CASE StartWatcher
  BY <1>2 DEF StartWatcher
<1>3. CASE DriveChecks
  BY <1>3 DEF DriveChecks
<1>4. CASE AdvanceFindsEmpty
  BY <1>4 DEF AdvanceFindsEmpty
<1>5. CASE CallbackSchedules
  BY <1>5 DEF CallbackSchedules
<1>6. CASE CallbackEnds
  BY <1>6 DEF CallbackEnds
<1>7. CASE CallbackSends
  BY <1>7 DEF CallbackSends
<1>8. CASE DeliverWaits
  BY <1>8 DEF DeliverWaits, DeliverBlocks
<1>9. CASE DeliverAbandons
  <2> SUFFICES ASSUME NEW f \in Ends
               PROVE  sent[Peer(f)] = dropped[Peer(f)] + arrivals[f]
                        + Once(InDelivery(f)') + Once(pending[f]) + consumed[f]
                        + lost'[f]
    BY <1>9 DEF DeliverAbandons
  <2>1. /\ InDelivery(f) <=> f = cur
        /\ ~InDelivery(f)'
        /\ lost'[f] = IF f = cur THEN lost[f] + 1 ELSE lost[f]
    BY <1>9 DEF DeliverAbandons
  <2>. QED
    BY <2>1
<1>10. CASE DeliverHands
  BY <1>10 DEF DeliverHands, Hand, BroadcastThenWait, DeliverGivesUp
<1>11. CASE RendezvousWaits
  BY <1>11 DEF RendezvousWaits
<1>12. CASE RendezvousEnds
  BY <1>12 DEF RendezvousEnds, RendezvousOver
<1>13. CASE MainSignals
  BY <1>13 DEF MainSignals
<1>14. CASE MainJoinsWatcher
  BY <1>14 DEF MainJoinsWatcher
<1>15. CASE MainReturns
  BY <1>15 DEF MainReturns
<1>16. ASSUME NEW e \in Ends, TrackAcquires(e) PROVE FrameConservation'
  BY <1>16 DEF TrackAcquires, IsFirst, Unlaunched
<1>17. ASSUME NEW e \in Ends, TrackStarts(e) PROVE FrameConservation'
  BY <1>17 DEF TrackStarts
<1>18. ASSUME NEW e \in Ends, AdvancePopsTimer(e) PROVE FrameConservation'
  BY <1>18 DEF AdvancePopsTimer
<1>19. ASSUME NEW e \in Ends, AdvancePopsArrival(e) PROVE FrameConservation'
  BY <1>19 DEF AdvancePopsArrival
<1>20. ASSUME NEW e \in Ends, MainCloses(e) PROVE FrameConservation'
  BY <1>20 DEF MainCloses, IsFirst, Close, Broadcast
<1>21. CASE WatcherSeesCancel
  BY <1>21 DEF WatcherSeesCancel
<1>22. CASE WatcherEnds
  BY <1>22 DEF WatcherEnds
<1>23. ASSUME NEW e \in Ends, WatcherCloses(e) PROVE FrameConservation'
  BY <1>23 DEF WatcherCloses, IsFirst, Close, Broadcast
<1>24. ASSUME NEW e \in Ends, WorkerCallsRecv(e) PROVE FrameConservation'
  BY <1>24 DEF WorkerCallsRecv
<1>25. ASSUME NEW e \in Ends, WorkerTakes(e) PROVE FrameConservation'
  <2> SUFFICES ASSUME NEW f \in Ends
               PROVE  sent[Peer(f)] = dropped[Peer(f)] + arrivals[f]
                        + Once(InDelivery(f)) + Once(pending'[f])
                        + consumed'[f] + lost[f]
    BY <1>25 DEF WorkerTakes, RecvTakes
  <2>1. CASE f = e
    <3>1. pending[f] /\ ~pending'[f] /\ consumed'[f] = consumed[f] + 1
      BY <1>25, <2>1 DEF WorkerTakes, RecvTakes
    <3>. QED
      BY <3>1
  <2>2. CASE f # e
    <3>1. pending'[f] = pending[f] /\ consumed'[f] = consumed[f]
      BY <1>25, <2>2 DEF WorkerTakes, RecvTakes
    <3>. QED
      BY <3>1
  <2>. QED
    BY <2>1, <2>2
<1>26. ASSUME NEW e \in Ends, WorkerFails(e) PROVE FrameConservation'
  BY <1>26 DEF WorkerFails, WorkerAwake, RecvErrClosed, RecvCtxErr, Broadcast
<1>27. ASSUME NEW e \in Ends, WorkerParks(e) PROVE FrameConservation'
  BY <1>27 DEF WorkerParks, WorkerAwake, RecvParks, BroadcastThenWait
<1>28. ASSUME NEW e \in Ends, RecvReturns(e) PROVE FrameConservation'
  BY <1>28 DEF RecvReturns
<1>29. ASSUME NEW e \in Ends, ReactionSchedules(e) PROVE FrameConservation'
  BY <1>29 DEF ReactionSchedules
<1>30. ASSUME NEW e \in Ends, ReactionEnds(e) PROVE FrameConservation'
  BY <1>30 DEF ReactionEnds
<1>31. ASSUME NEW e \in Ends, WorkerUncounts(e) PROVE FrameConservation'
  BY <1>31 DEF WorkerUncounts
<1>32. ASSUME NEW e \in Ends, WorkerReleases(e) PROVE FrameConservation'
  BY <1>32 DEF WorkerReleases
<1>33. ASSUME NEW e \in Ends, WorkerDone(e) PROVE FrameConservation'
  BY <1>33 DEF WorkerDone
<1>34. ASSUME NEW e \in Ends, AfterFuncStarts(e) PROVE FrameConservation'
  BY <1>34 DEF AfterFuncStarts
<1>35. ASSUME NEW e \in Ends, AfterFuncRuns(e) PROVE FrameConservation'
  BY <1>35 DEF AfterFuncRuns, AfterFuncWakes, Broadcast
<1>36. CASE Finished \/ UNCHANGED vars
  BY <1>36 DEF Finished
<1>. QED
  BY <1>1, <1>2, <1>3, <1>4, <1>5, <1>6, <1>7, <1>8, <1>9, <1>10, <1>11, <1>12, <1>13, <1>14, <1>15, <1>16, <1>17, <1>18, <1>19, <1>20, <1>21, <1>22, <1>23, <1>24, <1>25, <1>26, <1>27, <1>28, <1>29, <1>30, <1>31, <1>32, <1>33, <1>34, <1>35, <1>36
  DEF Next, Main, Watcher, Worker, AfterFunc

(* No frame is lost, overwritten or duplicated between Send and Recv.      *)
THEOREM FramesAreConserved == Spec => []FrameConservation
<1>1. Init => FrameConservation
  BY EndsFacts DEF Init, EndInit, FrameConservation, InDelivery, Once, Zero
<1>. QED
  BY <1>1, ConservationStep, SerialInvariant, PTL DEF Spec

-----------------------------------------------------------------------------
(* Until the context is cancelled the driver abandons no frame, and stops  *)
(* driving only when the heap is empty, for good.                          *)
DrainedBeforeClosing ==
  /\ mpc \in TearingDown /\ ~ctx => HeapEmpty
  /\ \A e \in Ends : lost[e] # 0 => ctx
  /\ result # "running" => mpc = "returned"
  /\ result = "ok" => ~ctx

LEMMA DrainedStep ==
  SerialInv /\ DrainedBeforeClosing /\ [Next]_vars => DrainedBeforeClosing'
<1> SUFFICES ASSUME SerialInv, DrainedBeforeClosing, [Next]_vars
             PROVE  DrainedBeforeClosing'
  OBVIOUS
<1> USE DEF SerialInv, OnlyCancellationCloses, BusyOnlyInRendezvous, Busy,
      DrainedBeforeClosing, HeapEmpty, TypeOK, EndTypeOK, Driving, TearingDown,
      vars, endVars, runVars, watchVars, afterVars, trackVars, heapVars,
      countVars
<1>1. CASE Cancel
  BY <1>1 DEF Cancel
<1>2. CASE StartWatcher
  BY <1>2 DEF StartWatcher
<1>3. CASE DriveChecks
  BY <1>3 DEF DriveChecks
<1>4. CASE AdvanceFindsEmpty
  BY <1>4 DEF AdvanceFindsEmpty
<1>5. CASE CallbackSchedules
  BY <1>5 DEF CallbackSchedules
<1>6. CASE CallbackEnds
  BY <1>6 DEF CallbackEnds
<1>7. CASE CallbackSends
  BY <1>7 DEF CallbackSends
<1>8. CASE DeliverWaits
  BY <1>8 DEF DeliverWaits, DeliverBlocks
<1>9. CASE DeliverAbandons
  BY <1>9 DEF DeliverAbandons, DeliverGivesUp
<1>10. CASE DeliverHands
  BY <1>10 DEF DeliverHands, Hand, BroadcastThenWait, DeliverGivesUp
<1>11. CASE RendezvousWaits
  BY <1>11 DEF RendezvousWaits
<1>12. CASE RendezvousEnds
  BY <1>12 DEF RendezvousEnds, RendezvousOver
<1>13. CASE MainSignals
  BY <1>13 DEF MainSignals
<1>14. CASE MainJoinsWatcher
  BY <1>14 DEF MainJoinsWatcher
<1>15. CASE MainReturns
  BY <1>15 DEF MainReturns
<1>16. ASSUME NEW e \in Ends, TrackAcquires(e) PROVE DrainedBeforeClosing'
  BY <1>16 DEF TrackAcquires, IsFirst, Unlaunched
<1>17. ASSUME NEW e \in Ends, TrackStarts(e) PROVE DrainedBeforeClosing'
  BY <1>17 DEF TrackStarts
<1>18. ASSUME NEW e \in Ends, AdvancePopsTimer(e) PROVE DrainedBeforeClosing'
  BY <1>18 DEF AdvancePopsTimer
<1>19. ASSUME NEW e \in Ends, AdvancePopsArrival(e) PROVE DrainedBeforeClosing'
  BY <1>19 DEF AdvancePopsArrival
<1>20. ASSUME NEW e \in Ends, MainCloses(e) PROVE DrainedBeforeClosing'
  BY <1>20 DEF MainCloses, IsFirst, Close, Broadcast
<1>21. CASE WatcherSeesCancel
  BY <1>21 DEF WatcherSeesCancel
<1>22. CASE WatcherEnds
  BY <1>22 DEF WatcherEnds
<1>23. ASSUME NEW e \in Ends, WatcherCloses(e) PROVE DrainedBeforeClosing'
  BY <1>23 DEF WatcherCloses, IsFirst, Close, Broadcast
<1>24. ASSUME NEW e \in Ends, WorkerCallsRecv(e) PROVE DrainedBeforeClosing'
  BY <1>24 DEF WorkerCallsRecv
<1>25. ASSUME NEW e \in Ends, WorkerTakes(e) PROVE DrainedBeforeClosing'
  BY <1>25 DEF WorkerTakes, WorkerAwake, RecvTakes
<1>26. ASSUME NEW e \in Ends, WorkerFails(e) PROVE DrainedBeforeClosing'
  BY <1>26 DEF WorkerFails, WorkerAwake, RecvErrClosed, RecvCtxErr, Broadcast
<1>27. ASSUME NEW e \in Ends, WorkerParks(e) PROVE DrainedBeforeClosing'
  BY <1>27 DEF WorkerParks, WorkerAwake, RecvParks, BroadcastThenWait
<1>28. ASSUME NEW e \in Ends, RecvReturns(e) PROVE DrainedBeforeClosing'
  BY <1>28 DEF RecvReturns
<1>29. ASSUME NEW e \in Ends, ReactionSchedules(e) PROVE DrainedBeforeClosing'
  BY <1>29 DEF ReactionSchedules
<1>30. ASSUME NEW e \in Ends, ReactionEnds(e) PROVE DrainedBeforeClosing'
  BY <1>30 DEF ReactionEnds
<1>31. ASSUME NEW e \in Ends, WorkerUncounts(e) PROVE DrainedBeforeClosing'
  BY <1>31 DEF WorkerUncounts
<1>32. ASSUME NEW e \in Ends, WorkerReleases(e) PROVE DrainedBeforeClosing'
  BY <1>32 DEF WorkerReleases
<1>33. ASSUME NEW e \in Ends, WorkerDone(e) PROVE DrainedBeforeClosing'
  BY <1>33 DEF WorkerDone
<1>34. ASSUME NEW e \in Ends, AfterFuncStarts(e) PROVE DrainedBeforeClosing'
  BY <1>34 DEF AfterFuncStarts
<1>35. ASSUME NEW e \in Ends, AfterFuncRuns(e) PROVE DrainedBeforeClosing'
  BY <1>35 DEF AfterFuncRuns, AfterFuncWakes, Broadcast
<1>36. CASE Finished \/ UNCHANGED vars
  BY <1>36 DEF Finished
<1>. QED
  BY <1>1, <1>2, <1>3, <1>4, <1>5, <1>6, <1>7, <1>8, <1>9, <1>10, <1>11, <1>12, <1>13, <1>14, <1>15, <1>16, <1>17, <1>18, <1>19, <1>20, <1>21, <1>22, <1>23, <1>24, <1>25, <1>26, <1>27, <1>28, <1>29, <1>30, <1>31, <1>32, <1>33, <1>34, <1>35, <1>36
  DEF Next, Main, Watcher, Worker, AfterFunc

(* A run that returns no error left nothing on the clock and lost no frame. *)
THEOREM RunIsComplete == Spec => []CompleteRun
<1>1. Init => DrainedBeforeClosing
  BY EndsFacts DEF Init, DrainedBeforeClosing, Zero, TearingDown
<1>2. SerialInv /\ FrameConservation /\ DrainedBeforeClosing => CompleteRun
  <2> SUFFICES ASSUME SerialInv, FrameConservation, DrainedBeforeClosing,
                      result = "ok"
               PROVE  /\ HeapEmpty
                      /\ \A e \in Ends :
                           sent[Peer(e)] = dropped[Peer(e)] + consumed[e]
    BY DEF CompleteRun
  <2>1. mpc = "returned" /\ ~ctx /\ HeapEmpty
    BY DEF DrainedBeforeClosing, TearingDown
  <2>2. ASSUME NEW e \in Ends
        PROVE  sent[Peer(e)] = dropped[Peer(e)] + consumed[e]
    <3>1. ~pending[e] /\ ~InDelivery(e) /\ lost[e] = 0 /\ arrivals[e] = 0
      BY <2>1 DEF SerialInv, BusyOnlyInRendezvous, Busy, InDelivery,
         DrainedBeforeClosing, HeapEmpty, Zero
    <3>2. sent[Peer(e)] = dropped[Peer(e)] + arrivals[e] + Once(InDelivery(e))
                          + Once(pending[e]) + consumed[e] + lost[e]
      BY DEF FrameConservation
    <3>3. Once(InDelivery(e)) = 0 /\ Once(pending[e]) = 0
      BY <3>1 DEF Once
    <3>. QED
      BY <3>1, <3>2, <3>3, EndsFacts DEF SerialInv, TypeOK
  <2>. QED
    BY <2>1, <2>2
<1>. QED
  BY <1>1, <1>2, DrainedStep, SerialInvariant, FramesAreConserved, PTL DEF Spec

-----------------------------------------------------------------------------
(* What the WaitGroup, the live count and the semaphore know of a worker   *)
(* follows from where it is; the watcher is joined before wg.Wait().       *)
Tracked ==
  /\ \A e \in Ends :
       /\ e \in wg <=> wpc[e] \notin {"off", "starting", "done"}
       /\ e \in live <=>
            wpc[e] \notin {"off", "starting", "uncounted", "released", "done"}
       /\ e \in holders <=> wpc[e] \notin {"off", "released", "done"}
  /\ mpc # "launch" => \A e \in Ends : wpc[e] \notin {"off", "starting"}
  /\ mpc \in {"wait", "returned"} => wst = "done"
  /\ mpc = "returned" => wg = {}

LEMMA TrackedStep == TypeOK /\ Tracked /\ [Next]_vars => Tracked'
<1> SUFFICES ASSUME TypeOK, Tracked, [Next]_vars PROVE Tracked'
  OBVIOUS
<1> USE DEF Tracked, TypeOK, EndTypeOK, Driving, TearingDown, WorkerPcs,
      vars, endVars, runVars, watchVars, afterVars, trackVars, heapVars,
      countVars
<1>1. CASE Cancel
  BY <1>1 DEF Cancel
<1>2. CASE StartWatcher
  BY <1>2 DEF StartWatcher
<1>3. CASE DriveChecks
  BY <1>3 DEF DriveChecks
<1>4. CASE AdvanceFindsEmpty
  BY <1>4 DEF AdvanceFindsEmpty
<1>5. CASE CallbackSchedules
  BY <1>5 DEF CallbackSchedules
<1>6. CASE CallbackEnds
  BY <1>6 DEF CallbackEnds
<1>7. CASE CallbackSends
  BY <1>7 DEF CallbackSends
<1>8. CASE DeliverWaits
  BY <1>8 DEF DeliverWaits, DeliverBlocks
<1>9. CASE DeliverAbandons
  BY <1>9 DEF DeliverAbandons, DeliverGivesUp
<1>10. CASE DeliverHands
  BY <1>10 DEF DeliverHands, Hand, BroadcastThenWait, DeliverGivesUp
<1>11. CASE RendezvousWaits
  BY <1>11 DEF RendezvousWaits
<1>12. CASE RendezvousEnds
  BY <1>12 DEF RendezvousEnds, RendezvousOver
<1>13. CASE MainSignals
  BY <1>13 DEF MainSignals
<1>14. CASE MainJoinsWatcher
  BY <1>14 DEF MainJoinsWatcher
<1>15. CASE MainReturns
  BY <1>15 DEF MainReturns
<1>16. ASSUME NEW e \in Ends, TrackAcquires(e) PROVE Tracked'
  BY <1>16 DEF TrackAcquires, IsFirst, Unlaunched
<1>17. ASSUME NEW e \in Ends, TrackStarts(e) PROVE Tracked'
  BY <1>17 DEF TrackStarts
<1>18. ASSUME NEW e \in Ends, AdvancePopsTimer(e) PROVE Tracked'
  BY <1>18 DEF AdvancePopsTimer
<1>19. ASSUME NEW e \in Ends, AdvancePopsArrival(e) PROVE Tracked'
  BY <1>19 DEF AdvancePopsArrival
<1>20. ASSUME NEW e \in Ends, MainCloses(e) PROVE Tracked'
  BY <1>20 DEF MainCloses, IsFirst, Close, Broadcast
<1>21. CASE WatcherSeesCancel
  BY <1>21 DEF WatcherSeesCancel
<1>22. CASE WatcherEnds
  BY <1>22 DEF WatcherEnds
<1>23. ASSUME NEW e \in Ends, WatcherCloses(e) PROVE Tracked'
  BY <1>23 DEF WatcherCloses, IsFirst, Close, Broadcast
<1>24. ASSUME NEW e \in Ends, WorkerCallsRecv(e) PROVE Tracked'
  BY <1>24 DEF WorkerCallsRecv
<1>25. ASSUME NEW e \in Ends, WorkerTakes(e) PROVE Tracked'
  BY <1>25 DEF WorkerTakes, WorkerAwake, RecvTakes
<1>26. ASSUME NEW e \in Ends, WorkerFails(e) PROVE Tracked'
  BY <1>26 DEF WorkerFails, WorkerAwake, RecvErrClosed, RecvCtxErr, Broadcast
<1>27. ASSUME NEW e \in Ends, WorkerParks(e) PROVE Tracked'
  BY <1>27 DEF WorkerParks, WorkerAwake, RecvParks, BroadcastThenWait
<1>28. ASSUME NEW e \in Ends, RecvReturns(e) PROVE Tracked'
  BY <1>28 DEF RecvReturns
<1>29. ASSUME NEW e \in Ends, ReactionSchedules(e) PROVE Tracked'
  BY <1>29 DEF ReactionSchedules
<1>30. ASSUME NEW e \in Ends, ReactionEnds(e) PROVE Tracked'
  BY <1>30 DEF ReactionEnds
<1>31. ASSUME NEW e \in Ends, WorkerUncounts(e) PROVE Tracked'
  BY <1>31 DEF WorkerUncounts
<1>32. ASSUME NEW e \in Ends, WorkerReleases(e) PROVE Tracked'
  BY <1>32 DEF WorkerReleases
<1>33. ASSUME NEW e \in Ends, WorkerDone(e) PROVE Tracked'
  BY <1>33 DEF WorkerDone
<1>34. ASSUME NEW e \in Ends, AfterFuncStarts(e) PROVE Tracked'
  BY <1>34 DEF AfterFuncStarts
<1>35. ASSUME NEW e \in Ends, AfterFuncRuns(e) PROVE Tracked'
  BY <1>35 DEF AfterFuncRuns, AfterFuncWakes, Broadcast
<1>36. CASE Finished \/ UNCHANGED vars
  BY <1>36 DEF Finished
<1>. QED
  BY <1>1, <1>2, <1>3, <1>4, <1>5, <1>6, <1>7, <1>8, <1>9, <1>10, <1>11, <1>12, <1>13, <1>14, <1>15, <1>16, <1>17, <1>18, <1>19, <1>20, <1>21, <1>22, <1>23, <1>24, <1>25, <1>26, <1>27, <1>28, <1>29, <1>30, <1>31, <1>32, <1>33, <1>34, <1>35, <1>36
  DEF Next, Main, Watcher, Worker, AfterFunc

(* Run returns with every goroutine it tracks ended and uncounted.         *)
THEOREM NothingIsLeftRunning == Spec => []NothingLeftRunning
<1>1. Init => Tracked
  BY DEF Init, Tracked
<1>2. TypeOK /\ Tracked => NothingLeftRunning
  BY DEF TypeOK, Tracked, NothingLeftRunning
<1>. QED
  BY <1>1, <1>2, TrackedStep, TypeCorrect, PTL DEF Spec

-----------------------------------------------------------------------------
(* An offline run implements the serial loop, for every schedule of its    *)
(* goroutines and every cancellation.                                      *)

(* A frame is handed only to a worker parked in Recv, which leaves Recv    *)
(* with it: no worker ends with a frame in its slot.                       *)
HeldByRecv == \A e \in Ends : parked[e] \/ pending[e] => wpc[e] = "recv"

LEMMA HeldStep == TypeOK /\ HeldByRecv /\ [Next]_vars => HeldByRecv'
<1> SUFFICES ASSUME TypeOK, HeldByRecv, [Next]_vars PROVE HeldByRecv'
  OBVIOUS
<1> USE DEF HeldByRecv, TypeOK, EndTypeOK
<1>1. CASE UNCHANGED <<parked, pending, wpc>>
  BY <1>1
<1>2. CASE Cancel \/ WatcherSeesCancel \/ WatcherEnds
  BY <1>1, <1>2 DEF Cancel, WatcherSeesCancel, WatcherEnds, endVars
<1>3. CASE StartWatcher \/ DriveChecks \/ AdvanceFindsEmpty \/ MainSignals
             \/ MainJoinsWatcher \/ MainReturns
  BY <1>1, <1>3 DEF StartWatcher, DriveChecks, AdvanceFindsEmpty, MainSignals,
     MainJoinsWatcher, MainReturns, endVars
<1>4. CASE CallbackSchedules \/ CallbackEnds \/ CallbackSends \/ DeliverAbandons
  BY <1>1, <1>4 DEF CallbackSchedules, CallbackEnds, CallbackSends, DeliverAbandons, endVars
<1>5. CASE DeliverWaits \/ RendezvousWaits \/ RendezvousEnds
  BY <1>1, <1>5 DEF DeliverWaits, DeliverBlocks, RendezvousWaits, RendezvousEnds, endVars
<1>6. CASE DeliverHands
  BY <1>6 DEF DeliverHands, Hand
<1>7. ASSUME NEW e \in Ends,
             AdvancePopsTimer(e) \/ AdvancePopsArrival(e) \/ MainCloses(e) \/ WatcherCloses(e)
               \/ AfterFunc(e) \/ ReactionSchedules(e)
      PROVE  HeldByRecv'
  BY <1>1, <1>7 DEF AdvancePopsTimer, AdvancePopsArrival, MainCloses, WatcherCloses, Close,
     AfterFunc, AfterFuncStarts, AfterFuncRuns, AfterFuncWakes, ReactionSchedules, endVars
<1>8. ASSUME NEW e \in Ends,
             TrackAcquires(e) \/ TrackStarts(e) \/ WorkerCallsRecv(e) \/ RecvReturns(e)
               \/ ReactionEnds(e) \/ WorkerUncounts(e) \/ WorkerReleases(e) \/ WorkerDone(e)
      PROVE  HeldByRecv'
  <2>1. UNCHANGED <<parked, pending>> /\ wpc[e] # "recv"
    BY <1>8 DEF TrackAcquires, IsFirst, Unlaunched, TrackStarts, WorkerCallsRecv,
       RecvReturns, ReactionEnds, WorkerUncounts, WorkerReleases, WorkerDone, endVars
  <2>2. \A f \in Ends \ {e} : wpc'[f] = wpc[f]
    BY <1>8 DEF TrackAcquires, TrackStarts, WorkerCallsRecv,
       RecvReturns, ReactionEnds, WorkerUncounts, WorkerReleases, WorkerDone
  <2>. QED
    BY <2>1, <2>2
<1>9. ASSUME NEW e \in Ends, WorkerTakes(e) PROVE HeldByRecv'
  BY <1>9 DEF WorkerTakes, RecvTakes
<1>10. ASSUME NEW e \in Ends, WorkerFails(e) PROVE HeldByRecv'
  BY <1>10 DEF WorkerFails, RecvErrClosed, RecvCtxErr
<1>11. ASSUME NEW e \in Ends, WorkerParks(e) PROVE HeldByRecv'
  BY <1>11 DEF WorkerParks, WorkerAwake, RecvParks
<1>12. CASE Finished \/ UNCHANGED vars
  BY <1>1, <1>12 DEF Finished, vars, endVars
<1>. QED
  BY <1>2, <1>3, <1>4, <1>5, <1>6, <1>7, <1>8, <1>9, <1>10, <1>11, <1>12
  DEF Next, Main, Watcher, Worker

-----------------------------------------------------------------------------
(* The refinement mapping.                                                 *)

LEMMA BusyAlone ==
  ASSUME UNCHANGED <<pending, wpc>>
  PROVE  LoopBusy' = LoopBusy
BY DEF LoopBusy

(* What a worker does between its frames does not show. *)
LEMMA IdleWorker ==
  ASSUME TypeOK, NEW e \in Ends, NEW to, pending' = pending,
         wpc' = [wpc EXCEPT ![e] = to],
         wpc[e] \in {"took", "react"} <=> to \in {"took", "react"}
  PROVE  LoopBusy' = LoopBusy
<1>1. \A f \in Ends : wpc'[f] \in {"took", "react"} <=> wpc[f] \in {"took", "react"}
  BY DEF TypeOK
<1>. QED
  BY <1>1 DEF LoopBusy

LEMMA QuietLoop ==
  ASSUME BusyOnlyInRendezvous, mpc \in {"advance", "fire", "deliver"}
  PROVE  Loop!Quiet
<1>1. \A e \in Ends : ~pending[e] /\ wpc[e] \notin {"took", "react"}
  BY DEF BusyOnlyInRendezvous, Busy, TearingDown
<1>. QED
  BY <1>1 DEF Loop!Quiet, Loop!Parties, LoopBusy, Ends

LEMMA LoopStarts == Init => Loop!Init
<1> SUFFICES ASSUME Init PROVE Loop!Init
  OBVIOUS
<1>1. cur \in Ends
  BY EndsFacts DEF Init
<1>2. LoopDoing = "idle"
  BY DEF Init, LoopDoing
<1>3. LoopBusy = [e \in Ends |-> "no"]
  BY DEF Init, EndInit, LoopBusy
<1>. QED
  BY <1>1, <1>2, <1>3 DEF Init, Loop!Init, Loop!Parties, Ends, Zero

(* A step that shows neither in what the loop does nor in what it has. *)
LEMMA Stutter ==
  ASSUME UNCHANGED <<ctx, heapVars, cur, result>>, LoopDoing' = LoopDoing, LoopBusy' = LoopBusy
  PROVE  UNCHANGED Loop!vars
BY DEF heapVars, Loop!vars

(* The driver's steps. *)
LEMMA MainStep ==
  ASSUME TypeOK, OnlyCancellationCloses, BusyOnlyInRendezvous, HeldByRecv, Tracked, Main
  PROVE  [Loop!Next]_(Loop!vars)
<1>. USE DEF LoopDoing
<1>1. ASSUME NEW e \in Ends, TrackAcquires(e) \/ TrackStarts(e) PROVE UNCHANGED Loop!vars
  <2>1. LoopBusy' = LoopBusy
    <3>1. CASE TrackAcquires(e)
      BY <3>1, IdleWorker DEF TrackAcquires, IsFirst, Unlaunched, endVars
    <3>2. CASE TrackStarts(e)
      BY <3>2, IdleWorker DEF TrackStarts, endVars
    <3>. QED
      BY <1>1, <3>1, <3>2
  <2>. QED
    BY <1>1, <2>1, Stutter DEF TrackAcquires, TrackStarts, runVars
<1>2. ASSUME NEW e \in Ends, AdvancePopsTimer(e) PROVE Loop!TakeTimer(e)
  BY <1>2, QuietLoop, BusyAlone DEF AdvancePopsTimer, Loop!TakeTimer, endVars
<1>3. ASSUME NEW e \in Ends, AdvancePopsArrival(e) PROVE Loop!TakeDelivery(e)
  BY <1>3, QuietLoop, BusyAlone DEF AdvancePopsArrival, Loop!TakeDelivery, endVars
<1>4. ASSUME NEW e \in Ends, MainCloses(e) PROVE UNCHANGED Loop!vars
  BY <1>4, BusyAlone, Stutter DEF MainCloses, Close
<1>5. CASE StartWatcher \/ MainSignals \/ MainJoinsWatcher
  BY <1>5, BusyAlone, Stutter DEF StartWatcher, MainSignals, MainJoinsWatcher, endVars
<1>6. CASE DriveChecks
  <2>1. LoopBusy' = LoopBusy
    BY <1>6, BusyAlone DEF DriveChecks, endVars
  <2>2. CASE ctx
    BY <1>6, <2>1, <2>2 DEF DriveChecks, Loop!Stops, heapVars, Loop!Next
  <2>3. CASE ~ctx
    BY <1>6, <2>1, <2>3, Stutter DEF DriveChecks
  <2>. QED
    BY <2>2, <2>3
<1>7. CASE AdvanceFindsEmpty
  <2>1. LoopBusy' = LoopBusy /\ Loop!Quiet
    BY <1>7, BusyAlone, QuietLoop DEF AdvanceFindsEmpty, endVars
  <2>2. Loop!NothingLeft
    BY <1>7 DEF AdvanceFindsEmpty, HeapEmpty, Zero, Loop!NothingLeft, Loop!Parties, Ends
  <2>. QED
    BY <1>7, <2>1, <2>2 DEF AdvanceFindsEmpty, Loop!Stops, heapVars, Loop!Next
<1>8. CASE CallbackSchedules
  <2>1. LoopBusy' = LoopBusy
    BY <1>8, BusyAlone DEF CallbackSchedules, endVars
  <2>2. Loop!Schedules(cur)
    BY <1>8, <2>1 DEF CallbackSchedules, runVars, Loop!Schedules
  <2>. QED
    BY <2>2 DEF TypeOK, Ends, Loop!Next, Loop!Parties
<1>9. CASE CallbackEnds
  BY <1>9, BusyAlone DEF CallbackEnds, endVars, heapVars, Loop!FireEnds, Loop!Next
<1>10. CASE CallbackSends
  <2>1. Peer(cur) = Loop!Other(cur)
    BY DEF TypeOK, Ends, Peer, CallerEnd, AgentEnd, Loop!Other
  <2>. QED
    BY <1>10, <2>1, BusyAlone DEF CallbackSends, endVars, Loop!FireEnds, Loop!Next
<1>11. CASE DeliverWaits
  BY <1>11, BusyAlone, Stutter DEF DeliverWaits, DeliverBlocks, runVars
<1>12. CASE DeliverAbandons
  <2>1. ctx
    BY <1>12 DEF DeliverAbandons, DeliverGivesUp, OnlyCancellationCloses, TearingDown, TypeOK
  <2>. QED
    BY <1>12, <2>1, BusyAlone
    DEF DeliverAbandons, endVars, heapVars, Loop!DeliveryEnds, Loop!Next
<1>13. CASE DeliverHands
  <2>1. UNCHANGED <<ctx, heapVars, cur, result, wpc>>
    BY <1>13 DEF DeliverHands
  <2>2. pending' = [pending EXCEPT ![cur] = TRUE]
    BY <1>13 DEF DeliverHands, Hand
  <2>3. LoopBusy' = [LoopBusy EXCEPT ![cur] = "handed"]
    BY <2>1, <2>2 DEF LoopBusy, TypeOK, EndTypeOK
  <2>. QED
    BY <1>13, <2>1, <2>3 DEF DeliverHands, heapVars, Loop!DeliveryEnds, Loop!Next
<1>14. CASE RendezvousWaits \/ RendezvousEnds
  BY <1>14, BusyAlone, Stutter DEF RendezvousWaits, RendezvousEnds, runVars, endVars
<1>15. CASE MainReturns
  <2>1. \A e \in Ends : ~pending[e] /\ wpc[e] \notin {"took", "react"}
    BY <1>15 DEF MainReturns, Tracked, HeldByRecv
  <2>2. Loop!Quiet
    BY <2>1 DEF Loop!Quiet, Loop!Parties, LoopBusy, Ends
  <2>. QED
    BY <1>15, <2>2, BusyAlone DEF MainReturns, endVars, heapVars, Loop!Returns, Loop!Next
<1>16. ASSUME NEW e \in Ends
       PROVE  Loop!TakeTimer(e) \/ Loop!TakeDelivery(e) => Loop!Next
  BY DEF Loop!Next, Loop!Parties, Ends
<1>. QED
  BY <1>1, <1>2, <1>3, <1>4, <1>5, <1>6, <1>7, <1>8, <1>9, <1>10, <1>11, <1>12, <1>13,
     <1>14, <1>15, <1>16 DEF Main

(* The workers' steps. *)
LEMMA WorkerStep ==
  ASSUME TypeOK, HeldByRecv, NEW e \in Ends, Worker(e)
  PROVE  [Loop!Next]_(Loop!vars)
<1>. USE DEF LoopDoing, Ends, Loop!Parties
<1>1. CASE WorkerTakes(e)
  <2>1. UNCHANGED <<ctx, runVars, heapVars>>
    BY <1>1 DEF WorkerTakes
  <2>2. /\ pending[e] /\ pending' = [pending EXCEPT ![e] = FALSE]
        /\ wpc' = [wpc EXCEPT ![e] = "took"]
    BY <1>1 DEF WorkerTakes, RecvTakes
  <2>3. LoopBusy[e] = "handed" /\ LoopBusy' = [LoopBusy EXCEPT ![e] = "reacting"]
    BY <2>2 DEF LoopBusy, TypeOK, EndTypeOK
  <2>. QED
    BY <2>1, <2>3 DEF runVars, heapVars, Loop!Receives, Loop!Next
<1>2. CASE ReactionSchedules(e)
  <2>1. LoopBusy' = LoopBusy /\ LoopBusy[e] = "reacting"
    BY <1>2, BusyAlone DEF ReactionSchedules, endVars, HeldByRecv, LoopBusy
  <2>. QED
    BY <1>2, <2>1 DEF ReactionSchedules, runVars, Loop!Schedules, Loop!Next
<1>3. CASE ReactionEnds(e)
  <2>1. UNCHANGED <<ctx, runVars, heapVars>>
    BY <1>3 DEF ReactionEnds
  <2>2. /\ wpc[e] = "react" /\ ~pending[e] /\ pending' = pending
        /\ wpc' = [wpc EXCEPT ![e] = "call"]
    BY <1>3 DEF ReactionEnds, HeldByRecv, endVars
  <2>3. LoopBusy[e] = "reacting" /\ LoopBusy' = [LoopBusy EXCEPT ![e] = "no"]
    BY <2>2 DEF LoopBusy, TypeOK
  <2>. QED
    BY <2>1, <2>3 DEF runVars, heapVars, Loop!ReactionEnds, Loop!Next
<1>4. CASE WorkerParks(e)
  BY <1>4, BusyAlone, Stutter DEF WorkerParks, RecvParks, runVars
<1>5. CASE WorkerFails(e)
  <2>1. pending' = pending
    BY <1>5 DEF WorkerFails, RecvErrClosed, RecvCtxErr
  <2>2. LoopBusy' = LoopBusy
    BY <1>5, <2>1, IdleWorker DEF WorkerFails, WorkerAwake
  <2>. QED
    BY <1>5, <2>2, Stutter DEF WorkerFails, runVars
<1>6. CASE WorkerCallsRecv(e) \/ RecvReturns(e) \/ WorkerUncounts(e) \/ WorkerReleases(e)
             \/ WorkerDone(e)
  <2>1. UNCHANGED <<ctx, runVars, heapVars, pending>>
    BY <1>6 DEF WorkerCallsRecv, RecvReturns, WorkerUncounts, WorkerReleases, WorkerDone, endVars
  <2>2. PICK to : /\ wpc' = [wpc EXCEPT ![e] = to]
                  /\ wpc[e] \in {"took", "react"} <=> to \in {"took", "react"}
    BY <1>6 DEF WorkerCallsRecv, RecvReturns, WorkerUncounts, WorkerReleases, WorkerDone
  <2>3. LoopBusy' = LoopBusy
    BY <2>1, <2>2, IdleWorker
  <2>. QED
    BY <2>1, <2>3, Stutter DEF runVars
<1>. QED
  BY <1>1, <1>2, <1>3, <1>4, <1>5, <1>6 DEF Worker

LEMMA LoopStep ==
  TypeOK /\ OnlyCancellationCloses /\ BusyOnlyInRendezvous /\ HeldByRecv /\ Tracked
  /\ [Next]_vars => [Loop!Next]_(Loop!vars)
<1> SUFFICES ASSUME TypeOK, OnlyCancellationCloses, BusyOnlyInRendezvous, HeldByRecv,
                    Tracked, [Next]_vars
             PROVE  [Loop!Next]_(Loop!vars)
  OBVIOUS
<1>1. CASE Cancel
  <2>1. LoopBusy' = LoopBusy /\ LoopDoing' = LoopDoing /\ LoopDoing # "returned"
    BY <1>1, BusyAlone DEF Cancel, endVars, runVars, LoopDoing, TypeOK, Driving, TearingDown
  <2>. QED
    BY <1>1, <2>1 DEF Cancel, runVars, heapVars, Loop!Cancel, Loop!Next
<1>2. CASE Watcher
  BY <1>2, BusyAlone, Stutter
  DEF Watcher, WatcherSeesCancel, WatcherCloses, Close, WatcherEnds, endVars, runVars, LoopDoing
<1>3. ASSUME NEW e \in Ends, AfterFunc(e) PROVE UNCHANGED Loop!vars
  BY <1>3, BusyAlone, Stutter
  DEF AfterFunc, AfterFuncStarts, AfterFuncRuns, AfterFuncWakes, endVars, runVars, LoopDoing
<1>4. CASE Finished \/ UNCHANGED vars
  BY <1>4, BusyAlone, Stutter DEF Finished, vars, endVars, runVars, LoopDoing
<1>. QED
  BY <1>1, <1>2, <1>3, <1>4, MainStep, WorkerStep DEF Next

-----------------------------------------------------------------------------
(* However Go schedules its goroutines and whenever it is cancelled, an    *)
(* offline run of any number of sessions is a run of the serial loop: one  *)
(* callback at a time, each reaction over before the next (engine.go:15,   *)
(* loopback.go:32).                                                        *)
THEOREM RunIsSerial == Spec => SerialRun
<1>1. Init => HeldByRecv /\ Tracked
  BY DEF Init, EndInit, HeldByRecv, Tracked
<1>2. Spec => [](TypeOK /\ HeldByRecv /\ Tracked)
  BY <1>1, HeldStep, TrackedStep, TypeCorrect, PTL DEF Spec
<1>3. SerialInv => OnlyCancellationCloses /\ BusyOnlyInRendezvous
  BY DEF SerialInv
<1>. QED
  BY <1>2, <1>3, LoopStarts, LoopStep, SerialInvariant, PTL DEF Spec, SerialRun, Loop!Spec
=============================================================================
