------------------------------ MODULE Command ------------------------------
(***************************************************************************)
(* The command line (cmd/voicechaos/main.go) over a run: what ends a run   *)
(* (the script, max_duration_ms, --timeout, Ctrl-C, a failed dial), what   *)
(* is written, and the exit code.  A live run is LiveRun's.  An offline    *)
(* one is a single step here: Engine has its steps, and that one without   *)
(* an error is complete (CompleteRun).                                     *)
(***************************************************************************)
EXTENDS LiveRun, Metrics, Baseline

CONSTANTS
  Runs,     \* the metrics a run may measure: a sequence of its sessions'
  Budgets   \* what --budget may hold

ASSUME CommandAssumption ==
  /\ Runs # {} /\ Runs \subseteq Seq(SessionMetrics) \ {<< >>}
  /\ Budgets \subseteq [MaxTimeToStopRegressionPct : Int, MaxDoubleTalkRegressionPct : Int,
                        MaxStallRegression : Int, MaxDroppedRegression : Int]

VARIABLES
  cmd,        \* the subcommand, with the kind of run for run
  timeout,    \* --timeout is given
  writable,   \* what the command writes can be written
  sigint,     \* main's context is cancelled
  whole,      \* the run was over before it was stopped
  report, saved, judged,   \* the report, baseline and verdict: << >> or one
  exited, exit

commandVars == <<cmd, timeout, writable, sigint, whole, report, saved, judged, exited, exit>>
vars == <<liveVars, commandVars>>

RunsLive == cmd = "run live"
RunsOffline == cmd \in {"run offline", "baseline save", "check"}

Init ==
  /\ LiveInit
  /\ cmd \in {"run live", "run offline", "baseline save", "check", "compare"}
  /\ timeout \in BOOLEAN /\ (timeout => cmd \in {"run live", "run offline"})
  /\ ~RunsLive => codec = "openai-realtime" /\ ~bounded   \* of no account
  /\ writable \in BOOLEAN
  /\ sigint = FALSE /\ whole = FALSE
  /\ report = << >> /\ saved = << >> /\ judged = << >>
  /\ exited = FALSE /\ exit = 0

-----------------------------------------------------------------------------
(* Signals and the timeout.                                                *)

Interrupt ==
  /\ ~sigint /\ ~exited
  /\ sigint' = TRUE
  /\ IF ctxErr = "none" THEN CtxEnds("Canceled") ELSE UNCHANGED liveVars
  /\ UNCHANGED <<cmd, timeout, writable, whole, report, saved, judged, exited, exit>>

TimeoutPasses ==
  /\ timeout /\ ~exited /\ (RunsLive => pc # "off")
  /\ CtxEnds("DeadlineExceeded")
  /\ UNCHANGED commandVars

-----------------------------------------------------------------------------
(* The run.                                                                *)

Exits(code) == ~exited /\ exited' = TRUE /\ exit' = code

Starting == pc = "off" /\ ~exited

BadUsage ==
  /\ Starting /\ Exits(2)
  /\ UNCHANGED <<liveVars, cmd, timeout, writable, sigint, whole, report, saved, judged>>

(* The scenario, a report, a baseline or a budget cannot be read. *)
LoadFails ==
  /\ Starting /\ Exits(IF cmd = "compare" THEN 2 ELSE 1)
  /\ UNCHANGED <<liveVars, cmd, timeout, writable, sigint, whole, report, saved, judged>>

(* --timeout takes the place of max_duration_ms. *)
StartsLive ==
  /\ Starting /\ RunsLive
  /\ bounded' = (bounded /\ ~timeout)
  /\ runErr' = ctxErr
  /\ Goto("dial", 1)
  /\ UNCHANGED <<ctxErr, codec, pumpVars, conn, err, commandVars>>

(* What Runner.Run returns: the context's error, whether or not the script *)
(* was over by then; without one, it was.                                  *)
OfflineReturns ==
  /\ Starting /\ RunsOffline
  /\ Goto("returned", 1)
  /\ err' = ctxErr
  /\ whole' \in BOOLEAN /\ (ctxErr = "none" => whole')
  /\ UNCHANGED <<ctxVars, pumpVars, conn, cmd, timeout, writable, sigint,
                 report, saved, judged, exited, exit>>

-----------------------------------------------------------------------------
(* What follows the run.                                                   *)

Returned == pc = "returned" /\ ~exited

(* cmdRun.  The deadline was --timeout's unless main's context has ended   *)
(* by now as well.                                                         *)
TimedOut == timeout /\ err = "DeadlineExceeded" /\ ~sigint

(* A live run ends by itself only at its max_duration_ms. *)
Whole == IF RunsLive THEN bounded /\ runErr = "DeadlineExceeded" ELSE whole

RunExits ==
  /\ Returned /\ cmd \in {"run live", "run offline"}
  /\ IF (err \notin {"none", "Canceled"} /\ ~TimedOut) \/ ~writable
     THEN Exits(1) /\ UNCHANGED report
     ELSE /\ report' = <<[Truncated |-> TimedOut, whole |-> Whole]>>
          /\ Exits(IF TimedOut THEN 3 ELSE 0)
  /\ UNCHANGED <<liveVars, cmd, timeout, writable, sigint, whole, saved, judged>>

(* cmdBaseline. *)
(* Mutant: as in cmdRun, being cancelled is no failure. *)
SaveFailsUnlessCanceled == err \notin {"none", "Canceled"} \/ ~writable
SaveFails == err # "none" \/ ~writable

SaveExits ==
  /\ Returned /\ cmd = "baseline save"
  /\ IF SaveFails
     THEN Exits(1) /\ UNCHANGED saved
     ELSE Exits(0) /\ saved' = <<[whole |-> whole]>>
  /\ UNCHANGED <<liveVars, cmd, timeout, writable, sigint, whole, report, judged>>

(* Check over the aggregates of what was recorded and what is measured.    *)
Judges(recorded, measured, budget) ==
  LET ok == CheckOK(ComputeAggregate(recorded), ComputeAggregate(measured), budget) IN
  /\ judged' = <<[recorded |-> recorded, measured |-> measured, budget |-> budget, ok |-> ok]>>
  /\ Exits(IF ok /\ writable THEN 0 ELSE 1)

(* cmdCheck. *)
CheckExits ==
  /\ Returned /\ cmd = "check"
  /\ IF err # "none"
     THEN Exits(1) /\ UNCHANGED judged
     ELSE \E recorded, measured \in Runs, budget \in {DefaultBudget} \cup Budgets :
            Judges(recorded, measured, budget)
  /\ UNCHANGED <<liveVars, cmd, timeout, writable, sigint, whole, report, saved>>

(* cmdCompare: of two reports, whether or not they are truncated. *)
CompareExits ==
  /\ Starting /\ cmd = "compare"
  /\ \E recorded, measured \in Runs, budget \in {ZeroBudget} \cup Budgets :
       Judges(recorded, measured, budget)
  /\ UNCHANGED <<liveVars, cmd, timeout, writable, sigint, whole, report, saved>>

Done == exited /\ UNCHANGED vars

Next ==
  \/ Interrupt \/ TimeoutPasses
  \/ BadUsage \/ LoadFails \/ StartsLive \/ OfflineReturns
  \/ LiveNext /\ UNCHANGED commandVars
  \/ RunExits \/ SaveExits \/ CheckExits \/ CompareExits
  \/ Done

Spec == Init /\ [][Next]_vars

(* Time passes, goroutines are scheduled, TCP connects or gives up, and an *)
(* endpoint hangs up on a closed connection.  A handshake and a Close wait *)
(* for the endpoint, and only a deadline ends that for certain: there is   *)
(* one when max_duration_ms or --timeout bounds the run.                   *)
HasDeadline == bounded \/ timeout
Fairness ==
  /\ WF_vars(TimeoutPasses)
  /\ WF_vars(BoundPasses /\ UNCHANGED commandVars)
  /\ WF_vars((DialConnects \/ Launch \/ ContextEnds \/ Returns) /\ UNCHANGED commandVars)
  /\ WF_vars(HasDeadline /\ (HandshakeEnds \/ CloseOne) /\ UNCHANGED commandVars)
  /\ \A s \in Sessions :
       WF_vars(pc \in {"close", "join"} /\ (PumpFails(s) \/ PumpLogs(s)) /\ UNCHANGED commandVars)
  /\ WF_vars(RunExits)
FairSpec == Spec /\ Fairness

-----------------------------------------------------------------------------
(* Properties.                                                             *)

TypeOK ==
  /\ LiveTypeOK
  /\ {timeout, writable, sigint, whole, exited} \subseteq BOOLEAN
  /\ exit \in 0 .. 3
  /\ {Len(report), Len(saved), Len(judged)} \subseteq {0, 1}

AllDialed == \A s \in Sessions : pump[s] # "off"

(* What a script around the command may conclude from its exit code        *)
(* (main.go:214): 3 says that the report written is marked truncated; 0    *)
(* from a run nobody interrupted says that the report is of a whole run;   *)
(* and a live run that comes past its dials ends with 0 at its             *)
(* max_duration_ms and with 3 at its --timeout.                            *)
ExitTellsTheEnd ==
  exited =>
    /\ exit = 3 <=> report # << >> /\ report[1].Truncated
    /\ report # << >> /\ exit = 0 /\ ~sigint => report[1].whole
    /\ RunsLive /\ AllDialed /\ ~sigint /\ writable => exit = IF timeout THEN 3 ELSE 0

(* A baseline is of a whole run: one that was cancelled on its way saves   *)
(* none (main.go:340).                                                     *)
BaselineIsComplete == saved # << >> => saved[1].whole

(* The gate, from the sessions instead of the aggregates: the p95 is the   *)
(* least time-to-stop that 95 in 100 do not exceed.                        *)
Pool(sessions) == FlattenSeq([k \in DOMAIN sessions |-> sessions[k].TimeToStopMs])
NotAbove(pool, v) == Cardinality({k \in DOMAIN pool : pool[k] <= v})
P95(sessions) ==
  LET pool == Pool(sessions) IN
  IF pool = << >> THEN 0
  ELSE Min({pool[k] : k \in {j \in DOMAIN pool :
              100 * NotAbove(pool, pool[j]) >= 95 * Len(pool)}})
SumOf(sessions, metric) ==
  LET of == [k \in DOMAIN sessions |-> sessions[k][metric]]
  IN MapThenSumSet(LAMBDA k : of[k], DOMAIN sessions)

(* What a percentage limit is for certain: of at least the baseline when   *)
(* it is no reduction, and up to the rounding of three operations the      *)
(* exact product.                                                          *)
Rounding(base, pct) == 4 * base * (100 * Percent + IF pct < 0 THEN -pct ELSE pct)
SurelyWithin(current, base, pct) ==
  \/ 0 <= pct /\ current <= base /\ base < Sig
  \/ Sig * 100 * Percent * current + Rounding(base, pct) <= Sig * (100 * Percent + pct) * base
PerhapsWithin(current, base, pct) ==
  Sig * 100 * Percent * current <= Sig * (100 * Percent + pct) * base + Rounding(base, pct)

(* The verdict asked for, from the sessions judged. *)
WithinBudget(j, WithinLimit(_, _, _)) ==
  /\ WithinLimit(P95(j.measured), P95(j.recorded), j.budget.MaxTimeToStopRegressionPct)
  /\ WithinLimit(SumOf(j.measured, "DoubleTalkMs"), SumOf(j.recorded, "DoubleTalkMs"),
                 j.budget.MaxDoubleTalkRegressionPct)
  /\ SumOf(j.measured, "StallMs") <= SumOf(j.recorded, "StallMs") + j.budget.MaxStallRegression
  /\ SumOf(j.measured, "DroppedFrames")
       <= SumOf(j.recorded, "DroppedFrames") + j.budget.MaxDroppedRegression

(* check and compare exit with 0 only for a run whose time-to-stop, double *)
(* talk, stalls and drops are all within the budget, and find no such run  *)
(* beyond it.  Of a percentage limit that is met to within 4 parts in Sig  *)
(* the rounding decides, though never against a run that is no worse than  *)
(* the baseline (main.go:441, :507).                                       *)
GateJudgesTheRuns ==
  judged # << >> =>
    /\ exit = 0 <=> judged[1].ok /\ writable
    /\ WithinBudget(judged[1], SurelyWithin) => judged[1].ok
    /\ judged[1].ok => WithinBudget(judged[1], PerhapsWithin)

(* Whatever the endpoint does or leaves undone, a live run that has a      *)
(* bound, in max_duration_ms or in --timeout, exits (main.go:191,          *)
(* live.go:76).                                                            *)
BoundedRunExits == RunsLive /\ pc # "off" /\ HasDeadline ~> exited

(* Reaching a bound of its own, max_duration_ms or --timeout, is a normal  *)
(* end of a live run: the report is written (README.md:121, live.go:76).   *)
BoundIsNoFailure ==
  exited /\ RunsLive /\ runErr = "DeadlineExceeded" /\ writable => report # << >>

(* The context bounds the dial and the handshake (ws.go:86, live.go:16):   *)
(* once it has ended, RunLive is soon done dialing.                        *)
DialHeedsContext == pc = "dial" /\ runErr # "none" ~> pc # "dial"
=============================================================================
