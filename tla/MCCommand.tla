----------------------------- MODULE MCCommand -----------------------------
(***************************************************************************)
(* Messages and measured runs for TLC.                                     *)
(***************************************************************************)
EXTENDS Command

(* A turn in one message, one in two, its end alone, and the next one's    *)
(* audio on its own.                                                       *)
GeminiSays == [parts : {0, 2}, complete : BOOLEAN]
OpenAISays == [type : {"response.created", "response.audio.delta", "response.done", "other"}]

Session(timesToStop, doubleTalk_, stall, dropped) ==
  [TimeToStopMs |-> timesToStop, DoubleTalkMs |-> doubleTalk_,
   StallCount |-> IF stall > 0 THEN 1 ELSE 0, StallMs |-> stall,
   DroppedFrames |-> dropped, ReorderedFrames |-> dropped]

(* Percentiles of no, one, two and three values; limits met, met exactly   *)
(* and missed, each alone and two together.  29 over 25 is 16 % exactly,   *)
(* and the float limit is below it; 11 over 10 is 10 %, and within.        *)
Quiet_ == Session(<< >>, 0, 0, 0)
MeasuredRuns ==
  {<<Quiet_>>,
   <<Session(<<10>>, 10, 0, 0)>>,
   <<Session(<<11>>, 4, 0, 0), Session(<<9>>, 7, 0, 0)>>,
   <<Session(<<9, 12>>, 10, 0, 1), Quiet_>>,
   <<Session(<<2, 25, 5>>, 3, 4, 0), Session(<<1>>, 3, 0, 1)>>,
   <<Session(<<29>>, 4, 3, 0), Session(<< >>, 2, 0, 2)>>}
(* 16 and 12.5 %, and 10 % less than the baseline. *)
LenientBudget == Budget(32, 25, 4, 1)
StricterBudget == Budget(-20, -20, 0, 0)
OtherBudgets == {LenientBudget, StricterBudget}

(* Floats of 13 bits down to 2^-19.  The binary expansions of hundredths   *)
(* have period 20, so that 13 bits round them as 53 do.                    *)
PowersOfTwo == {2 ^ k : k \in 0 .. 24}
OneFloat == 2 ^ 19
=============================================================================
