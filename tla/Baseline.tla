------------------------------ MODULE Baseline ------------------------------
(***************************************************************************)
(* The regression gate (internal/baseline): whether a run's aggregate is   *)
(* within a budget of a baseline's.  A percentage limit is a float64, and  *)
(* each of the operations that compute it is rounded.  A float is counted  *)
(* here in the least one above zero, so that it is an integer: in as much  *)
(* as Sig bits hold, times a unit in the last place that is a power of     *)
(* two.  The metrics compared are integers below Sig, which are floats.    *)
(***************************************************************************)
EXTENDS Integers, FiniteSetsExt

CONSTANTS
  Ulps,      \* the units in the last place: 2^0 to 2^2045 for a float64
  Sig,       \* the significands are below it: 2^53
  One,       \* the float 1: 2^1074
  Percent    \* a budget's 1 %: its percentages count fractions of a per cent

ASSUME FloatAssumption ==
  /\ Ulps \subseteq Nat \ {0} /\ {1, One} \subseteq Ulps
  /\ \A q, r \in Ulps : q < r => r = (r \div (2 * q)) * (2 * q)
  /\ Sig \in 4 .. One /\ Sig % 2 = 0
  /\ Percent \in Nat \ {0}

(* The unit in the last place of the float nearest to a / b: the largest   *)
(* in which a / b is at least half of Sig.                                 *)
Ulp(a, b) == Max({q \in Ulps : q = 1 \/ q <= (2 * a) \div (b * Sig)})

(* The float nearest to a / b, of two the even one (IEEE 754). *)
Nearest(a, b) ==
  LET unit == Ulp(a, b) * b
      below == a \div unit
      rest == a - below * unit
      up == 2 * rest > unit \/ (2 * rest = unit /\ below % 2 = 1)
  IN Ulp(a, b) * (IF up THEN below + 1 ELSE below)
Round(a, b) == IF a < 0 THEN -Nearest(-a, b) ELSE Nearest(a, b)

Budget(timeToStopPct, doubleTalkPct, stall, dropped) ==
  [MaxTimeToStopRegressionPct |-> timeToStopPct, MaxDoubleTalkRegressionPct |-> doubleTalkPct,
   MaxStallRegression |-> stall, MaxDroppedRegression |-> dropped]
DefaultBudget == Budget(10 * Percent, 10 * Percent, 0, 0)
(* compare without --budget: no metric may worsen. *)
ZeroBudget == Budget(0, 0, 0, 0)

(* base * (1 + pct/100), and the comparison of add. *)
Limit(base, pct) == Round(base * Round(One + Round(pct * One, 100 * Percent), 1), 1)
WithinPct(current, base, pct) == current * One <= Limit(base, pct)
WithinAbs(current, base, more) == current <= base + more

(* The constraints, in the order they are reported in. *)
Checks(base, current, budget) ==
  <<WithinPct(current.TimeToStop.P95, base.TimeToStop.P95, budget.MaxTimeToStopRegressionPct),
    WithinPct(current.DoubleTalkMs.Sum, base.DoubleTalkMs.Sum, budget.MaxDoubleTalkRegressionPct),
    WithinAbs(current.StallMs, base.StallMs, budget.MaxStallRegression),
    WithinAbs(current.DroppedFrames, base.DroppedFrames, budget.MaxDroppedRegression)>>
CheckOK(base, current, budget) ==
  LET checks == Checks(base, current, budget) IN \A k \in DOMAIN checks : checks[k]
=============================================================================
