---------------------------- MODULE RiskSignals -----------------------------
(***************************************************************************)
(* The business risk signals (audit/risk_signals.py): red flags, the       *)
(* quality of the accounting and the allocation of capital, computed from  *)
(* the numbers of a payload, in which a field without a value is None.     *)
(*                                                                         *)
(* Each number stands for the first of its aliases that is present.  The   *)
(* capital expenditure is the average of its history, the share history    *)
(* its first and last count, and a ratio a pair that is never divided.     *)
(***************************************************************************)
EXTENDS Integers, FiniteSets, Sequences, FiniteSetsExt

CONSTANTS
  None,
  AlarmingUnknown  \* so many UNKNOWN checks raise a flag of their own (5 in the code)

Minus(x, y) == IF None \in {x, y} THEN None ELSE x - y
AdjustedFcf(p) == Minus(p.operating_cash_flow, p.capex)

\* safe_div: no value without both numbers or with a denominator of 0.
SafeDiv(n, d) == IF None \in {n, d} \/ d = 0 THEN None ELSE [n |-> n, d |-> d]

\* Comparisons of a ratio with a percentage.
Above(r, pct) == IF r.d > 0 THEN 100 * r.n > pct * r.d ELSE 100 * r.n < pct * r.d
Below(r, pct) == IF r.d > 0 THEN 100 * r.n < pct * r.d ELSE 100 * r.n > pct * r.d
FarFromZero(r, pct) == Above(r, pct) \/ Below(r, -pct)

ShareGrowth(p) ==
  IF p.shares = None \/ Len(p.shares) < 2 THEN None
  ELSE SafeDiv(p.shares[Len(p.shares)] - p.shares[1], p.shares[1])

-----------------------------------------------------------------------------
(* Red flags *)

\* Wrong variant: without its inputs a flag is not raised.
SignalGuessing(inputs, raised) == IF None \notin inputs /\ raised THEN "FAIL" ELSE "PASS"

\* _signal: a flag is UNKNOWN without its inputs.
Signal(inputs, raised) ==
  CASE None \in inputs              -> "UNKNOWN"
    [] None \notin inputs /\ raised  -> "FAIL"
    [] OTHER                        -> "PASS"

RedFlags(p) ==
  LET ocf == p.operating_cash_flow
      fcf == AdjustedFcf(p)
      ni  == p.net_income
      intangibles == SafeDiv(p.intangible_assets, p.total_assets)
      netDebt     == SafeDiv(Minus(p.total_debt, p.cash), p.equity)
  IN [NEGATIVE_OPERATING_CASH_FLOW   |-> Signal({ocf}, ocf < 0),
      NEGATIVE_FREE_CASH_FLOW        |-> Signal({fcf}, fcf < 0),
      EARNINGS_CASH_FLOW_DIVERGENCE  |-> Signal({ni, ocf, fcf}, ni > 0 /\ (ocf < 0 \/ fcf < 0)),
      DIVIDEND_NOT_COVERED_BY_FCF    |->
        Signal({p.dividends, fcf}, p.dividends > 0 /\ p.dividends > Max({fcf, 0})),
      HIGH_INTANGIBLES_TO_ASSETS     |-> Signal({intangibles}, Above(intangibles, 50)),
      ELEVATED_NET_DEBT_TO_EQUITY    |-> Signal({netDebt}, Above(netDebt, 150)),
      SHARE_DILUTION_ABOVE_10PCT     |-> Signal({ShareGrowth(p)}, Above(ShareGrowth(p), 10)),
      ENGINE_UNKNOWN_CHECKS_PRESENT  |->
        IF p.unknown_checks \in Nat /\ p.unknown_checks >= AlarmingUnknown THEN "FAIL" ELSE "PASS"]

-----------------------------------------------------------------------------
(* Metrics and their grades *)

\* _metric
Metric(ratio, fails, watched) ==
  CASE ratio = None                         -> "UNKNOWN"
    [] ratio # None /\ fails                -> "FAIL"
    [] ratio # None /\ ~fails /\ watched    -> "WATCH"
    [] OTHER                                -> "PASS"

HighIsBad(r, watch, fail) == Metric(r, Above(r, fail), Above(r, watch))

AccountingMetrics(p) ==
  LET accruals   == SafeDiv(Minus(p.net_income, p.operating_cash_flow), p.total_assets)
      conversion == SafeDiv(AdjustedFcf(p), p.net_income)
  IN [ACCRUALS_RATIO           |-> Metric(accruals, FarFromZero(accruals, 20), FarFromZero(accruals, 10)),
      FCF_CONVERSION           |-> Metric(conversion, Below(conversion, 60), Below(conversion, 80)),
      GROSS_MARGIN_VARIABILITY |-> HighIsBad(p.margin_spread, 10, 20)]

CapitalMetrics(p) ==
  [DIVIDENDS_TO_FCF   |-> HighIsBad(SafeDiv(p.dividends, AdjustedFcf(p)), 80, 100),
   BUYBACKS_TO_FCF    |-> HighIsBad(SafeDiv(p.buybacks, AdjustedFcf(p)), 80, 100),
   CAPEX_INTENSITY    |-> HighIsBad(SafeDiv(p.capex, p.revenue), 25, 40),
   SHARE_COUNT_GROWTH |-> HighIsBad(ShareGrowth(p), 5, 10)]

\* The statuses of the metrics that have a value.
Evaluated(metrics) == {m \in DOMAIN metrics : metrics[m] # "UNKNOWN"}
Statuses(metrics) == {metrics[m] : m \in Evaluated(metrics)}

AccountingGrade(p) ==
  LET metrics == AccountingMetrics(p) IN
  CASE Cardinality(Evaluated(metrics)) < 2     -> "UNKNOWN"
    [] OTHER -> CASE "FAIL" \in Statuses(metrics)                                   -> "WEAK"
                  [] "FAIL" \notin Statuses(metrics) /\ "WATCH" \in Statuses(metrics) -> "WATCH"
                  [] Statuses(metrics) = {"PASS"}                                  -> "STRONG"

CapitalAssessment(p) ==
  CASE Evaluated(CapitalMetrics(p)) = {}             -> "UNKNOWN"
    [] Statuses(CapitalMetrics(p)) = {"PASS"}        -> "BALANCED"
    [] OTHER                                         -> "WATCH"

-----------------------------------------------------------------------------
(* The package *)

ReviewedFlags(p) == {f \in DOMAIN RedFlags(p) : RedFlags(p)[f] \in {"FAIL", "UNKNOWN"}}

\* manual_review_items: what an analyst is told to look at.
RiskReviewItems(p) ==
  ReviewedFlags(p)
    \cup (IF AccountingGrade(p) \in {"UNKNOWN", "WEAK", "WATCH"} THEN {"accounting_quality"} ELSE {})
    \cup (IF CapitalAssessment(p) \in {"UNKNOWN", "WATCH"} THEN {"capital_allocation"} ELSE {})

\* build_business_risk_package
RiskStatus(p) ==
  IF /\ {RedFlags(p)[f] : f \in DOMAIN RedFlags(p) \ {"ENGINE_UNKNOWN_CHECKS_PRESENT"}} = {"UNKNOWN"}
     /\ p.unknown_checks \in {None, 0}
     /\ AccountingGrade(p) = "UNKNOWN"
     /\ CapitalAssessment(p) = "UNKNOWN"
  THEN "UNKNOWN" ELSE "PASS_WITH_LIMITATIONS"
=============================================================================
