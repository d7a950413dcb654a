------------------------------- MODULE Checks -------------------------------
(***************************************************************************)
(* The 30 Snowflake checks (checks/*.py), the provider tag of the check    *)
(* engine and the axis scores, as operators of a payload: a record of      *)
(* numbers in which a field the company has no value for is None.          *)
(*                                                                         *)
(* Rates are whole tenths (roe = 2 is 20%), a ratio of the code is compared*)
(* by cross-multiplication, and the names, thresholds in words, lineage    *)
(* and source qualities that only label a result are left out.             *)
(***************************************************************************)
EXTENDS Integers, FiniteSets, Sequences

CONSTANTS
  None,          \* a field without a value
  DpsYears,      \* length of a full dividend history (10 in the code)
  DebtPolicy,    \* assumptions: health_no_interest_expense_policy is active
  GatePolicy     \* assumptions: dividend_gate_policy names bottom_10pct

Axes == {"value", "future", "past", "health", "dividend"}
Checks == Axes \X (1..6)

Unknown(reason) == [result |-> "UNKNOWN", reason |-> reason]
PassFail(passes) == [result |-> IF passes THEN "PASS" ELSE "FAIL", reason |-> "OK"]
Known(v) == v.result # "UNKNOWN"

\* checks/_helpers.py binary_check: UNKNOWN if any input is None.
Binary(inputs, passes) ==
  IF None \in inputs THEN Unknown("MISSING_INPUT") ELSE PassFail(passes)

\* A check whose denominator has to be positive (P4, H3, H4, HF1).
Ratio(inputs, denominators, passes) ==
  IF None \notin inputs /\ \E d \in denominators : d <= 0
  THEN Unknown("NEGATIVE_DENOMINATOR") ELSE Binary(inputs, passes)

-----------------------------------------------------------------------------
(* V1-V6 *)

\* price <= fair_value * tenths/10
BelowFairValue(p, fairValue, tenths) ==
  Binary({p.price, fairValue}, 10 * p.price <= fairValue * tenths)

\* valuation/relative.py compute_pe
PeReason(p) ==
  CASE None \in {p.price, p.eps} -> "MISSING_INPUT"
    [] None \notin {p.price, p.eps} /\ p.eps <= 0 -> "NEGATIVE_DENOMINATOR"
    [] OTHER -> "OK"

PeBelow(p, median) ==
  IF PeReason(p) # "OK" THEN Unknown(PeReason(p))
  ELSE Binary({median}, 0 < p.price /\ p.price < median * p.eps)

\* compute_peg: 0 < pe / (100 * growth) < 1
PegBelowOne(p) ==
  IF PeReason(p) # "OK" THEN Unknown(PeReason(p))
  ELSE Ratio({p.earnings_growth}, {p.earnings_growth},
             0 < p.price /\ p.price < p.eps * p.earnings_growth * 10)

TangibleBookValue(p) == p.total_assets - p.intangible_assets - p.total_liabilities

\* compute_pb, from tangible book value only
PbBelow(p, average) ==
  LET balance == {p.total_assets, p.intangible_assets, p.total_liabilities,
                  p.shares_outstanding} IN
  CASE p.price = None \/ None \in balance -> Unknown("MISSING_INPUT")
    [] p.price # None /\ None \notin balance
       /\ (p.shares_outstanding <= 0 \/ TangibleBookValue(p) <= 0) ->
         Unknown("NEGATIVE_DENOMINATOR")
    [] OTHER ->
         Binary({average}, 0 < p.price
                           /\ p.price * p.shares_outstanding < average * TangibleBookValue(p))

Value(p, fairValue, id) ==
  CASE id = 1 -> BelowFairValue(p, fairValue, 8)
    [] id = 2 -> BelowFairValue(p, fairValue, 6)
    [] id = 3 -> PeBelow(p, p.market_pe)
    [] id = 4 -> PeBelow(p, p.industry_pe)
    [] id = 5 -> PegBelowOne(p)
    [] id = 6 -> PbBelow(p, p.industry_pb)

-----------------------------------------------------------------------------
(* F1-F6 and P1-P6 *)

\* F1.  Whether the company becomes profitable is an input of the comparison too.
OutgrowsSavings(p) ==
  CASE p.becomes_profitable = TRUE -> PassFail(TRUE)
    [] p.becomes_profitable = None -> Unknown("MISSING_INPUT")
    [] OTHER -> Binary({p.earnings_growth, p.savings_rate, p.cpi},
                       p.earnings_growth > p.savings_rate + p.cpi)

Future(p, id) ==
  CASE id = 1 -> OutgrowsSavings(p)
    [] id = 2 -> Binary({p.earnings_growth, p.market_income_growth},
                        p.earnings_growth > p.market_income_growth)
    [] id = 3 -> Binary({p.revenue_growth, p.market_revenue_growth},
                        p.revenue_growth > p.market_revenue_growth)
    [] id = 4 -> Binary({p.earnings_growth}, p.earnings_growth > 2)
    [] id = 5 -> Binary({p.revenue_growth}, p.revenue_growth > 2)
    [] id = 6 -> Binary({p.roe_3y_estimate}, p.roe_3y_estimate > 2)

Past(p, id) ==
  CASE id = 1 -> Binary({p.eps_growth_1y, p.industry_eps_growth},
                        p.eps_growth_1y > p.industry_eps_growth)
    [] id = 2 -> Binary({p.current_eps, p.eps_5y_ago}, p.current_eps > p.eps_5y_ago)
    [] id = 3 -> Binary({p.eps_growth_1y, p.eps_growth_5y_avg},
                        p.eps_growth_1y > p.eps_growth_5y_avg)
    [] id = 4 -> Ratio({p.roe, p.equity}, {p.equity}, p.roe > 2)
    [] id = 5 -> Binary({p.roce_current, p.roce_3y_ago}, p.roce_current > p.roce_3y_ago)
    [] id = 6 -> Binary({p.roa, p.industry_roa}, p.roa > p.industry_roa)

-----------------------------------------------------------------------------
(* H1-H6 and their variants *)

DebtFree(p) ==
  /\ p.total_debt # None
  /\ p.total_debt = 0
  /\ p.net_interest_expense # None
  /\ p.net_interest_expense <= 0

\* Wrong variant: only the policy asks for the debt.
CoverageWithoutDebt(p) ==
  IF DebtFree(p) /\ DebtPolicy THEN [result |-> "PASS", reason |-> "ASSUMPTION_USED"]
  ELSE Binary({p.ebit, p.net_interest_expense}, p.ebit > 5 * p.net_interest_expense)

\* H6, with the policy for companies without debt and interest.  The debt is an
\* input of the comparison, though its two sides do not mention it.
InterestCoverage(p) ==
  CASE DebtFree(p) /\ DebtPolicy  -> [result |-> "PASS", reason |-> "ASSUMPTION_USED"]
    [] DebtFree(p) /\ ~DebtPolicy -> Unknown("NOT_APPLICABLE")
    [] OTHER -> Binary({p.ebit, p.net_interest_expense, p.total_debt},
                       p.ebit > 5 * p.net_interest_expense)

StandardHealth(p, id) ==
  CASE id = 1 -> Binary({p.st_assets, p.st_liabilities}, p.st_assets > p.st_liabilities)
    [] id = 2 -> Binary({p.st_assets, p.lt_liabilities}, p.st_assets > p.lt_liabilities)
    [] id = 3 -> Ratio({p.debt_current, p.equity, p.debt_5y_ago, p.equity_5y_ago},
                       {p.equity, p.equity_5y_ago},
                       p.debt_current * p.equity_5y_ago <= p.debt_5y_ago * p.equity)
    [] id = 4 -> Ratio({p.debt_current, p.equity}, {p.equity},
                       10 * p.debt_current < 4 * p.equity)
    [] id = 5 -> Binary({p.operating_cash_flow, p.total_debt},
                        5 * p.operating_cash_flow > p.total_debt)
    [] id = 6 -> InterestCoverage(p)

\* HF1: equity alone decides between the two reasons when it is missing.
FinancialHealth(p, id) ==
  CASE id = 1 -> Ratio({p.total_assets, p.equity}, {p.equity},
                       p.total_assets < 20 * p.equity)
    [] id = 2 -> Binary({p.allowance_npl, p.npl}, p.allowance_npl > p.npl)
    [] id = 3 -> Binary({p.deposits, p.total_liabilities},
                        2 * p.deposits > p.total_liabilities)
    [] id = 4 -> Binary({p.net_loans, p.total_assets},
                        10 * p.net_loans < 11 * p.total_assets)
    [] id = 5 -> Binary({p.net_loans, p.deposits}, 4 * p.net_loans < 5 * p.deposits)
    [] id = 6 -> Binary({p.net_charge_offs, p.net_loans},
                        100 * p.net_charge_offs < 3 * p.net_loans)

\* is_loss_making: eps_recent is the sum over the averaging window, None when
\* the history is shorter than the window.
LossMaking(p) ==
  /\ p.current_eps # None
  /\ p.current_eps < 0
  /\ p.eps_recent = None \/ p.eps_recent < 0

RunwayHealth(p, id) ==
  CASE id = 5 -> Binary({p.cash, p.cash_burn}, p.cash > p.cash_burn)
    [] id = 6 -> Binary({p.cash, p.cash_burn, p.burn_growth},
                        10 * p.cash > p.cash_burn * (10 + p.burn_growth))

FinancialTypes == {"bank", "insurance", "other_financial"}

\* checks/engine.py: which six checks make the health axis.
HealthSet(p) ==
  CASE p.company_type \in FinancialTypes -> "financial"
    [] p.company_type \notin FinancialTypes /\ LossMaking(p) -> "loss_making"
    [] OTHER -> "standard"

Health(p, id) ==
  CASE HealthSet(p) = "financial" -> FinancialHealth(p, id)
    [] HealthSet(p) = "loss_making" /\ id \in {5, 6} -> RunwayHealth(p, id)
    [] OTHER -> StandardHealth(p, id)

-----------------------------------------------------------------------------
(* D1-D6 *)

\* The yield is in the bottom tenth of the market.
GateActive(p) ==
  /\ GatePolicy
  /\ None \notin {p.dividend_yield, p.yield_p10}
  /\ p.dividend_yield < p.yield_p10

FullHistory(p) == p.dps_history # None /\ Len(p.dps_history) >= DpsYears

\* No positive DPS is followed by one more than a tenth lower.
StableDps(dps) ==
  \A i \in 1..Len(dps) - 1 : dps[i] > 0 => 10 * (dps[i] - dps[i + 1]) <= dps[i]

FailByDefault == [result |-> "FAIL", reason |-> "FAIL_BY_DEFAULT"]

PayoutSustainable(p, payout) ==
  Binary({payout}, 0 < payout /\ payout < (IF p.company_type = "reit" THEN 10 ELSE 9))

Dividend(p, id) ==
  CASE id = 1 -> Binary({p.dividend_yield, p.yield_p25}, p.dividend_yield > p.yield_p25)
    [] id = 2 -> Binary({p.dividend_yield, p.yield_p75}, p.dividend_yield > p.yield_p75)
    [] id > 2 /\ GateActive(p) -> Unknown("DIVIDEND_GATE_LOW_YIELD")
    [] id \in {3, 4} /\ ~GateActive(p) /\ ~FullHistory(p) -> FailByDefault
    [] id = 3 /\ ~GateActive(p) /\ FullHistory(p) -> PassFail(StableDps(p.dps_history))
    [] id = 4 /\ ~GateActive(p) /\ FullHistory(p) ->
         PassFail(p.dps_history[Len(p.dps_history)] > p.dps_history[1])
    [] id = 5 /\ ~GateActive(p) -> PayoutSustainable(p, p.payout_ratio)
    [] id = 6 /\ ~GateActive(p) -> PayoutSustainable(p, p.estimated_payout_3y)

-----------------------------------------------------------------------------
(* run_all_checks *)

Evaluate(p, fairValue, c) ==
  CASE c[1] = "value"    -> Value(p, fairValue, c[2])
    [] c[1] = "future"   -> Future(p, c[2])
    [] c[1] = "past"     -> Past(p, c[2])
    [] c[1] = "health"   -> Health(p, c[2])
    [] c[1] = "dividend" -> Dividend(p, c[2])

MarketAverages(p) ==
  {p.market_pe, p.savings_rate, p.cpi, p.market_income_growth, p.market_revenue_growth,
   p.yield_p10, p.yield_p25, p.yield_p75}
IndustryAverages(p) == {p.industry_pe, p.industry_pb, p.industry_eps_growth, p.industry_roa}

\* _dep_fields and the names among a check's inputs, as far as the pragmatic
\* provider can tag them missing (YFINANCE_UNAVAILABLE_FIELDS).
DependsOnMissing(p, c) ==
  CASE c = <<"value", 3>>    -> MarketAverages(p) = {None}
    [] c = <<"value", 4>>    -> IndustryAverages(p) = {None}
    [] c = <<"value", 6>>    -> p.intangible_assets = None
    [] c = <<"future", 6>>   -> p.roe_3y_estimate = None
    [] c = <<"dividend", 6>> -> p.estimated_payout_3y = None
    [] OTHER -> FALSE

\* The verdict a check ends with under the pragmatic provider.
Verdict(p, fairValue, c) ==
  LET v == Evaluate(p, fairValue, c) IN
  IF v = Unknown("MISSING_INPUT") /\ DependsOnMissing(p, c)
  THEN Unknown("PROVIDER_LIMITATION") ELSE v

Verdicts(p, fairValue) == [c \in Checks |-> Verdict(p, fairValue, c)]

\* scoring/axis_scores.py: the denominator is fixed at 6, nothing is normalised.
AxisCount(verdicts, axis, results) ==
  Cardinality({id \in 1..6 : verdicts[<<axis, id>>].result \in results})

\* Wrong variant: the score is six less the failures.
ScoreOfUnfailed(verdicts, axis) == 6 - AxisCount(verdicts, axis, {"FAIL"})

ScoreRaw(verdicts, axis) == AxisCount(verdicts, axis, {"PASS"})
KnownChecks(verdicts, axis) == AxisCount(verdicts, axis, {"PASS", "FAIL"})
=============================================================================
