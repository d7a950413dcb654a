----------------------------- MODULE Valuation -----------------------------
(***************************************************************************)
(* Which valuation model a company gets and whether it has a value         *)
(* (valuation/*.py, growth/fundamentals.py).  The formulas are floating    *)
(* point: a value is "computed" or None.  Only the comparison that can     *)
(* make a formula impossible, discount rate against growth, keeps numbers. *)
(*                                                                         *)
(* A series is None, "short" (one estimate, which cannot be extrapolated)  *)
(* or "long".                                                              *)
(***************************************************************************)
EXTENDS Integers

CONSTANT None

Given(x) == x # None

\* valuation/discount_rate.py; beta is positive (clipped to [0.8, 2]) and its
\* size is 1 here.  A missing tax rate has a default in the assumptions.
CostOfEquity(v) ==
  LET beta == Given(v.levered_beta) \/ Given(v.unlevered_beta_and_debt) IN
  IF Given(v.risk_free_rate) /\ Given(v.equity_risk_premium) /\ beta
  THEN v.risk_free_rate + v.equity_risk_premium ELSE None

DiscountRate(v) == IF Given(v.discount_rate) THEN v.discount_rate ELSE CostOfEquity(v)

\* The government bond stands in for the growth of every model.
LongRunGrowth(v) == IF Given(v.long_run_growth) THEN v.long_run_growth ELSE v.risk_free_rate
OwnGrowth(v, growth) == IF Given(growth) THEN growth ELSE LongRunGrowth(v)

\* Wrong variant: estimates without current earnings are not passed over.
GrowthRouteStuck(v) ==
  IF Given(v.earnings_estimates) THEN IF Given(v.current_earnings) THEN "analyst" ELSE None
  ELSE IF v.earnings_history = "long" THEN "historical" ELSE None

\* growth/fundamentals.py resolve_growth: analyst, historical, fundamentals.
GrowthRoute(v) ==
  CASE Given(v.earnings_estimates) /\ Given(v.current_earnings) -> "analyst"
    [] ~(Given(v.earnings_estimates) /\ Given(v.current_earnings))
       /\ v.earnings_history = "long" -> "historical"
    [] OTHER -> IF Given(v.roe_convergence) /\ Given(v.current_earnings)
                THEN "fundamentals" ELSE None

-----------------------------------------------------------------------------
(* The engines *)

Discountable(rate, growth) == Given(rate) /\ Given(growth) /\ rate > growth

\* two_stage_fcf_value without its cash flows.
TwoStagePossible(v) ==
  Given(v.shares_outstanding) /\ Discountable(DiscountRate(v), LongRunGrowth(v))

\* project_fcf of analyst estimates; one alone gives no growth.
FromEstimates(v, series) == series = "long" /\ TwoStagePossible(v)
FromBase(v, base) == Given(base) /\ Given(GrowthRoute(v)) /\ TwoStagePossible(v)

TwoStage(v) ==
  IF Given(v.fcf_estimates) THEN FromEstimates(v, v.fcf_estimates)
  ELSE Given(v.capex_history) /\ FromBase(v, v.operating_cash_flow)

ExcessReturns(v) ==
  /\ \A x \in {v.current_bve, v.stable_future_roe, v.stable_future_bve, v.shares_outstanding} :
       Given(x)
  /\ Discountable(DiscountRate(v), OwnGrowth(v, v.excess_returns_growth))

Ddm(v) ==
  Given(v.expected_dps) /\ Discountable(DiscountRate(v), OwnGrowth(v, v.ddm_growth))

\* valuation/affo_dcf.py: AFFO, then FFO, then the NAV per share.
AffoVariant(v) ==
  LET affo == FromEstimates(v, v.affo_estimates) \/ FromBase(v, v.affo)
      ffo  == FromEstimates(v, v.ffo_estimates) \/ FromBase(v, v.ffo) IN
  CASE affo                                       -> "base"
    [] ~affo /\ ffo                               -> "ffo_fallback"
    [] ~affo /\ ~ffo /\ Given(v.nav_per_share)    -> "nav_fallback"
    [] OTHER                                      -> "unknown"

-----------------------------------------------------------------------------
(* valuation/model_selection.py and resolve.py *)

CompanyTypes == {"non_financial", "bank", "insurance", "reit", "other_financial"}

Model(v) ==
  CASE v.company_type \in {"bank", "insurance"} ->
         IF Given(v.bank_data) \/ Given(v.stable_future_roe) THEN "excess_returns" ELSE "ddm"
    [] v.company_type = "reit"            -> "affo_dcf"
    [] v.company_type = "other_financial" -> "ddm"
    [] v.company_type = "non_financial"   -> "two_stage_fcf"

\* select_model's class: E3 only for a REIT without AFFO.
ModelClass(v) ==
  IF v.company_type = "reit" /\ ~Given(v.affo) THEN "E3" ELSE "E0"

Computable(v) ==
  CASE Model(v) = "two_stage_fcf"  -> TwoStage(v)
    [] Model(v) = "excess_returns" -> ExcessReturns(v)
    [] Model(v) = "ddm"            -> Ddm(v)
    [] Model(v) = "affo_dcf"       -> AffoVariant(v) # "unknown"

\* A fair value given by hand comes first; strict mode invents nothing.
ResolveValuation(v) ==
  CASE Given(v.fair_value) ->
         [value |-> "manual", variant |-> "manual_input", class |-> "E3"]
    [] ~Given(v.fair_value) /\ ~Computable(v) ->
         [value |-> None, variant |-> "unknown", class |-> "E3"]
    [] OTHER ->
         [value   |-> "computed",
          variant |-> IF Model(v) = "affo_dcf" THEN AffoVariant(v) ELSE "base",
          class   |-> IF Model(v) = "affo_dcf" /\ AffoVariant(v) # "base" THEN "E3"
                      ELSE ModelClass(v)]
=============================================================================
