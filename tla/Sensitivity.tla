---------------------------- MODULE Sensitivity ----------------------------
(***************************************************************************)
(* The scenarios of a valuation and its fragility (sensitivity/*.py), for  *)
(* the models with a closed formula, dividends and excess returns: their   *)
(* values are exact fractions with the denominator rate - growth, here in  *)
(* multiples of 1/Scale.  Rates and growths are counted in steps of 50     *)
(* basis points.                                                           *)
(***************************************************************************)
EXTENDS Integers, FiniteSets, Functions

CONSTANTS
  None,
  Scale   \* a multiple of every difference of a rate and a growth that occurs

V == INSTANCE Valuation

-----------------------------------------------------------------------------
(* Values *)

\* ddm_value and excess_returns_value, per share, where they give one.
FairValue(v) ==
  LET rate   == V!DiscountRate(v)
      growth == V!OwnGrowth(v, IF V!Model(v) = "ddm" THEN v.ddm_growth ELSE v.excess_returns_growth)
      per(x) == (x * Scale) \div (rate - growth)
  IN CASE V!Given(v.fair_value)                              -> v.fair_value * Scale
       [] ~V!Given(v.fair_value) /\ ~V!Computable(v)         -> None
       [] ~V!Given(v.fair_value) /\ V!Computable(v) /\ V!Model(v) = "ddm" -> per(v.expected_dps)
       [] OTHER ->
            v.current_bve * Scale + per((v.stable_future_roe - rate) * v.stable_future_bve)

\* _base_discount_rate and _base_terminal_growth: a zero counts as missing.
NonZero(x, y) == IF x \notin {None, 0} THEN x ELSE y
BaseRate(v)   == NonZero(v.discount_rate, V!CostOfEquity(v))
BaseGrowth(v) == NonZero(v.long_run_growth, v.risk_free_rate)

-----------------------------------------------------------------------------
(* Scenarios: a label and what is added to the rate and to the growth *)

RangeCases == [bear |-> <<2, -1>>, base |-> <<0, 0>>, bull |-> <<-2, 1>>]

Scenarios ==
  ({"grid"} \X {-2, 0, 2} \X {-1, 0, 1})
    \cup {<<label, RangeCases[label][1], RangeCases[label][2]>> : label \in DOMAIN RangeCases}

\* _scenario_case
ScenarioValue(v, rate, growth) ==
  IF rate <= growth THEN None
  ELSE FairValue([v EXCEPT !.discount_rate = rate, !.long_run_growth = growth])

\* _scenario_matrix and _valuation_range
ScenarioValues(v) ==
  [s \in Scenarios |-> ScenarioValue(v, BaseRate(v) + s[2], BaseGrowth(v) + s[3])]

-----------------------------------------------------------------------------
(* fragility_from_values: a scenario without a positive value is left out *)

Priced(value) == {s \in DOMAIN value : value[s] # None /\ value[s] > 0}

\* The k-th smallest value, from 0.
Nth(value, k) ==
  LET priced == Priced(value) IN
  CHOOSE x \in {value[s] : s \in priced} :
    /\ Cardinality({s \in priced : value[s] < x}) <= k
    /\ Cardinality({s \in priced : value[s] <= x}) > k

\* _quantile, tenfold: between two values it is interpolated.
TenfoldQuantile(value, tenths) ==
  LET place == (Cardinality(Priced(value)) - 1) * tenths
      rest  == place % 10
      low   == Nth(value, place \div 10)
      high  == IF rest = 0 THEN low ELSE Nth(value, place \div 10 + 1)
  IN low * (10 - rest) + high * rest

Abs(x) == IF x < 0 THEN -x ELSE x

\* Wrong variant: the milder threshold is tested first.
FragilityMildFirst(value, base) ==
  IF base = 0 \/ Cardinality(Priced(value)) < 2 THEN "UNKNOWN"
  ELSE LET spread == TenfoldQuantile(value, 9) - TenfoldQuantile(value, 1)
           full   == 10 * Abs(base)
       IN CASE 100 * spread >= 25 * full -> "MEDIUM" [] OTHER -> "LOW"

\* Thresholds of 0.25 and 0.60 of the base value, between the deciles.
Fragility(value, base) ==
  IF base = 0 \/ Cardinality(Priced(value)) < 2 THEN "UNKNOWN"
  ELSE LET spread == TenfoldQuantile(value, 9) - TenfoldQuantile(value, 1)
           full   == 10 * Abs(base)
       IN CASE 100 * spread >= 60 * full                              -> "HIGH"
            [] 100 * spread >= 25 * full /\ 100 * spread < 60 * full  -> "MEDIUM"
            [] OTHER                                                  -> "LOW"

-----------------------------------------------------------------------------

\* _unavailable_summary
Unavailable(reason) ==
  [status |-> "UNKNOWN", reason |-> reason, fragility |-> "UNKNOWN",
   base |-> None, range |-> [label \in {} |-> None], unpriced |-> {}]

\* run_sensitivity; these models have no terminal value in their details.
RunSensitivity(v) ==
  CASE V!ResolveValuation(v).variant = "manual_input"   -> Unavailable("MANUAL_FAIR_VALUE")
    [] V!ResolveValuation(v).value = None               -> Unavailable("BASE_VALUATION_UNKNOWN")
    [] V!ResolveValuation(v).value = "computed" /\ None \in {BaseRate(v), BaseGrowth(v)}
                                                        -> Unavailable("DRIVER_INPUTS_MISSING")
    [] OTHER ->
         LET value == ScenarioValues(v)
             level == Fragility(value, FairValue(v))
         IN [status    |-> IF level = "HIGH" THEN "PASS_WITH_LIMITATIONS" ELSE "PASS",
             reason    |-> "COMPUTED",
             fragility |-> level,
             base      |-> FairValue(v),
             range     |-> [label \in DOMAIN RangeCases |->
                              value[<<label, RangeCases[label][1], RangeCases[label][2]>>]],
             unpriced  |-> Scenarios \ Priced(value)]
=============================================================================
