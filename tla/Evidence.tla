------------------------------ MODULE Evidence ------------------------------
(***************************************************************************)
(* What more data does to an analysis.  A subject, one check, a valuation, *)
(* an audited output or a group of risk signals, starts without data and   *)
(* gets what it reads one item at a time, in any order.  Everything the    *)
(* program would compute from the evidence so far is an operator of it.    *)
(***************************************************************************)
EXTENDS Integers, FiniteSets, Functions, TLC

CONSTANTS None, DpsYears, DebtPolicy, GatePolicy, ManyUnknown, AlarmingUnknown,
          Numbers,     \* the values a field may get
          SomeChecks,  \* how many checks the audited output has (30 in the code)
          Identities   \* [pragmatic, warned, company] of the audited outputs

ASSUME DpsYearsAssumption == DpsYears \in Nat \ {0, 1}
ASSUME PoliciesAssumption == {DebtPolicy, GatePolicy} \subseteq BOOLEAN
ASSUME ThresholdsAssumption == {ManyUnknown, AlarmingUnknown} \subseteq Nat \ {0}
ASSUME SomeChecksAssumption == SomeChecks \in Nat \ {0}
\* None is no kind of company, no series, nothing that is said of a value, and not
\* what a check reads when it reads a yes or no.
ASSUME NoneIsNoWord ==
  /\ None \notin {"fund", "bank", "insurance", "reit", "adr", "utility", "commodity"}
  /\ None \notin {"long", "analyst", "historical", "fundamentals", "manual", "computed"}
  /\ None \notin BOOLEAN

VARIABLES subject,   \* what is looked at: a part, what of it, a type of company
          evidence   \* item -> value or None

C == INSTANCE Checks
V == INSTANCE Valuation
A == INSTANCE Audit
R == INSTANCE RiskSignals

-----------------------------------------------------------------------------
(* What a subject reads *)

\* The input tuples of checks/*.py, without those another type of company has.
FieldsOfCheck(c, type) ==
  CASE c[1] = "value" ->
         {"price"} \cup
         (CASE c[2] \in {1, 2} -> {"fair_value"}
            [] c[2] = 3 -> {"eps", "market_pe"}
            [] c[2] = 4 -> {"eps", "industry_pe"}
            [] c[2] = 5 -> {"eps", "earnings_growth"}
            [] c[2] = 6 -> {"total_assets", "intangible_assets", "total_liabilities",
                            "shares_outstanding", "industry_pb"})
    [] c[1] = "future" ->
         (CASE c[2] = 1 -> {"becomes_profitable", "earnings_growth", "savings_rate", "cpi"}
            [] c[2] = 2 -> {"earnings_growth", "market_income_growth"}
            [] c[2] = 3 -> {"revenue_growth", "market_revenue_growth"}
            [] c[2] = 4 -> {"earnings_growth"}
            [] c[2] = 5 -> {"revenue_growth"}
            [] c[2] = 6 -> {"roe_3y_estimate"})
    [] c[1] = "past" ->
         (CASE c[2] = 1 -> {"eps_growth_1y", "industry_eps_growth"}
            [] c[2] = 2 -> {"current_eps", "eps_5y_ago"}
            [] c[2] = 3 -> {"eps_growth_1y", "eps_growth_5y_avg"}
            [] c[2] = 4 -> {"roe", "equity"}
            [] c[2] = 5 -> {"roce_current", "roce_3y_ago"}
            [] c[2] = 6 -> {"roa", "industry_roa"})
    [] c[1] = "health" /\ type = "bank" ->
         (CASE c[2] = 1 -> {"total_assets", "equity"}
            [] c[2] = 2 -> {"allowance_npl", "npl"}
            [] c[2] = 3 -> {"deposits", "total_liabilities"}
            [] c[2] = 4 -> {"net_loans", "total_assets"}
            [] c[2] = 5 -> {"net_loans", "deposits"}
            [] c[2] = 6 -> {"net_charge_offs", "net_loans"})
    [] c[1] = "health" /\ type # "bank" ->
         {"current_eps", "eps_recent"} \cup
         (CASE c[2] = 1 -> {"st_assets", "st_liabilities"}
            [] c[2] = 2 -> {"st_assets", "lt_liabilities"}
            [] c[2] = 3 -> {"debt_current", "equity", "debt_5y_ago", "equity_5y_ago"}
            [] c[2] = 4 -> {"debt_current", "equity"}
            [] c[2] = 5 -> {"operating_cash_flow", "total_debt", "cash", "cash_burn"}
            [] c[2] = 6 -> {"ebit", "net_interest_expense", "total_debt", "cash",
                            "cash_burn", "burn_growth"})
    [] c[1] = "dividend" ->
         {"dividend_yield"} \cup
         (CASE c[2] = 1 -> {"yield_p25"}
            [] c[2] = 2 -> {"yield_p75"}
            [] c[2] \in {3, 4} -> {"yield_p10", "dps_history"}
            [] c[2] = 5 -> {"yield_p10", "payout_ratio"}
            [] c[2] = 6 -> {"yield_p10", "estimated_payout_3y"})

CheckSubjects ==
  {[part |-> "check", of |-> c, type |-> t] : c \in C!Checks, t \in {"non_financial"}}
    \cup {[part |-> "check", of |-> <<"health", i>>, type |-> "bank"] : i \in 1..6}
    \cup {[part |-> "check", of |-> <<"dividend", i>>, type |-> "reit"] : i \in {5, 6}}

\* What the model of a company type reads (valuation/resolve.py).
ReadByModel(type) ==
  {"risk_free_rate", "discount_rate"} \cup
  (CASE type = "non_financial" ->
          {"shares_outstanding", "fcf_estimates", "capex_history", "operating_cash_flow",
           "earnings_history", "earnings_estimates", "current_earnings", "roe_convergence",
           "long_run_growth", "equity_risk_premium", "levered_beta"}
     [] type = "bank" ->
          {"bank_data", "stable_future_roe", "current_bve", "stable_future_bve",
           "shares_outstanding", "expected_dps", "excess_returns_growth", "ddm_growth"}
     [] type = "other_financial" ->
          {"expected_dps", "ddm_growth", "long_run_growth", "equity_risk_premium",
           "unlevered_beta_and_debt", "fair_value"}
     [] type = "reit" ->
          {"affo_estimates", "ffo_estimates", "affo", "ffo", "nav_per_share",
           "shares_outstanding", "earnings_estimates", "current_earnings"})

RiskGroups ==
  [cash_flow  |-> {"operating_cash_flow", "capex", "net_income", "dividends"},
   balance    |-> {"intangible_assets", "total_assets", "total_debt", "cash", "equity"},
   accounting |-> {"operating_cash_flow", "capex", "net_income", "total_assets", "margin_spread"},
   capital    |-> {"operating_cash_flow", "capex", "dividends", "buybacks", "revenue", "shares"}]

Histories == {<<3, 3>>, <<1, 3>>, <<3, 1>>, <<1>>}
Series == {"fcf_estimates", "affo_estimates", "ffo_estimates", "earnings_history"}
Rates == {"risk_free_rate", "discount_rate", "long_run_growth", "equity_risk_premium",
          "excess_returns_growth", "ddm_growth"}

ValuesOf(item) ==
  CASE item \in {"dps_history", "shares"}                   -> Histories
    [] item = "becomes_profitable"                          -> BOOLEAN
    [] item = "margin_spread"                               -> {[n |-> x, d |-> 20] : x \in {1, 3, 5}}
    [] item \in {"capex", "dividends", "buybacks", "cash", "total_debt"} -> Numbers \cap Nat
    [] item \in {"current_eps", "eps_recent"}               -> Numbers \ {0}
    [] item \in {"earnings_history", "long_run_growth", "equity_risk_premium"} ->
         IF item = "earnings_history" THEN {"long"} ELSE {2}
    [] subject.part = "valuation" /\ item \in Series        -> {"short", "long"}
    [] subject.part = "valuation" /\ item \in Rates         -> {0, 2}
    [] subject.part = "valuation" /\ item \notin Series \cup Rates -> {1}
    [] OTHER                                                -> Numbers

-----------------------------------------------------------------------------
(* What the program makes of it *)

Without(fields) == [f \in fields |-> None]

\* One function over another: what the first leaves open, the second says.
Over(f, g) == [x \in DOMAIN f \cup DOMAIN g |-> IF x \in DOMAIN f THEN f[x] ELSE g[x]]

CheckFields == UNION {FieldsOfCheck(c, t) : c \in C!Checks, t \in {"non_financial", "bank"}}
NoPayload == Without(CheckFields)
Payload == Over([company_type |-> subject.type], Over(evidence, NoPayload))

AxisVerdicts(p) ==
  [c \in {subject.of[1]} \X (1..6) |-> C!Verdict(p, p.fair_value, c)]

ValuationFields ==
  Series \cup Rates \cup UNION {ReadByModel(t) : t \in V!CompanyTypes \ {"insurance"}}
NoInputs == Without(ValuationFields)
ValuationInputs == Over([company_type |-> subject.type], Over(evidence, NoInputs))
Valued(inputs) == V!ResolveValuation(inputs).value # None

RiskFields == UNION {RiskGroups[g] : g \in DOMAIN RiskGroups}
NoNumbers == Without(RiskFields \cup {"unknown_checks"})
RiskPayload == Over(evidence, NoNumbers)

\* The audited output: evidence counts its verdicts of each quality.
Qualities == {"exact", "approximation", "assumption", "missing"}
Judged == evidence.exact + evidence.approximation + evidence.assumption + evidence.missing

Output ==
  LET e == evidence.exact
      a == e + evidence.approximation
      s == a + evidence.assumption
  IN [c \in 1..SomeChecks |->
        IF c > Judged THEN "unknown"
        ELSE CASE c <= e            -> "exact"
               [] c > e /\ c <= a   -> "approximation"
               [] c > a /\ c <= s   -> "assumption"
               [] OTHER             -> "missing"]

\* A lineage of one field of the given quality, or none.
Lineage ==
  IF subject.of.lineage = None THEN <<>>
  ELSE [price |-> [quality |-> subject.of.lineage, age |-> evidence.age, tier |-> "price"]]

Confidence == A!DataConfidence(Output, Lineage, [price |-> 1],
                               subject.of.identity.pragmatic, subject.of.identity.warned)
Applicability == A!ModelApplicability(subject.of.identity.company)
Risk          == A!ConclusionRisk(Confidence, Applicability)

-----------------------------------------------------------------------------

EvidenceInit ==
  \/ /\ subject \in CheckSubjects
     /\ evidence = Without(FieldsOfCheck(subject.of, subject.type))
  \/ \E type \in V!CompanyTypes \ {"insurance"} :
       /\ subject = [part |-> "valuation", type |-> type]
       /\ evidence = Without(ReadByModel(type))
  \/ \E g \in DOMAIN RiskGroups :
       /\ subject = [part |-> "risk", of |-> g]
       /\ evidence = Without(RiskGroups[g])
  \/ \E i \in Identities, q \in {"exact", None} :
       /\ subject = [part |-> "audit", of |-> [identity |-> i, lineage |-> q]]
       /\ evidence = [exact |-> 0, approximation |-> 0, assumption |-> 0, missing |-> 0, age |-> 0]

Supply(item) ==
  /\ subject.part \in {"check", "valuation", "risk"}
  /\ evidence[item] = None
  /\ \E x \in ValuesOf(item) : evidence' = [evidence EXCEPT ![item] = x]
  /\ UNCHANGED subject

\* A check of the audited output gets a verdict of quality q.
Settle(q) ==
  /\ subject.part = "audit"
  /\ Judged < SomeChecks
  /\ evidence' = [evidence EXCEPT ![q] = @ + 1]
  /\ UNCHANGED subject

\* Days pass and the lineage goes stale.
Age ==
  /\ subject.part = "audit"
  /\ evidence.age = 0
  /\ evidence' = [evidence EXCEPT !["age"] = 2]
  /\ UNCHANGED subject

EvidenceStep ==
  \/ \E item \in DOMAIN evidence : Supply(item)
  \/ \E q \in Qualities : Settle(q)
  \/ Age

-----------------------------------------------------------------------------
(* What holds *)

\* The fields that decide which comparison a check makes, not only its outcome:
\* losses, which put the cash runway in the place of H5 and H6 (checks/engine.py:27),
\* and the gate and the history of the dividend, which may end a failure by
\* default (checks/dividend.py:64).  Every other field that could move a check to
\* another comparison is an input of the one it leaves.
Switches(c) ==
  CASE c[1] = "health" /\ c[2] > 4   -> {"current_eps", "eps_recent"}
    [] c[1] = "dividend" /\ c[2] > 2 -> {"dividend_yield", "yield_p10", "dps_history"}
    [] OTHER                         -> {}

Given(item) == item \in DOMAIN evidence /\ evidence[item] = None /\ evidence'[item] # None

\* A PASS or FAIL is never taken back when another field becomes known: no
\* verdict is guessed from a part of its inputs (checks/_helpers.py:39).
KnownVerdictsStand ==
  [][subject.part = "check" =>
       LET verdict == C!Verdict(Payload, Payload.fair_value, subject.of) IN
       C!Known(verdict) /\ (\A f \in Switches(subject.of) : ~Given(f))
         => C!Verdict(Payload, Payload.fair_value, subject.of)' = verdict]_<<subject, evidence>>

Earnings == {"current_eps", "eps_recent"}
Runway   == {"cash", "cash_burn", "burn_growth"}
Gate     == {"dividend_yield", "yield_p10"}

\* What check c takes for its inputs, in the comparison it makes of payload p.
Compared(p, c) ==
  LET fields == FieldsOfCheck(c, p.company_type) IN
  CASE c = <<"future", 1>> /\ p.becomes_profitable = TRUE -> {"becomes_profitable"}
    [] c[1] = "health" /\ c[2] > 4 /\ C!HealthSet(p) = "loss_making" -> fields \cap Runway
    [] c = <<"health", 6>> /\ C!HealthSet(p) = "standard" /\ C!DebtFree(p) ->
         {"total_debt", "net_interest_expense"}
    [] c[1] = "dividend" /\ c[2] > 2 -> fields \ Gate
    [] OTHER -> fields \ (IF c[1] = "health" THEN Earnings \cup Runway ELSE {})

Held(p, fields) == \A f \in fields : p[f] # None

\* On every axis, each point scored and each check counted as known rests on all
\* the inputs of the comparison made, but for the two dividend checks that fail by
\* default; and no check whose inputs are all there is said to lack one
\* (scoring/axis_scores.py, checks/_helpers.py:39).
ScoresAreBackedByData ==
  subject.part = "check" =>
    LET verdicts  == AxisVerdicts(Payload)
        axis      == subject.of[1]
        backed    == {i \in 1..6 : Held(Payload, Compared(Payload, <<axis, i>>))}
        byDefault == IF axis = "dividend" THEN {3, 4} ELSE {}
    IN /\ C!ScoreRaw(verdicts, axis) <= Cardinality(backed)
       /\ C!KnownChecks(verdicts, axis) <= Cardinality(backed \cup byDefault)
       /\ \A i \in backed :
            verdicts[<<axis, i>>].reason \notin {"MISSING_INPUT", "PROVIDER_LIMITATION"}

\* More data takes a value away only by replacing a rate or a growth the value
\* stood on, by showing that an estimate cannot be extrapolated, or by moving a
\* bank from dividends to excess returns (valuation/resolve.py).
ValueIsLostOnlyBySwitches ==
  [][subject.part = "valuation" /\ Valued(ValuationInputs) /\ ~Valued(ValuationInputs)'
       => \E f \in (Rates \ {"risk_free_rate"}) \cup {"fcf_estimates", "bank_data", "stable_future_roe"} :
            Given(f)]_<<subject, evidence>>

\* When a company with a price has no value, the checks that need the value are
\* UNKNOWN, and the audit names just the rates the payload lacks as their root
\* causes: none that it holds, whatever a check mentions (audit/missing_inputs.py).
RootCauseIsReported ==
  subject.part = "valuation" /\ ~Valued(ValuationInputs) =>
    LET rates   == [risk_free_rate |-> "risk_free_rate_10y_5y_avg",
                    equity_risk_premium |-> "equity_risk_premium"]
        held    == {rates[r] : r \in {x \in DOMAIN rates : ValuationInputs[x] # None}}
        priced  == Over([company_type |-> subject.type, price |-> 1], NoPayload)
        unknown == {c \in {"value"} \X (1..6) : ~C!Known(C!Verdict(priced, None, c))}
    IN A!MissingInputs(unknown, held) \cap A!RateFields = A!RateFields \ held

Better == [LOW |-> 0, MEDIUM |-> 1, HIGH |-> 2]

\* A verdict more never lowers the confidence in an output nor raises the risk of
\* concluding from it, whatever its quality; a stale field never does the
\* opposite (audit/data_confidence.py, audit/conclusion_risk.py).
AuditIsMonotone ==
  [][subject.part = "audit" =>
       LET before == [level |-> Better[Confidence.level], risk |-> Better[Risk]]
           after  == [level |-> Better[Confidence.level], risk |-> Better[Risk]]'
       IN IF evidence'.age = evidence.age
          THEN after.level >= before.level /\ after.risk <= before.risk
          ELSE after.level <= before.level /\ after.risk >= before.risk]_<<subject, evidence>>

\* LOW risk is never concluded for a company that any source calls one the
\* standard model does not fit, nor with an unevaluated check or from degraded
\* data (audit/model_applicability.py:74, audit/conclusion_risk.py).
LowRiskIsEarned ==
  subject.part = "audit" /\ Risk = "LOW" =>
    /\ Judged = SomeChecks
    /\ ~subject.of.identity.pragmatic /\ ~subject.of.identity.warned
    /\ ({subject.of.identity.company.master} \cup subject.of.identity.company.words)
         \cap {"fund", "bank", "insurance", "reit", "adr", "utility", "commodity"} = {}

\* A red flag that was raised or cleared stands, and a weak or watched grade of
\* the accounting never becomes a better one, when more numbers become known
\* (audit/risk_signals.py).
WeakStaysWeak ==
  [][subject.part = "risk" =>
       /\ \A f \in DOMAIN R!RedFlags(RiskPayload) :
            R!RedFlags(RiskPayload)[f] # "UNKNOWN"
              => R!RedFlags(RiskPayload)[f]' = R!RedFlags(RiskPayload)[f]
       /\ R!AccountingGrade(RiskPayload) = "WEAK" => R!AccountingGrade(RiskPayload)' = "WEAK"
       /\ R!AccountingGrade(RiskPayload) = "WATCH" => R!AccountingGrade(RiskPayload)' \in {"WATCH", "WEAK"}
       /\ R!CapitalAssessment(RiskPayload) = "WATCH" => R!CapitalAssessment(RiskPayload)' = "WATCH"]_<<subject, evidence>>

-----------------------------------------------------------------------------
(* The inductive invariant: which items a subject collects, and that no more   *)
(* checks are judged than there are.                                           *)

CheckInv ==
  subject.part = "check" =>
    /\ subject \in CheckSubjects
    /\ DOMAIN evidence = FieldsOfCheck(subject.of, subject.type)

ValuationInv ==
  subject.part = "valuation" =>
    /\ subject.type \in V!CompanyTypes \ {"insurance"}
    /\ DOMAIN evidence = ReadByModel(subject.type)

RiskInv ==
  subject.part = "risk" =>
    subject.of \in DOMAIN RiskGroups /\ DOMAIN evidence = RiskGroups[subject.of]

AuditInv ==
  subject.part = "audit" =>
    /\ DOMAIN evidence = Qualities \cup {"age"}
    /\ \A q \in Qualities : evidence[q] \in Nat
    /\ Judged <= SomeChecks
    /\ subject.of.lineage \in {"exact", None}

GatheredInv == CheckInv /\ ValuationInv /\ RiskInv /\ AuditInv
=============================================================================
