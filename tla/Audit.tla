------------------------------- MODULE Audit --------------------------------
(***************************************************************************)
(* The audit of a finished output (audit/*.py): how far its data can be    *)
(* trusted, whether its model applies, and the risk of concluding from it. *)
(*                                                                         *)
(* An output is a function from its checks to what the audit reads of them:*)
(* the quality of a verdict, or "unknown".  A lineage is a function from   *)
(* fields to [quality, age, tier].  Scores are exact fractions: the code's *)
(* floats times 200 * (checks) * (fields).                                 *)
(***************************************************************************)
EXTENDS Integers, FiniteSets, FiniteSetsExt, Functions

CONSTANTS
  None,         \* nothing is said
  ManyUnknown   \* so many UNKNOWN checks make a conclusion risky (10 in the code)

Levels == {"LOW", "MEDIUM", "HIGH", "UNKNOWN"}

-----------------------------------------------------------------------------
(* Data confidence *)

\* source_quality_weights, in hundredths.
Weight == [exact |-> 100, approximation |-> 60, assumption |-> 30, missing |-> 0]

\* ttl_days_by_tier; a tier without one never goes stale.
Stale(info, ttl) == info.tier \in DOMAIN ttl /\ info.age > ttl[info.tier]

UnknownChecks(output) == {c \in DOMAIN output : output[c] = "unknown"}

Weighed(output) ==
  LET count(q) == Cardinality({c \in DOMAIN output : output[c] = q})
  IN Weight.exact * count("exact") + Weight.approximation * count("approximation")
       + Weight.assumption * count("assumption")

\* Wrong variant: the mean quality of the checks that have a verdict.
QualityOfKnown(output) ==
  LET known == Cardinality(DOMAIN output) - Cardinality(UnknownChecks(output)) IN
  IF known = 0 THEN 0 ELSE (Cardinality(DOMAIN output) * Weighed(output)) \div known

\* unknown_check gives an UNKNOWN the quality "missing", which weighs 0.
QualitySum(output) == Weighed(output)

\* A stale field counts half; the sum is in two-hundredths.
LineageSum(lineage, ttl) ==
  MapThenSumSet(LAMBDA f : (IF Stale(lineage[f], ttl) THEN 1 ELSE 2) * Weight[lineage[f].quality],
                DOMAIN lineage)

\* Weights 0.40 coverage, 0.30 quality, 0.20 known checks, 0.10 lineage.
\* Coverage and the share of known checks agree on the 30 checks.
RawScore(output, lineage, ttl) ==
  LET checks == Cardinality(DOMAIN output)
      known  == checks - Cardinality(UnknownChecks(output))
      fields == IF DOMAIN lineage = {} THEN 1 ELSE Cardinality(DOMAIN lineage)
  IN fields * (200 * 60 * known + 60 * QualitySum(output)) + 10 * checks * LineageSum(lineage, ttl)

FullScore(output, lineage) ==
  LET fields == IF DOMAIN lineage = {} THEN 1 ELSE Cardinality(DOMAIN lineage)
  IN 200 * Cardinality(DOMAIN output) * fields

\* _confidence_grade: thresholds 0.85, 0.70, 0.50 and 0.30.
Grade(score, full) ==
  CASE score >= 85 * full                          -> "A"
    [] score >= 70 * full /\ score < 85 * full     -> "B"
    [] score >= 50 * full /\ score < 70 * full     -> "C"
    [] score >= 30 * full /\ score < 50 * full     -> "D"
    [] OTHER                                       -> "E"

\* provider_caps: the pragmatic provider never gets better than C.
Capped(grade, pragmatic) == IF pragmatic /\ grade \in {"A", "B"} THEN "C" ELSE grade

ConfidenceLevel(grade) ==
  CASE grade \in {"A", "B"} -> "HIGH" [] grade = "C" -> "MEDIUM" [] grade \in {"D", "E"} -> "LOW"

\* warned: the warnings of the output speak of the provider.
DataConfidence(output, lineage, ttl, pragmatic, warned) ==
  IF DOMAIN output = {} THEN [level |-> "UNKNOWN", unknown |-> 0, degraded |-> pragmatic]
  ELSE [level    |-> ConfidenceLevel(Capped(Grade(RawScore(output, lineage, ttl),
                                                  FullScore(output, lineage)), pragmatic)),
        unknown  |-> Cardinality(UnknownChecks(output)),
        degraded |-> pragmatic \/ warned]

-----------------------------------------------------------------------------
(* Model applicability.  A company is what the identifier master and its own
   payload call it (None if they do not), the words of all its texts, and the
   model that valued it. *)

\* _normalized_company_type: the identifier master is asked first.
RawType(company) == IF company.master # None THEN company.master ELSE company.own

\* Wrong variant: what the payload says is heard before what the company is.
LadderStandardFirst ==
  <<"standard_industrial", "fund_etf_excluded", "bank", "insurance", "reit", "adr_foreign",
    "utility", "commodity_cyclical", "saas", "pharma", "loss_making">>

\* The ladder of _detect_company_type, in the order it is climbed.
Ladder == <<"fund_etf_excluded", "bank", "insurance", "reit", "adr_foreign", "utility",
            "commodity_cyclical", "saas", "pharma", "loss_making", "standard_industrial">>

RungHolds(rung, company) ==
  LET says(word) == word = RawType(company) \/ word \in company.words IN
  CASE rung = "fund_etf_excluded"   -> says("fund")
    [] rung = "bank"                -> says("bank") \/ RawType(company) = "financial"
    [] rung = "reit"                -> says("reit") \/ company.model = "affo_dcf"
    [] rung = "adr_foreign"         -> says("adr")
    [] rung = "commodity_cyclical"  -> says("commodity")
    [] rung = "loss_making"         -> RawType(company) = "loss_making"
    [] rung = "standard_industrial" -> \/ RawType(company) = "non_financial"
                                       \/ company.model \in {"two_stage_fcf", "ddm"}
    [] OTHER                        -> says(rung)

CompanyType(company) ==
  LET rungs == {i \in DOMAIN Ladder : RungHolds(Ladder[i], company)}
  IN IF rungs = {} THEN "unknown" ELSE Ladder[Min(rungs)]

ApplicabilityStatus(type) ==
  CASE type \in {"standard_industrial", "saas"} -> "STANDARD_OK"
    [] type = "fund_etf_excluded"               -> "NOT_APPLICABLE"
    [] type = "unknown"                         -> "UNKNOWN"
    [] OTHER                                    -> "DEGRADED"

\* config/audit_policies.yaml, allowed_score_usage.
AllowedUsage(type) ==
  CASE type \in {"standard_industrial", "saas"}                             -> "rankable"
    [] type \in {"bank", "insurance", "fund_etf_excluded"}                  -> "do_not_compare"
    [] type \in {"reit", "adr_foreign", "unknown"}                          -> "audit_only"
    [] type \in {"utility", "commodity_cyclical", "pharma", "loss_making"}  -> "display_only"

ModelApplicability(company) ==
  LET type == CompanyType(company)
  IN [type |-> type, status |-> ApplicabilityStatus(type), usage |-> AllowedUsage(type)]

-----------------------------------------------------------------------------
(* Conclusion risk: the worst of its drivers *)

HighRisk(dc, ma) ==
  \/ dc.level \in {"LOW", "UNKNOWN"}
  \/ dc.unknown >= ManyUnknown
  \/ ma.status \in {"NOT_APPLICABLE", "DEGRADED", "UNKNOWN"}
  \/ ma.usage \in {"audit_only", "do_not_compare"}

MediumRisk(dc) == dc.level = "MEDIUM" \/ dc.unknown \in 1..ManyUnknown - 1 \/ dc.degraded

ConclusionRisk(dc, ma) ==
  CASE HighRisk(dc, ma)                      -> "HIGH"
    [] ~HighRisk(dc, ma) /\ MediumRisk(dc)   -> "MEDIUM"
    [] OTHER                                 -> "LOW"

-----------------------------------------------------------------------------
(* Critical missing inputs *)

RateFields == {"risk_free_rate_10y_5y_avg", "equity_risk_premium"}

\* infer_impacted_fields: the critical fields whose keywords the texts of an
\* UNKNOWN check contain; they name its inputs and the dates of its sources.
ImpactedFields(c) ==
  LET named ==
    CASE c \in {<<"value", 3>>, <<"value", 4>>, <<"value", 6>>, <<"past", 1>>, <<"past", 6>>,
                <<"dividend", 1>>, <<"dividend", 2>>}          -> {"industry_averages"}
      [] c \in {<<"future", 2>>, <<"future", 3>>}              -> {"industry_averages", "analyst_estimates"}
      [] c[1] = "future" /\ c[2] \notin {2, 3}                -> {"analyst_estimates"}
      [] c = <<"dividend", 6>>                                 -> {"analyst_estimates"}
      [] c = <<"health", 5>>                                   -> {"operating_cash_flow"}
      [] OTHER                                                 -> {}
  IN IF named = {} THEN {"unknown_input"} ELSE named

\* Wrong variant: without the root causes.
MissingByKeyword(unknown, held) == UNION {ImpactedFields(c) : c \in unknown} \ held

\* classify_missing_inputs: a field the payload holds is never missing, and the
\* rates the payload lacks are when an UNKNOWN check mentions the fair value.
MissingInputs(unknown, held) ==
  LET lostValue == unknown \cap {<<"value", 1>>, <<"value", 2>>} # {}
  IN (UNION {ImpactedFields(c) : c \in unknown} \ held)
       \cup (IF lostValue THEN RateFields \ held ELSE {})
=============================================================================
