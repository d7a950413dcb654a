----------------------------- MODULE Portfolio ------------------------------
(***************************************************************************)
(* The audit of a holdings list (audit/portfolio_audit.py) from what the   *)
(* artifact folders hold of each ticker.                                   *)
(*                                                                         *)
(* A row is [ticker, weight, value, sector, macro] as its columns say, the *)
(* weight in hundredths.  The files of a ticker are [audit, risk, thesis], *)
(* each None if no artifact of that kind was found.                        *)
(***************************************************************************)
EXTENDS Integers, FiniteSets, FiniteSetsExt, Functions

CONSTANTS None, Cash   \* Cash: the ticker of the cash row

-----------------------------------------------------------------------------
(* Holdings *)

\* _parse_weight: more than 1 is read as a percentage.
ParseWeight(n) == IF n # None /\ n > 100 THEN n \div 100 ELSE n

\* load_holdings_csv: cash without a weight weighs nothing, and that is a weight.
LoadedWeight(row) ==
  IF row.ticker = Cash /\ row.weight = None THEN 0 ELSE ParseWeight(row.weight)

Positive(n) == IF n = None \/ n < 0 THEN 0 ELSE n

\* _normalize_missing_weights and _weight: what each row weighs, in one unit.
\* Values or equal parts count only when no row at all has a weight.
Shares(rows) ==
  LET weighed == {i \in DOMAIN rows : LoadedWeight(rows[i]) # None}
      valued  == {i \in DOMAIN rows : rows[i].value # None}
  IN [i \in DOMAIN rows |->
        CASE weighed # {}                  -> Positive(LoadedWeight(rows[i]))
          [] weighed = {} /\ valued # {}   -> Positive(rows[i].value)
          [] OTHER                         -> IF rows[i].ticker = Cash THEN 0 ELSE 1]

-----------------------------------------------------------------------------
(* One holding *)

ConfidenceScore == [HIGH |-> 100, MEDIUM |-> 60, LOW |-> 25, UNKNOWN |-> 0]
RiskScore       == [LOW |-> 0, MEDIUM |-> 50, HIGH |-> 100, UNKNOWN |-> 100]

DataLevel(files)    == IF files.audit = None THEN "UNKNOWN" ELSE files.audit.level
RiskLevel(files)    == IF files.audit = None THEN "UNKNOWN" ELSE files.audit.risk
ModelStatus(files)  == IF files.audit = None THEN "UNKNOWN" ELSE files.audit.status
ThesisStatus(files) == IF files.thesis = None THEN "UNKNOWN" ELSE files.thesis
Degraded(files)     == files.audit # None /\ files.audit.degraded

\* The manual review items of _audit_holding, by what they are about.
Reviews(ticker, files) ==
  {r \in {"audit", "model", "risk", "provider", "red_flags", "thesis"} :
     CASE r = "audit"     -> ticker # Cash /\ files.audit = None
       [] r = "model"     -> ticker # Cash /\ ModelStatus(files) \in {"DEGRADED", "NOT_APPLICABLE", "UNKNOWN"}
       [] r = "risk"      -> ticker # Cash /\ RiskLevel(files) \in {"HIGH", "UNKNOWN"}
       [] r = "provider"  -> Degraded(files)
       [] r = "red_flags" -> files.risk \notin {None, 0}
       [] r = "thesis"    -> ticker # Cash /\ ThesisStatus(files) \in {"BROKEN", "WATCH", "UNKNOWN"}}

-----------------------------------------------------------------------------
(* The portfolio *)

WeightOf(rows, chosen) == MapThenSumSet(LAMBDA i : Shares(rows)[i], chosen)
Invested(rows)         == {i \in DOMAIN rows : rows[i].ticker # Cash}
Unaudited(rows, files) == {i \in Invested(rows) : files[rows[i].ticker].audit = None}
DegradedRows(rows, files) == {i \in Invested(rows) : Degraded(files[rows[i].ticker])}

\* Wrong variant: a score of zero is taken for no score.
AverageOfNonzero(rows, score) ==
  LET scored == {i \in Invested(rows) : score[i] # 0} IN
  [sum   |-> MapThenSumSet(LAMBDA i : score[i] * Shares(rows)[i], scored),
   total |-> WeightOf(rows, scored)]

\* _weighted_average over the invested rows: a sum of scores and its weight.
Average(rows, score) ==
  [sum   |-> MapThenSumSet(LAMBDA i : score[i] * Shares(rows)[i], Invested(rows)),
   total |-> WeightOf(rows, Invested(rows))]

ConfidenceAverage(rows, files) ==
  Average(rows, [i \in DOMAIN rows |-> ConfidenceScore[DataLevel(files[rows[i].ticker])]])
RiskAverage(rows, files) ==
  Average(rows, [i \in DOMAIN rows |-> RiskScore[RiskLevel(files[rows[i].ticker])]])

WeightedConfidence(rows, files) ==
  LET a == ConfidenceAverage(rows, files)
  IN CASE a.total > 0 /\ a.sum >= 80 * a.total                           -> "HIGH"
       [] a.total > 0 /\ a.sum >= 50 * a.total /\ a.sum < 80 * a.total   -> "MEDIUM"
       [] a.total > 0 /\ a.sum > 0 /\ a.sum < 50 * a.total               -> "LOW"
       [] OTHER                                                          -> "UNKNOWN"

WeightedRisk(rows, files) ==
  LET a == RiskAverage(rows, files)
  IN CASE a.total > 0 /\ a.sum >= 75 * a.total                           -> "HIGH"
       [] a.total > 0 /\ a.sum >= 30 * a.total /\ a.sum < 75 * a.total   -> "MEDIUM"
       [] a.total > 0 /\ a.sum < 30 * a.total                            -> "LOW"
       [] OTHER                                                          -> "UNKNOWN"

\* _concentration of the sectors, rows without one in a bucket of their own: high
\* with a bucket of half the weight, or a high sum of squares.
Concentration(rows) ==
  LET sectors == {rows[i].sector : i \in DOMAIN rows}
      bucket  == [b \in sectors |-> WeightOf(rows, {i \in DOMAIN rows : rows[i].sector = b})]
      total   == MapThenSumSet(LAMBDA b : bucket[b], sectors)
      square  == MapThenSumSet(LAMBDA b : bucket[b] * bucket[b], sectors)
  IN CASE total = 0                                                                -> "UNKNOWN"
       [] total > 0 /\ ((\E b \in sectors : 2 * bucket[b] >= total)
                          \/ 100 * square >= 35 * total * total)                   -> "HIGH"
       [] OTHER                                                                    -> "COMPUTED"

\* _macro_sensitivity_map: the weight exposed to each label of the operator.
MacroExposure(rows) ==
  [label \in UNION {rows[i].macro : i \in DOMAIN rows} |->
     WeightOf(rows, {i \in DOMAIN rows : label \in rows[i].macro})]

\* _portfolio_manual_review_items, by what they are about; its thresholds are
\* not those of the levels.
PortfolioReviews(rows, files) ==
  LET confidence == ConfidenceAverage(rows, files)
      risk       == RiskAverage(rows, files)
  IN {r \in {"unknown", "degraded", "confidence", "risk", "sector", "macro"} :
        CASE r = "unknown"    -> WeightOf(rows, Unaudited(rows, files)) > 0
          [] r = "degraded"   -> WeightOf(rows, DegradedRows(rows, files)) > 0
          [] r = "confidence" -> confidence.total = 0 \/ confidence.sum < 60 * confidence.total
          [] r = "risk"       -> risk.total = 0 \/ risk.sum >= 50 * risk.total
          [] r = "sector"     -> Concentration(rows) = "HIGH"
          [] r = "macro"      -> DOMAIN MacroExposure(rows) = {}}

PortfolioStatus(rows, files) ==
  IF rows = <<>> \/ (Invested(rows) # {} /\ Unaudited(rows, files) = Invested(rows))
  THEN "UNKNOWN" ELSE "PASS_WITH_LIMITATIONS"

BuildPortfolioAudit(rows, files) ==
  [status     |-> PortfolioStatus(rows, files),
   confidence |-> WeightedConfidence(rows, files),
   risk       |-> WeightedRisk(rows, files),
   unknown    |-> [weight |-> WeightOf(rows, Unaudited(rows, files)),
                   count  |-> Cardinality(Unaudited(rows, files))],
   degraded   |-> WeightOf(rows, DegradedRows(rows, files)),
   sector     |-> Concentration(rows),
   macro      |-> MacroExposure(rows),
   attributed |-> {i \in DOMAIN rows : rows[i].value # None},
   items      |-> PortfolioReviews(rows, files),
   reviews    |-> [i \in DOMAIN rows |-> Reviews(rows[i].ticker, files[rows[i].ticker])]]
=============================================================================
