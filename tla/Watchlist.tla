----------------------------- MODULE Watchlist ------------------------------
(***************************************************************************)
(* The triage of a watchlist (research/watchlist.py) from the same         *)
(* artifact folders the portfolio audit reads.  A row is                   *)
(* [ticker, priority], a ticker its place in the alphabet, None for a row  *)
(* without one.                                                            *)
(***************************************************************************)
EXTENDS Integers, FiniteSets

CONSTANTS
  None,
  ManyUnknownChecks   \* so many UNKNOWN checks limit the data (10 in the code)

PriorityWeight ==
  [critical |-> 5, high |-> 4, medium |-> 3, low |-> 2, watch |-> 2, ignore |-> 1]
ConfidenceWeight == [HIGH |-> 4, MEDIUM |-> 3, LOW |-> 1, UNKNOWN |-> 0]
RiskWeight       == [LOW |-> 3, MEDIUM |-> 2, HIGH |-> 0, UNKNOWN |-> 0]

RedFlags(files) == IF files.risk = None THEN 0 ELSE files.risk

NotATarget(audit) ==
  audit.status = "NOT_APPLICABLE" \/ (audit.usage = "do_not_compare" /\ audit.type = "fund_etf_excluded")

NotTheModel(audit) == audit.status = "DEGRADED" \/ audit.usage \in {"audit_only", "do_not_compare"}

DataLimited(audit) ==
  \/ audit.level \in {"LOW", "UNKNOWN"}
  \/ audit.unknown >= ManyUnknownChecks
  \/ audit.missing

\* Wrong variant: a red flag only costs points.
BucketByRiskOnly(row, files) ==
  IF row.ticker = None \/ files.audit = None THEN "Data Limited"
  ELSE LET a == files.audit IN
    CASE NotATarget(a)                       -> "Ignore for Now"
      [] ~NotATarget(a) /\ NotTheModel(a)    -> "Needs Different Model"
      [] ~NotATarget(a) /\ ~NotTheModel(a) /\ (a.status = "UNKNOWN" \/ DataLimited(a))
                                             -> "Data Limited"
      [] OTHER -> IF a.risk \in {"HIGH", "UNKNOWN"}
                  THEN "Manual Review Required" ELSE "Researchable Now"

\* _triage_row and _unknown_item: the first reason decides, risk and red flags
\* only where the data would do.
Bucket(row, files) ==
  IF row.ticker = None \/ files.audit = None THEN "Data Limited"
  ELSE LET a == files.audit IN
    CASE NotATarget(a)                       -> "Ignore for Now"
      [] ~NotATarget(a) /\ NotTheModel(a)    -> "Needs Different Model"
      [] ~NotATarget(a) /\ ~NotTheModel(a) /\ (a.status = "UNKNOWN" \/ DataLimited(a))
                                             -> "Data Limited"
      [] OTHER -> IF a.risk \in {"HIGH", "UNKNOWN"} \/ RedFlags(files) > 0
                  THEN "Manual Review Required" ELSE "Researchable Now"

ManualReview(row, files) ==
  \/ Bucket(row, files) \in {"Data Limited", "Needs Different Model", "Manual Review Required",
                             "Ignore for Now"}
  \/ files.audit.degraded

\* Wrong variant: the penalty of a manual review is halved.
HalfPenalty(bucket) ==
  CASE bucket = "Manual Review Required" -> 4 [] bucket = "Data Limited" -> 15 [] OTHER -> 0

Penalty(bucket) ==
  CASE bucket = "Manual Review Required" -> 8 [] bucket = "Data Limited" -> 15 [] OTHER -> 0

\* _research_score; a row without an audit scores 0.
ResearchScore(row, files) ==
  LET bucket == Bucket(row, files)
      flags  == IF RedFlags(files) > 5 THEN 5 ELSE RedFlags(files)
  IN IF row.ticker = None \/ files.audit = None \/ bucket \in {"Ignore for Now", "Needs Different Model"}
     THEN 0
     ELSE LET score == 10 * PriorityWeight[row.priority] + 5 * ConfidenceWeight[files.audit.level]
                         + 4 * RiskWeight[files.audit.risk]
                         - (IF files.audit.status = "STANDARD_OK" THEN 0 ELSE 10)
                         - 3 * flags - Penalty(bucket)
          IN IF score < 0 THEN 0 ELSE score

\* _research_queue: the rows worth a look, best score first, then by ticker, then
\* as they stand.
ResearchQueue(rows, files) ==
  LET eligible == {i \in DOMAIN rows : Bucket(rows[i], files[i]) \notin {"Ignore for Now", "Needs Different Model"}}
      score(i) == ResearchScore(rows[i], files[i])
      name(i)  == IF rows[i].ticker = None THEN 0 ELSE rows[i].ticker
      before(i, j) == \/ score(i) > score(j)
                      \/ score(i) = score(j) /\ (name(i) < name(j) \/ (name(i) = name(j) /\ i < j))
  IN CHOOSE queue \in [1..Cardinality(eligible) -> eligible] :
       \A i, j \in DOMAIN queue : i < j => before(queue[i], queue[j])

WatchlistStatus(rows, files) ==
  IF \A i \in DOMAIN rows : rows[i].ticker = None \/ files[i].audit = None
  THEN "UNKNOWN" ELSE "PASS_WITH_LIMITATIONS"

AuditWatchlist(rows, files) ==
  [status  |-> WatchlistStatus(rows, files),
   bucket  |-> [i \in DOMAIN rows |-> Bucket(rows[i], files[i])],
   reviews |-> {i \in DOMAIN rows : ManualReview(rows[i], files[i])},
   queue   |-> ResearchQueue(rows, files)]
=============================================================================
