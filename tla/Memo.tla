-------------------------------- MODULE Memo --------------------------------
(***************************************************************************)
(* The investment memo (reporting/investment_memo.py): which of its inputs *)
(* leave something to review.  Its inputs are the files of a ticker        *)
(* [audit, risk, thesis] as the portfolio audit and the watchlist read     *)
(* them, and extras [explained, decided, worded, fragility, ranged,        *)
(* exposure]: whether there are explanations and a decision, whether a     *)
(* text has a forbidden word, the level and the range of the sensitivity   *)
(* summary and the unaudited weight of the portfolio audit, None without   *)
(* that artifact.                                                          *)
(***************************************************************************)
EXTENDS Integers

CONSTANT None

\* _component_status; an empty artifact counts as missing.
MissingComponents(files, extras) ==
  {c \in {"explanations", "sensitivity_summary", "business_risk", "thesis_status",
          "decision_record", "portfolio_audit"} :
     CASE c = "explanations"        -> ~extras.explained
       [] c = "sensitivity_summary" -> extras.fragility = None
       [] c = "business_risk"       -> files.risk = None
       [] c = "thesis_status"       -> files.thesis = None
       [] c = "decision_record"     -> ~extras.decided
       [] c = "portfolio_audit"     -> extras.exposure = None}

\* Wrong variant: the context of the portfolio is not reviewed, nor are red flags.
ReviewsOfAudit(files, extras) ==
  {r \in {"data", "provider", "model", "risk", "inputs", "components"} :
     CASE r = "data"       -> files.audit.level \in {"LOW", "UNKNOWN"}
       [] r = "provider"   -> files.audit.degraded
       [] r = "model"      -> files.audit.status \in {"DEGRADED", "NOT_APPLICABLE", "UNKNOWN"}
       [] r = "risk"       -> files.audit.risk \in {"HIGH", "UNKNOWN"}
       [] r = "inputs"     -> files.audit.missing
       [] r = "components" -> MissingComponents(files, extras) # {}}

\* _manual_review_items of a memo with an audit, by what they are about.
ReviewItems(files, extras) ==
  {r \in {"data", "provider", "model", "risk", "red_flags", "thesis", "fragility", "exposure",
          "inputs", "components"} :
     CASE r = "data"       -> files.audit.level \in {"LOW", "UNKNOWN"}
       [] r = "provider"   -> files.audit.degraded
       [] r = "model"      -> files.audit.status \in {"DEGRADED", "NOT_APPLICABLE", "UNKNOWN"}
       [] r = "risk"       -> files.audit.risk \in {"HIGH", "UNKNOWN"}
       [] r = "red_flags"  -> files.risk \notin {None, 0}
       [] r = "thesis"     -> files.thesis \in {"WATCH", "BROKEN", "UNKNOWN"}
       [] r = "fragility"  -> extras.fragility \in {"HIGH", "UNKNOWN"}
       [] r = "exposure"   -> extras.exposure \notin {None, 0}
       [] r = "inputs"     -> files.audit.missing
       [] r = "components" -> MissingComponents(files, extras) # {}}

\* _false_precision_guardrail
Precision(extras) ==
  CASE extras.fragility = None                       -> "UNKNOWN"
    [] extras.fragility # None /\ extras.ranged      -> "PASS"
    [] OTHER                                         -> "PASS_WITH_LIMITATIONS"

\* build_investment_memo_package and _unknown_memo.  A text with a forbidden word
\* makes the memo fail (_recommendation_guardrail).
InvestmentMemo(files, extras) ==
  IF files.audit = None
  THEN [status |-> "UNKNOWN", reason |-> "INPUTS_MISSING", reviews |-> {"components"},
        precision |-> "UNKNOWN"]
  ELSE LET reviews == ReviewItems(files, extras)
       IN [status    |-> IF extras.worded THEN "FAIL" ELSE "PASS_WITH_LIMITATIONS",
           reason    |-> CASE extras.worded -> "LANGUAGE_REJECTED"
                           [] ~extras.worded /\ (files.audit.unknown > 0 \/ reviews # {})
                                            -> "MANUAL_REVIEW_REQUIRED"
                           [] OTHER         -> "GENERATED",
           reviews   |-> reviews,
           precision |-> Precision(extras)]
=============================================================================
