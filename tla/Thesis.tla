------------------------------- MODULE Thesis -------------------------------
(***************************************************************************)
(* The evaluation of an investment thesis (research/thesis.py).  A thesis  *)
(* is a sequence of rules [category, field, operator, threshold] as its    *)
(* file gives them; the context is a function from fields to what the      *)
(* artifacts say, None where they say nothing.                             *)
(***************************************************************************)
EXTENDS Integers, FiniteSets

CONSTANTS None,
          Within(_, _)   \* Within(text, whole): whole contains text, both taken as texts

Invalidation == "invalidation"
WatchMetric  == "watch_metric"

\* _normalize_rules: what is neither a text nor a mapping is dropped (category
\* None); a text is kept as a rule without a field.
Kept(thesis) == {i \in DOMAIN thesis : thesis[i].category # None}

Ordered == {"gt", "gte", "lt", "lte"}
Operators == Ordered \cup {"eq", "neq", "in", "not_in", "contains", "not_contains"}

\* _compare; an ordering of something that is no number raises.
Compares(current, operator, threshold) ==
  operator \in Operators
    /\ (operator \in Ordered => current \in Int /\ threshold \in Int)

Triggers(current, operator, threshold) ==
  CASE operator = "gt"     -> current > threshold
    [] operator = "gte"    -> current >= threshold
    [] operator = "lt"     -> current < threshold
    [] operator = "lte"    -> current <= threshold
    [] operator = "eq"     -> current = threshold
    [] operator = "neq"    -> current # threshold
    [] operator = "in"     -> current \in threshold
    [] operator = "not_in" -> current \notin threshold
    [] operator = "contains"     -> Within(threshold, current)
    [] operator = "not_contains" -> ~Within(threshold, current)

\* Wrong variant: a missing field is unequal to any threshold.
EvaluateMissing(rule, context) ==
  IF rule.field = None \/ rule.operator = None THEN "UNKNOWN"
  ELSE IF context[rule.field] = None
       THEN IF rule.operator \in {"neq", "not_in"} THEN "TRIGGERED" ELSE "UNKNOWN"
  ELSE IF ~Compares(context[rule.field], rule.operator, rule.threshold) THEN "UNKNOWN"
  ELSE IF Triggers(context[rule.field], rule.operator, rule.threshold) THEN "TRIGGERED" ELSE "OK"

\* _evaluate_rule: what cannot be evaluated is UNKNOWN.
EvaluateRule(rule, context) ==
  IF \/ rule.field = None \/ rule.operator = None
     \/ context[rule.field] = None
     \/ ~Compares(context[rule.field], rule.operator, rule.threshold)
  THEN "UNKNOWN"
  ELSE IF Triggers(context[rule.field], rule.operator, rule.threshold) THEN "TRIGGERED" ELSE "OK"

\* evaluate_thesis: invalidation first, then a majority of unknown rules, then
\* the watch metrics.
ThesisStatus(thesis, context) ==
  LET result    == [i \in Kept(thesis) |-> EvaluateRule(thesis[i], context)]
      unknown   == {i \in Kept(thesis) : result[i] = "UNKNOWN"}
      triggered == {thesis[i].category : i \in {j \in Kept(thesis) : result[j] = "TRIGGERED"}}
      majority  == 2 * Cardinality(unknown) > Cardinality(Kept(thesis))
  IN CASE Kept(thesis) = {}                                                      -> "UNKNOWN"
       [] Invalidation \in triggered                                             -> "BROKEN"
       [] Kept(thesis) # {} /\ Invalidation \notin triggered /\ majority         -> "UNKNOWN"
       [] Kept(thesis) # {} /\ Invalidation \notin triggered /\ ~majority
            /\ (WatchMetric \in triggered \/ unknown # {})                       -> "WATCH"
       [] OTHER                                                                  -> "ON_TRACK"

\* The package: its own status, the thesis' and the rules to review.
EvaluateThesis(thesis, context) ==
  LET status == ThesisStatus(thesis, context)
  IN [status  |-> IF status = "UNKNOWN" THEN "UNKNOWN" ELSE "PASS_WITH_LIMITATIONS",
      thesis  |-> status,
      unknown |-> {i \in Kept(thesis) : EvaluateRule(thesis[i], context) = "UNKNOWN"},
      reviews |-> {i \in Kept(thesis) : EvaluateRule(thesis[i], context) # "OK"}]
=============================================================================
