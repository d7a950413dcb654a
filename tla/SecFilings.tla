----------------------------- MODULE SecFilings -----------------------------
(***************************************************************************)
(* What the SEC statement snapshot reads out of the filings of a company   *)
(* (sec/xbrl_tag_resolver.py, sec/statement_snapshot.py).  The facts are a *)
(* set of [tag, val, fy, filed, end, form]: a tag of us-gaap, a value, the *)
(* fiscal year of the filing, its date, and the end of the period.  Two    *)
(* facts of a tag differ in one of the last four.                          *)
(***************************************************************************)
EXTENDS Integers, FiniteSets, FiniteSetsExt, Sequences, SequencesExt

CONSTANTS None

\* FIELD_TAGS, for the fields the properties tell apart.
FieldTags ==
  [net_income         |-> <<"NetIncomeLoss", "ProfitLoss">>,
   equity             |-> <<"StockholdersEquity",
                            "StockholdersEquityIncludingPortionAttributableToNoncontrollingInterest">>,
   eps                |-> <<"EarningsPerShareDiluted", "EarningsPerShareBasic">>,
   interest_expense   |-> <<"InterestExpenseNonOperating", "InterestExpense">>,
   capex              |-> <<"PaymentsToAcquirePropertyPlantAndEquipment",
                            "PaymentsToAcquireProductiveAssets">>]
IntangibleTags == {"IntangibleAssetsNetExcludingGoodwill", "Goodwill"}

AnnualForms == {"10-K", "10-K/A", "20-F", "20-F/A"}

\* The candidates of _select_latest and annual_series.
Annual(facts, tag) == {f \in facts : f.tag = tag /\ f.val # None /\ f.form \in AnnualForms}

Year(f) == IF f.fy = None THEN -9999 ELSE f.fy

\* Wrong variant: what was filed last is the latest.
FiledLater(f, g) == f.filed > g.filed \/ (f.filed = g.filed /\ Year(f) > Year(g))

\* _fy_fp_sort_key: by fiscal year, a fact without one last.
Later(f, g) ==
  \/ Year(f) > Year(g)
  \/ Year(f) = Year(g) /\ (f.filed > g.filed \/ (f.filed = g.filed /\ f.end > g.end))

\* _select_latest: a fact that no other is later than.
SelectLatest(facts) == CHOOSE f \in facts : \A g \in facts : ~Later(g, f)

\* The first tag of a list with a candidate, if there is one.
Used(facts, tags) == {i \in DOMAIN tags : Annual(facts, tags[i]) # {}}
TagOf(facts, tags) == tags[Min(Used(facts, tags))]

\* latest_fact: None for XBRL_TAG_MISSING.
LatestFact(facts, tags) ==
  IF Used(facts, tags) = {} THEN None ELSE SelectLatest(Annual(facts, TagOf(facts, tags)))

\* annual_series: for the first tag that has a fact of a year, of each fiscal year
\* the latest fact, the last n years, oldest first.
Dated(facts, tag) == {f \in Annual(facts, tag) : f.fy # None}
Usable(facts, tags) == {i \in DOMAIN tags : Dated(facts, tags[i]) # {}}
SeriesTag(facts, tags) == tags[Min(Usable(facts, tags))]
Years(facts, tag) == {f.fy : f \in Dated(facts, tag)}
Ascending(S) == CHOOSE s \in [1..Cardinality(S) -> S] : \A i, j \in DOMAIN s : i < j => s[i] < s[j]

AnnualSeries(facts, tags, n) ==
  LET tag    == SeriesTag(facts, tags)
      years  == Ascending(Years(facts, tag))
      series == [k \in DOMAIN years |-> SelectLatest({f \in Dated(facts, tag) : f.fy = years[k]})]
  IN IF Usable(facts, tags) = {} THEN <<>>
     ELSE SubSeq(series, IF Len(series) > n THEN Len(series) - n + 1 ELSE 1, Len(series))

\* intangible_assets: the sum of the components that are there.
IntangibleAssets(facts) ==
  LET present == {t \in IntangibleTags : Annual(facts, t) # {}}
  IN IF present = {} THEN None
     ELSE MapThenSumSet(LAMBDA t : SelectLatest(Annual(facts, t)).val, present)

Magnitude(n) == IF n < 0 THEN -n ELSE n
ValueOf(fact) == IF fact = None THEN None ELSE fact.val
Values(series) == [i \in DOMAIN series |-> series[i].val]

\* build_statement_snapshot: what it says of a field of the payload, None for
\* UNKNOWN.  A history of less than three years is none.
PayloadUpdate(facts, field) ==
  CASE field \in {"net_income", "equity", "eps"} -> ValueOf(LatestFact(facts, FieldTags[field]))
    [] field = "net_interest_expense" ->
         LET fact == LatestFact(facts, FieldTags.interest_expense)
         IN IF fact = None THEN None ELSE Magnitude(fact.val)
    [] field = "intangible_assets"    -> IntangibleAssets(facts)
    [] field = "earnings_history"     ->
         LET series == AnnualSeries(facts, FieldTags.net_income, 5)
         IN IF Len(series) >= 3 THEN Values(series) ELSE None
    [] field = "capex_history_3y"     ->
         LET series == AnnualSeries(facts, FieldTags.capex, 3)
         IN IF series = <<>> THEN None ELSE [i \in DOMAIN series |-> Magnitude(series[i].val)]
    [] OTHER                          -> None

SecFields == {"net_income", "equity", "eps", "net_interest_expense", "intangible_assets",
              "earnings_history", "capex_history_3y"}

SnapshotStatus(facts) ==
  IF \A f \in SecFields : PayloadUpdate(facts, f) = None THEN "UNKNOWN" ELSE "PASS_WITH_LIMITATIONS"
=============================================================================
