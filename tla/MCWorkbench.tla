---------------------------- MODULE MCWorkbench -----------------------------
(* A small instance of Workbench for TLC. *)
EXTENDS WorkbenchInv

AllParts == {"evidence", "desk", "thesis", "comparison", "package", "release", "sensitivity",
             "journal", "payload"}
ComparisonOnly == {"comparison"}

\* Evidence
SomeNumbers == {-1, 0, 3}
Co(master, own, words, model) == [master |-> master, own |-> own, words |-> words, model |-> model]
Identity(pragmatic, warned, company) ==
  [pragmatic |-> pragmatic, warned |-> warned, company |-> company]
SomeIdentities ==
  {Identity(FALSE, FALSE, Co("non_financial", None, {}, "two_stage_fcf")),
   Identity(TRUE, TRUE, Co("non_financial", None, {}, "two_stage_fcf")),
   Identity(FALSE, TRUE, Co("non_financial", None, {}, "two_stage_fcf")),
   Identity(FALSE, FALSE, Co(None, "non_financial", {"bank"}, "excess_returns")),
   Identity(FALSE, FALSE, Co("saas", "non_financial", {}, "two_stage_fcf")),
   Identity(FALSE, FALSE, Co(None, None, {"fund"}, "two_stage_fcf")),
   Identity(FALSE, FALSE, Co("pharma", "non_financial", {}, "two_stage_fcf")),
   Identity(FALSE, FALSE, Co(None, None, {}, "affo_dcf"))}

\* Portfolio and watchlist
Row(ticker, weight, value, sector) ==
  [ticker |-> ticker, weight |-> weight, value |-> value, sector |-> sector, macro |-> {}]
SomeHoldings ==
  {<<Row(1, 6000, None, "tech"), Row(2, 40, None, "energy")>>,
   <<Row(1, None, 700, "tech"), Row(2, None, 200, "tech"), Row(Cash, 10, None, None)>>,
   <<Row(1, None, None, "tech"), Row(2, None, None, None), Row(Cash, None, 50, None)>>}
SomePriorities == {<<"ignore", "ignore">>}
\* What audit/audit_summary.py would write.
AuditFile(level, unknown, missing, degraded, type) ==
  LET status == A!ApplicabilityStatus(type)
      usage  == A!AllowedUsage(type)
  IN [level |-> level, unknown |-> unknown, missing |-> missing, degraded |-> degraded,
      type |-> type, status |-> status, usage |-> usage,
      risk |-> A!ConclusionRisk([level |-> level, unknown |-> unknown, degraded |-> degraded],
                                [type |-> type, status |-> status, usage |-> usage])]
SomeAudits ==
  {AuditFile("HIGH", 0, FALSE, FALSE, "standard_industrial"),
   AuditFile("MEDIUM", 1, FALSE, TRUE, "saas"),
   AuditFile("HIGH", 1, TRUE, FALSE, "standard_industrial"),
   AuditFile("MEDIUM", 3, FALSE, FALSE, "standard_industrial"),
   AuditFile("LOW", 4, TRUE, TRUE, "reit"),
   AuditFile("HIGH", 0, FALSE, FALSE, "fund_etf_excluded")}
SomeFindings == {0, 1}
SomeTheses == {"ON_TRACK", "WATCH"}

\* Theses
Rule(category, f, operator, threshold) ==
  [category |-> category, field |-> f, operator |-> operator, threshold |-> threshold]
TestedTheses ==
  {<<Rule("invalidation", "risk", "eq", "HIGH"), Rule("watch_metric", "score", "lt", 3),
     Rule("pillar", "margin", "gte", 1), Rule("pillar", None, None, None)>>,
   <<Rule("invalidation", "risk", "neq", "LOW"), Rule("watch_metric", "level", "in", {"LOW"}),
     Rule(None, "score", "gt", 1)>>,
   <<Rule("watch_metric", "score", "lte", 1), Rule("assumption", "margin", "gt", None)>>,
   <<Rule("invalidation", "level", "contains", "IG"), Rule("watch_metric", "risk", "not_contains", "OW"),
     Rule("watch_metric", "score", "lt", 3)>>}
SomeWithin(text, whole) == <<text, whole>> \in {<<"IG", "HIGH">>, <<"OW", "LOW">>}
ValuesInContext(f) == IF f \in {"risk", "level"} THEN {"LOW", "HIGH"} ELSE {1, 3}

\* Comparison
TwoAxes == <<<<"value", 1>>, <<"dividend", 1>>>>
SomeRuns ==
  {[results |-> [c \in {TwoAxes[1], TwoAxes[2]} |-> IF c = TwoAxes[1] THEN x ELSE y],
    hash |-> None, provider |-> p, missing |-> m, lineage |-> <<>>] :
     x \in {"PASS", "FAIL", "UNKNOWN"}, y \in {"PASS", "FAIL", "UNKNOWN"},
     p \in {"yfinance", "recorded"}, m \in {{}, {"fcf_estimates"}}}

\* Workflow package and release
SomeArtifacts ==
  {[unknown |-> u, missing |-> m, degraded |-> d] :
     u \in {0, 2}, m \in {{}, {"fcf_estimates"}}, d \in BOOLEAN}
SomeComponents == {"audit_summary", "business_risk", "sensitivity_summary", "investment_memo"}
SomeCapabilities == {{"engine"}, {"engine", "audit"}}
SomeIndexed == {"audit", "report"}
Scope(usage, commercial, reviewed) ==
  [usage |-> usage, commercial |-> commercial, external |-> FALSE, reviewed |-> reviewed]
SomeScopes ==
  {None, Scope("internal_personal_educational", FALSE, FALSE), Scope("commercial", TRUE, TRUE),
   Scope("internal_personal_educational", TRUE, FALSE)}
SomeRegistries ==
  {None} \cup
  {[yfinance |-> [type |-> "live_provider", status |-> s, required |-> TRUE],
    bonds |-> [type |-> "versioned_csv", status |-> b, required |-> TRUE]] :
     s \in {"implemented_optional", "unknown"}, b \in {"real_curated", "in_review", "missing"}}
SomeSources == {"yfinance", "bonds"}

\* Sensitivity
Company(type, growth) ==
  [company_type |-> type, levered_beta |-> 1, equity_risk_premium |-> 4, shares_outstanding |-> 1,
   ddm_growth |-> growth, excess_returns_growth |-> growth, stable_future_bve |-> 1]
SomeCompanies == {Company(t, g) : t \in {"bank", "other_financial"}, g \in {None, -1, 3}}
SomeDrivers(company) ==
  [discount_rate |-> {0, 1, 3, 5, 9}, long_run_growth |-> {0, 1, 2}, risk_free_rate |-> {1, 3}]
    @@ (IF company.company_type = "bank" THEN [current_bve |-> {1, 4}, stable_future_roe |-> {1, 6}]
        ELSE [expected_dps |-> {1}, fair_value |-> {2}])

\* Journal
SomeTypes == [w \in {"w1", "w2", "w3"} |-> IF w = "w3" THEN "buy" ELSE "research_deeper"]

\* Payload
Fact(tag, val, fy, filed) ==
  [tag |-> tag, val |-> val, fy |-> fy, filed |-> filed, end |-> fy, form |-> "10-K"]
SomeFilings(f) ==
  CASE f = "net_income" ->
         {Fact("NetIncomeLoss", 1000, 1, 1), Fact("NetIncomeLoss", 1003, 2, 2),
          Fact("NetIncomeLoss", 1100, 1, 3), Fact("ProfitLoss", 1100, 3, 3),
          [Fact("NetIncomeLoss", 1200, 2, 4) EXCEPT !.fy = None],
          [Fact("NetIncomeLoss", 1000, 3, 4) EXCEPT !.form = "10-Q"]}
    [] f = "earnings_history" ->
         {Fact("NetIncomeLoss", 1000, 1, 1), Fact("NetIncomeLoss", 1003, 2, 2),
          Fact("NetIncomeLoss", 1100, 3, 3)}
    [] f = "net_interest_expense" -> {Fact("InterestExpense", -1000, 1, 1)}
    [] f = "intangible_assets" ->
         {Fact("Goodwill", 1000, 1, 1), Fact("IntangibleAssetsNetExcludingGoodwill", 3, 1, 1)}
    [] f = "equity" ->
         {Fact("StockholdersEquityIncludingPortionAttributableToNoncontrollingInterest", 1003, 1, 1),
          Fact("StockholdersEquity", 1100, 2, 2)}
    [] f = "eps" -> {Fact("EarningsPerShareBasic", 1000, 1, 1)}
    [] f = "capex_history_3y" -> {Fact("PaymentsToAcquireProductiveAssets", -1000, 1, 1)}
    [] OTHER -> {}
SomeProvided(f) ==
  CASE f = "earnings_history" -> {None, <<1000, 1003, 1100>>, <<1000>>}
    [] f = "capex_history_3y" -> {None, <<1000>>, <<1100>>}
    [] f = "dps_history_10y" -> {None, <<6>>}
    [] f \in {"market_averages", "industry_averages"} -> {None}
    [] OTHER -> {None, 1000, 1100}
\* Rows of two aliases: an abandoned one that ends a year earlier, and none.
NoRows == [item \in N!Y!StatementItems |-> <<>>]
Snapshot(rows, closes, price) ==
  [rows |-> rows @@ NoRows, closes |-> closes, dividends |-> {},
   info |-> [price |-> price, shares |-> 1000, eps |-> 1100]]
SomeSnapshots(f) ==
  CASE f \in {"net_income", "earnings_growth", "eps"} ->
         {Snapshot([net_income |-> <<<<>>, y>>], <<>>, None) : y \in {<<>>, <<1100, 1000>>, <<500, 1100>>}}
    [] f = "intangible_assets" -> {Snapshot([intangible_assets |-> <<r>>], <<>>, None) : r \in {<<>>, <<1000>>}}
    [] f = "net_interest_expense" -> {Snapshot([interest_expense |-> <<r>>], <<>>, None) : r \in {<<>>, <<-1000>>, <<1100>>}}
    [] f = "capex_history_3y" ->
         {Snapshot([capital_expenditure |-> <<r>>], <<>>, None) : r \in {<<>>, <<-1000>>, <<5, 6, 7, -1100>>}}
    [] f \in {"equity", "roe"} ->
         {Snapshot([net_income |-> <<<<1000>>>>, equity |-> <<e>>, total_assets |-> <<<<2000>>>>,
                    total_liabilities |-> <<l>>], <<>>, None) : e \in {<<>>, <<1000>>}, l \in {<<>>, <<5, 900>>}}
    [] f = "price" -> {Snapshot(<<>>, c, p) : c \in {<<>>, <<1000, None>>, <<None, 1000>>}, p \in {None, 1100}}
    [] f = "dps_history_10y" ->
         {[Snapshot(<<>>, <<>>, None) EXCEPT !.dividends = d] :
            d \in {{}, {[year |-> y, day |-> q, amount |-> 3] : y \in 1..11, q \in 1..2}}}
    [] OTHER -> {Snapshot(<<>>, <<>>, None)}
Spec_(value, source) == [value |-> value, source |-> source, quality |-> "exact"]
SomeOverrides(f) ==
  IF f \in N!Series THEN {Spec_(<<7>>, "manual_override")}
  ELSE {Spec_(1003, "manual_override"), Spec_(1100, "analyst_desk"), Spec_(None, "manual_override")}
Yield(date, rate) == [date |-> date, rate |-> rate]
SomeExports ==
  {None, [rows |-> {Yield(None, 1000), Yield(3, None)}, ttl |-> 2],
   [rows |-> {Yield(1, 1000), Yield(9, 110000)}, ttl |-> 2],
   [rows |-> {Yield(6, 1100)}, ttl |-> 2]}
SomePremia ==
  {None, [value |-> 1000, as_of |-> 9, expires |-> 20, ttl |-> 2],
   [value |-> 1000, as_of |-> 3, expires |-> None, ttl |-> 2],
   [value |-> 1000, as_of |-> 9, expires |-> 9, ttl |-> 2]}
SomeAverages ==
  {[synthetic |-> s, market_averages |-> 1000, industry_averages |-> i, as_of |-> 3, ttl |-> t] :
     s \in BOOLEAN, i \in {None, 1100}, t \in {None, 20}}
Item(year, value) == [year |-> year, value |-> value, analysts |-> TRUE]
SomePacks ==
  {[template |-> FALSE, expires |-> e, review |-> r, items |-> i, value |-> 1100] :
     e \in {9, 12}, r \in {None, "draft", "reviewed"},
     i \in {None, <<Item(1, 5), Item(None, 6), Item(2, 7)>>, <<Item(2, 5), Item(1, 6)>>, <<Item(1, None)>>}}
=============================================================================
