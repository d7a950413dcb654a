---------------------------- MODULE LiveMapping -----------------------------
(***************************************************************************)
(* What the live payload makes of a yfinance snapshot                      *)
(* (providers/yfinance_mapper.py).  A snapshot is a record                 *)
(*   rows       statement item -> the rows its aliases name, in order; a   *)
(*              row is a function from years to values, and it has no year *)
(*              without a value, so two rows may end in different years    *)
(*   closes     the daily closes, None for one that is no number           *)
(*   info       quoted field -> value or None                              *)
(*   dividends  a set of [year, day, amount]                               *)
(* Ratios and growth are in thousandths.                                   *)
(***************************************************************************)
EXTENDS Integers, FiniteSets, FiniteSetsExt, Functions, Sequences, SequencesExt

CONSTANTS None

StatementItems == {"net_income", "interest_expense", "intangible_assets", "equity",
                   "total_assets", "total_liabilities", "capital_expenditure"}

\* The first alias with a row that says something.
Row(s, item) ==
  LET named == SelectSeq(s.rows[item], LAMBDA r : DOMAIN r # {})
  IN IF named = <<>> THEN <<>> ELSE named[1]

\* The members of a set of numbers, the least first.
Ascending(S) == [i \in 1..Cardinality(S) |-> CHOOSE x \in S : Cardinality({y \in S : y <= x}) = i]

\* _table_latest_value and _table_series
LatestValue(s, item) == LET row == Row(s, item) IN IF DOMAIN row = {} THEN None ELSE row[Max(DOMAIN row)]
TableSeries(s, item) ==
  LET row == Row(s, item)
  IN [i \in 1..Cardinality(DOMAIN row) |-> row[Ascending(DOMAIN row)[i]]]

\* _latest_from_history, else what is quoted.
Price(s) == IF s.closes = <<>> \/ Last(s.closes) = None THEN s.info.price ELSE Last(s.closes)

\* _annual_dividends: a sum for each year with a payment, of the last ten.
AnnualDividends(s) ==
  LET years == Ascending({d.year : d \in s.dividends})
      sums  == [i \in DOMAIN years |->
                  MapThenSumSet(LAMBDA d : d.amount, {d \in s.dividends : d.year = years[i]})]
  IN SubSeq(sums, IF Len(sums) > 10 THEN Len(sums) - 9 ELSE 1, Len(sums))

Thousandths(n, d) == IF d > 0 THEN (1000 * n) \div d ELSE -((1000 * n) \div (-d))

\* _growth_from_series: over the last year, if neither its base nor the oldest
\* value is zero.
GrowthFromSeries(series) ==
  LET n == Len(series)
  IN IF n < 2 THEN None
     ELSE IF series[1] = 0 \/ series[n - 1] = 0 THEN None
     ELSE Thousandths(series[n] - series[n - 1], series[n - 1])

\* What the balance sheet says, or assets less liabilities, whatever their years.
Equity(s) ==
  LET own         == LatestValue(s, "equity")
      assets      == LatestValue(s, "total_assets")
      liabilities == LatestValue(s, "total_liabilities")
  IN CASE own # None                                                   -> own
       [] own = None /\ assets # None /\ liabilities # None            -> assets - liabilities
       [] OTHER                                                        -> None

\* Earnings per share, as quoted where they cannot be calculated.
Eps(s) ==
  LET income == LatestValue(s, "net_income")
  IN IF s.info.shares \in {None, 0} \/ income = None THEN s.info.eps
     ELSE Thousandths(income, s.info.shares)

Roe(s) ==
  LET income == LatestValue(s, "net_income")
  IN IF income = None \/ Equity(s) = None THEN None
     ELSE IF Equity(s) <= 0 THEN None ELSE Thousandths(income, Equity(s))

OrNone(series) == IF series = <<>> THEN None ELSE series

\* The last three capital expenses, as outflows.
CapexHistory(s) ==
  LET series == TableSeries(s, "capital_expenditure")
      n      == Len(series)
      abs(x) == IF x < 0 THEN -x ELSE x
  IN [i \in 1..(IF n > 3 THEN 3 ELSE n) |-> abs(series[n - (IF n > 3 THEN 3 ELSE n) + i])]

\* map_yfinance_snapshot_to_input_payload, None for PROVIDER_LIMITATION.
MappedValue(s, field) ==
  CASE field = "price"                                -> Price(s)
    [] field \in {"net_income", "intangible_assets"}  -> LatestValue(s, field)
    [] field = "net_interest_expense"                 ->
         LET cost == LatestValue(s, "interest_expense")
         IN IF cost = None THEN None ELSE IF cost < 0 THEN -cost ELSE cost
    [] field = "equity"                               -> Equity(s)
    [] field = "eps"                                  -> Eps(s)
    [] field = "roe"                                  -> Roe(s)
    [] field = "earnings_growth"                      -> GrowthFromSeries(TableSeries(s, "net_income"))
    [] field = "capex_history_3y"                     -> OrNone(CapexHistory(s))
    [] field = "dps_history_10y"                      -> OrNone(AnnualDividends(s))
    [] OTHER                                          -> None
=============================================================================
