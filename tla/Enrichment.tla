----------------------------- MODULE Enrichment -----------------------------
(***************************************************************************)
(* How one field of a payload comes by its value: built from a provider or *)
(* a recorded snapshot, enriched with estimates, averages and SEC filings, *)
(* overridden by an operator.  The commands write and read payload files,  *)
(* so after the build they run in any order and more than once: a research *)
(* chain over an overridden payload merges the SEC updates again, and in   *)
(* the meantime the company files more and the updates are refreshed.      *)
(* The fields do not depend on each other here.                            *)
(***************************************************************************)
EXTENDS Integers, FiniteSets, FiniteSetsExt, Functions, Sequences, SequencesExt

CONSTANTS None, Today, Window, DefaultTtl,
          Snapshots(_),   \* what yfinance may say, as far as it matters for a field
          Provided(_),    \* what a recorded snapshot may have for a field
          BondExports, PremiumFiles, AverageFiles, Packs, Overrides(_),
          Filings(_),     \* what the company may file, as far as it matters for a field
          MaxFilings

VARIABLES field,      \* the field that is looked at
          cell,       \* what the payload has of it
          conflicts,  \* payload["source_conflicts"], its records of the field
          facts,      \* what the company has filed
          updates     \* the SEC updates file: [value], or None without a file

enrichmentVars == <<field, cell, conflicts, facts, updates>>

S == INSTANCE SecFilings
C == INSTANCE Curated
Y == INSTANCE LiveMapping

Series    == {"earnings_history", "capex_history_3y", "dps_history_10y"}
Quoted    == {"price", "roe"}
Estimated == {"earnings_growth"}
Averaged  == {"market_averages", "industry_averages"}
Rate      == {"risk_free_rate_10y_5y_avg", "equity_risk_premium"}

-----------------------------------------------------------------------------
(* Conflicts *)

\* Wrong variant: official filings come first.
FilingsFirst == <<"sec_companyfacts", "manual_override", "manual_estimates_pack",
                  "curated_rates", "curated_averages", "yfinance">>

\* The precedence of config/source_registry.yaml, as DEFAULT_PRECEDENCE.
Precedence == <<"manual_override", "manual_estimates_pack", "sec_companyfacts",
                "curated_rates", "curated_averages", "yfinance">>

Rank(source) == CHOOSE i \in DOMAIN Precedence : Precedence[i] = source

\* resolve_precedence: None when no rule covers the pair.
ResolvePrecedence(a, b) ==
  IF {a, b} \subseteq Range(Precedence) THEN IF Rank(a) <= Rank(b) THEN a ELSE b ELSE None

\* Of a cell without lineage, the provider profile of the payload.
Source(c) == IF c.provider = None THEN "yfinance" ELSE c.provider

\* _relative_diff, in thousandths of the greater magnitude.
RelativeDiff(a, b) ==
  LET greater == Max({S!Magnitude(a), S!Magnitude(b)})
  IN IF greater = 0 THEN 0 ELSE (1000 * S!Magnitude(a - b)) \div greater

\* _values_conflict, with a tolerance of half a percent; lists have none.
ValuesConflict(a, b) ==
  IF field \in Series THEN a # b ELSE 1000 * S!Magnitude(a - b) > 5 * Max({S!Magnitude(a), S!Magnitude(b)})

Record(base, sec, resolution) ==
  [base |-> base.value, provider |-> Source(base), sec |-> sec, resolution |-> resolution]

\* build_conflict_report; more than 5 percent apart is material.
Material(r) == field \notin Series /\ RelativeDiff(r.base, r.sec) > 50
ConflictReport(records) ==
  CASE \E r \in records : r.resolution = "unresolved" -> "FAIL"
    [] records # {} /\ \A r \in records : r.resolution # "unresolved" ->
         IF \E r \in records : Material(r) THEN "MATERIAL_REVIEW_REQUIRED" ELSE "RESOLVED_BY_PRECEDENCE"
    [] OTHER -> "PASS"

-----------------------------------------------------------------------------
(* Building *)

\* map_yfinance_snapshot_to_input_payload, with the curated rates as overrides.
LiveCell(value, rate) ==
  CASE rate # None                       -> rate
    [] rate = None /\ value # None       -> C!Cell(value, "yfinance", "approximation", FALSE)
    [] OTHER                             -> C!Cell(None, "yfinance", "missing", FALSE)

\* build_company_payload: the averages always replace what the snapshot has, a
\* rate and the burn when there is one, an override everything.  An industry
\* without averages gets an empty table, 0, not none.
RecordedCell(value, averages, rate, burn, override) ==
  LET present == SelectSeq(<<burn, rate, averages, value>>, LAMBDA x : x # None)
      first   == IF present = <<>> THEN None ELSE present[1]
  IN C!Cell(IF override = None THEN first ELSE override.value, None, "approximation", FALSE)

\* burn_inputs_from_snapshot: a burn when capital expenses exceed the cash flow.
Burn(cashFlow, capex) ==
  IF cashFlow = None \/ capex = None \/ cashFlow >= S!Magnitude(capex) THEN None
  ELSE S!Magnitude(capex) - cashFlow

RateCells == {C!RiskFree(C!CuratedBonds(x)) : x \in BondExports} \cup {C!EquityRiskPremium(f) : f \in PremiumFiles}

Built ==
  LET rates    == IF field \in Rate THEN RateCells \cup {None} ELSE {None}
      averages == IF field \in Averaged THEN {IF f[field] = None THEN 0 ELSE f[field] : f \in AverageFiles} ELSE {None}
      burns    == IF field = "annual_free_cash_burn"
                  THEN {Burn(flow, capex) : flow \in Provided(field), capex \in Provided(field)} ELSE {None}
  IN {LiveCell(Y!MappedValue(s, field), r) : s \in Snapshots(field), r \in rates}
       \cup {RecordedCell(v, a, IF r = None THEN None ELSE r.value, b, o) :
               v \in Provided(field), a \in averages, r \in rates, b \in burns, o \in Overrides(field) \cup {None}}

Fields == S!SecFields \cup Series \cup Quoted \cup Estimated \cup Averaged \cup Rate
            \cup {"annual_free_cash_burn"}

EnrichmentInit ==
  /\ field \in Fields
  /\ cell \in Built
  /\ conflicts = {}
  /\ facts = {}
  /\ updates = None

-----------------------------------------------------------------------------
(* Enriching *)

InjectEstimates ==
  /\ field \in Estimated
  /\ \E pack \in Packs : cell' = C!Estimates(cell, pack)
  /\ UNCHANGED <<field, conflicts, facts, updates>>

InjectAverages ==
  /\ field \in Averaged
  /\ \E snapshot \in AverageFiles : cell' = C!Averages(cell, field, snapshot)
  /\ UNCHANGED <<field, conflicts, facts, updates>>

MergeOverride ==
  /\ \E spec \in Overrides(field) : cell' = C!Override(spec)
  /\ UNCHANGED <<field, conflicts, facts, updates>>

\* The company files another statement.
File ==
  /\ Cardinality(facts) < MaxFilings
  /\ \E f \in Filings(field) \ facts : facts' = facts \cup {f}
  /\ UNCHANGED <<field, cell, conflicts, updates>>

\* refresh_sec_financials for the ticker, with the facts it fetches.
RefreshSec ==
  /\ updates' = [value |-> S!PayloadUpdate(facts, field)]
  /\ UNCHANGED <<field, cell, conflicts, facts>>

SecCell(value) == C!Cell(value, "sec_companyfacts", "exact", FALSE)

\* Wrong variant: a gap of the filing is merged like a value.
MergeGaps ==
  /\ updates # None
  /\ cell' = IF updates.value = None THEN C!Cell(None, "sec_companyfacts", "missing", FALSE) ELSE SecCell(updates.value)
  /\ UNCHANGED <<field, conflicts, facts, updates>>

\* apply_sec_payload_updates with the updates of the same ticker.
MergeSec ==
  /\ updates # None
  /\ updates.value # None
  /\ LET sec      == updates.value
         conflict == cell.value # None /\ ValuesConflict(cell.value, sec)
         winner   == ResolvePrecedence("sec_companyfacts", Source(cell))
         record(resolution) == conflicts' = conflicts \cup {Record(cell, sec, resolution)}
     IN \/ /\ ~conflict
           /\ cell' = SecCell(sec)
           /\ UNCHANGED conflicts
        \/ /\ conflict
           /\ winner = None
           /\ cell' = C!Cell(None, "conflict_detector", "missing", FALSE)
           /\ record("unresolved")
        \/ /\ conflict
           /\ winner = "sec_companyfacts"
           /\ cell' = SecCell(sec)
           /\ record("sec_precedence")
        \/ /\ conflict
           /\ winner \notin {None, "sec_companyfacts"}
           /\ record(winner)
           /\ UNCHANGED cell
  /\ UNCHANGED <<field, facts, updates>>

EnrichmentStep ==
  \/ InjectEstimates \/ InjectAverages \/ MergeOverride
  \/ File \/ RefreshSec \/ MergeSec

-----------------------------------------------------------------------------
(* What holds *)

OverrideSources == {spec.source : spec \in Overrides(field)}

\* A value that is there is blanked or changed by more than the tolerance only
\* by an override, or under a conflict record of both values that the conflict
\* report shows (sec/payload_merge.py, sources/conflict_detector.py).
FigureChangesOnRecord ==
  cell.value # None /\ cell'.value # cell.value =>
    \/ cell'.provider \in OverrideSources
    \/ cell'.value # None /\ ~ValuesConflict(cell.value, cell'.value)
    \/ /\ \E r \in conflicts' :
            r.base = cell.value /\ (IF cell'.value = None THEN r.resolution = "unresolved"
                                    ELSE r.sec = cell'.value /\ r.resolution = "sec_precedence")
       /\ ConflictReport(conflicts') # "PASS"

\* While the lineage of a value is that of an override, filings, packs and
\* averages leave it alone but for the tolerance (config/source_registry.yaml).
OperatorOutranksFiling ==
  cell.provider = "manual_override" /\ cell.value # None =>
    \/ cell'.provider \in OverrideSources
    \/ cell'.value # None /\ ~ValuesConflict(cell.value, cell'.value)

\* Another filing, an amendment of an old year or one without a year included,
\* never moves a statement back to an earlier fiscal year of the same tag, and
\* never takes a year from a history of the same tag (sec/xbrl_tag_resolver.py).
AmendmentRewindsNothing ==
  LET tags == S!FieldTags.net_income
  IN /\ S!Used(facts, tags) # {} /\ S!TagOf(facts, tags)' = S!TagOf(facts, tags)
          => S!Year(S!LatestFact(facts, tags)') >= S!Year(S!LatestFact(facts, tags))
     /\ S!Usable(facts, tags) # {} /\ S!SeriesTag(facts, tags)' = S!SeriesTag(facts, tags)
          => Len(S!AnnualSeries(facts, tags, 5)') >= Len(S!AnnualSeries(facts, tags, 5))
=============================================================================
