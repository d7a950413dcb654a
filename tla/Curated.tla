------------------------------ MODULE Curated -------------------------------
(***************************************************************************)
(* What operators curate for a payload: bond yields and risk premia        *)
(* (rates/), averages (averages/injection.py), packs of analyst estimates  *)
(* (estimates/manual_pack.py), overrides (manual/overrides.py), and how    *)
(* old they may be (sources/staleness.py).  Dates are days, None for a     *)
(* date that is missing or unreadable.                                     *)
(*                                                                         *)
(* A cell is what the payload holds of a field: its value and, of its      *)
(* lineage, the provider, the quality and whether it is marked stale.      *)
(***************************************************************************)
EXTENDS Integers, FiniteSets, FiniteSetsExt, Sequences

CONSTANTS None,
          Today,        \* the valuation date
          Window,       \* the bond window: five years
          DefaultTtl    \* the days an average without a declared contract is fresh

Cell(value, provider, quality, stale) ==
  [value |-> value, provider |-> provider, quality |-> quality, stale |-> stale]

\* staleness_check: age is shown, never invented.
Stale(asOf, ttl) == asOf # None /\ ttl # None /\ Today - asOf > ttl

\* _normalize_decimal_rate, in ten-thousandths: more than 1 is read as percent.
NormalizeRate(raw) == IF raw > 10000 \/ raw < -10000 THEN raw \div 100 ELSE raw

\* build_curated_bond_csv_from_export: what is dated and rated, whatever its
\* review status.  None when there is no export.
CuratedBonds(export) ==
  IF export = None THEN None
  ELSE [obs |-> {[date |-> r.date, yield |-> NormalizeRate(r.rate)] :
                   r \in {x \in export.rows : x.date # None /\ x.rate # None}},
        ttl |-> export.ttl]

\* bond_10y_5y_average over observations [date, yield].
InWindow(obs) == {o \in obs : o.date <= Today /\ o.date >= Today - Window}
BondAverage(obs) ==
  IF InWindow(obs) = {} THEN None
  ELSE MapThenSumSet(LAMBDA o : o.yield, InWindow(obs)) \div Cardinality(InWindow(obs))

\* build_curated_rates_overrides: the override of a rate, None if it gives none.
\* The newest observation decides how stale the average is, whatever its window.
RiskFree(file) ==
  IF file = None \/ BondAverage(file.obs) = None THEN None
  ELSE Cell(BondAverage(file.obs), "curated_rates", "assumption",
            Stale(Max({o.date : o \in file.obs}), file.ttl))

EquityRiskPremium(file) ==
  IF file = None \/ (file.expires # None /\ Today > file.expires) \/ file.value = None THEN None
  ELSE Cell(file.value, "curated_rates", "assumption", Stale(file.as_of, file.ttl))

\* apply_averages_snapshot: a synthetic snapshot is refused, an industry without
\* an entry gets none, and what is there stays.
Averages(cell, field, snapshot) ==
  IF snapshot.synthetic \/ snapshot[field] = None \/ cell.value # None THEN cell
  ELSE Cell(snapshot[field], "curated_averages", "approximation",
            Stale(snapshot.as_of, IF snapshot.ttl = None THEN DefaultTtl ELSE snapshot.ttl))

\* _validate: dates and review are there, each item of a series has its value and
\* its analysts, where it needs them, and those with a year are in its order.
Chronological(items) ==
  \A i, j \in {k \in DOMAIN items : items[k].year # None} :
    i < j => items[i].year <= items[j].year
Valid(pack) ==
  /\ pack.expires # None /\ pack.review # None
  /\ pack.items # None =>
       /\ pack.items # <<>> /\ Chronological(pack.items)
       /\ \A i \in DOMAIN pack.items : pack.items[i].value # None /\ pack.items[i].analysts

Accepted(pack) ==
  ~pack.template /\ Valid(pack) /\ pack.review = "reviewed" /\ Today <= pack.expires

\* apply_estimates_pack
Estimates(cell, pack) ==
  IF ~Accepted(pack) \/ pack.value = None \/ cell.value # None THEN cell
  ELSE Cell(pack.value, "manual_estimates_pack", "assumption", FALSE)

\* merge_overrides: whatever was there, the value and the source of the
\* override, also none.
Override(spec) == Cell(spec.value, spec.source, spec.quality, FALSE)
=============================================================================
