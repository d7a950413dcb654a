----------------------------- MODULE EodRefresh ------------------------------
(***************************************************************************)
(* ops/eod_refresh.py: run_eod_refresh in its two modes, the log it leaves *)
(* per date, and ops/monitoring.py, which reads the newest log.            *)
(*                                                                         *)
(* The batch is Persistence; here it is one step per ticker that loads the *)
(* snapshot the watchlist names, and the counts of the runs rows that its  *)
(* report has, those of earlier batches of the date included.              *)
(***************************************************************************)
EXTENDS SnapshotCache, Sequences

CONSTANTS Eod,          \* the process of the refresh
          EodWatchlist, \* its tickers
          Refreshed,    \* those whose snapshot_path lies in recorded_out_dir
          MaxRuns       \* bound: how often the refresh is run

ASSUME EodIsAProcess == Eod \in Procs
ASSUME EodWatchlistAssumption == EodWatchlist \in Seq(Tickers) /\ Refreshed \subseteq Tickers
ASSUME MaxRunsIsNat == MaxRuns \in Nat

VARIABLES eod,       \* where the refresh is
          recorded,  \* per ticker, the snapshot file the watchlist names
          outcomes,  \* per entry: the refresh's verdict, the batch's, the snapshot's day
          rows,      \* per date, the runs rows by status
          log        \* per date, the log file

eodVars == <<eod, recorded, outcomes, rows, log>>

BatchStatuses == {"PASS", "FAIL", "SKIPPED"}
NoRows == [s \in BatchStatuses |-> 0]
NoOutcome == [refresh |-> "none", batch |-> "none", day |-> 0]
NoLog == [state |-> "absent", alerts |-> {}]

\* A missing or torn log counts as a reason to look (NO_EOD_LOG_FOUND,
\* UNREADABLE_EOD_LOG); the newest log is the last file name.
MonitorAlerts ==
  LET dates == {d \in Dates : log[d].state # "absent"} IN
  IF dates = {} THEN {"no log"}
  ELSE LET last == CHOOSE d \in dates : \A x \in dates : x <= d
       IN IF log[last].state = "torn" THEN {"unreadable"} ELSE log[last].alerts

Entry == EodWatchlist[eod.at]
EodEntries == 1..Len(EodWatchlist)

\* fail_count / total > 0.2
Alarming(fails, total) == 5 * fails > total

\* A pass over an empty watchlist is over at once.
Pass(phase, next) == IF EodWatchlist = <<>> THEN next ELSE phase

\* The end of a pass over the watchlist.
Advance(phase, next) ==
  IF eod.at < Len(EodWatchlist) THEN [eod EXCEPT !.phase = phase, !.at = @ + 1]
  ELSE [eod EXCEPT !.phase = next, !.at = 1]

RefreshFails == Cardinality({i \in EodEntries : outcomes[i].refresh = "FAIL"})
BatchTotal == rows[eod.date]["PASS"] + rows[eod.date]["FAIL"] + rows[eod.date]["SKIPPED"]

\* Wrong variant: the last check replaces the alerts of the first.
BatchAlertsOnly(alerts) ==
  IF Alarming(rows[eod.date]["FAIL"], BatchTotal) THEN {"batch"} ELSE {}

BatchAlerts(alerts) ==
  IF Alarming(rows[eod.date]["FAIL"], BatchTotal) THEN alerts \cup {"batch"} ELSE alerts

StartEod ==
  /\ eod.phase \in {"idle", "done", "raised"}
  /\ eod.runs < MaxRuns
  /\ \E live \in BOOLEAN :
       eod' = [phase |-> IF live THEN Pass("refresh", "check") ELSE Pass("batch", "alert"),
               at |-> 1, live |-> live, date |-> today, alerts |-> {}, runs |-> eod.runs + 1]
  /\ outcomes' = [i \in EodEntries |-> NoOutcome]
  /\ UNCHANGED <<cacheVars, recorded, rows, log>>

\* refresh_recorded_snapshots_from_yfinance, one ticker: fetch, save, report.
EodFetch ==
  /\ eod.phase = "refresh"
  /\ BeginFetch(Eod, Entry)
  /\ UNCHANGED eodVars

OpenRecorded ==
  /\ eod.phase = "refresh"
  /\ fetch[Eod].step = "got"
  /\ recorded' = IF Entry \in Refreshed THEN [recorded EXCEPT ![Entry] = TornBy(Eod)]
                 ELSE recorded
  /\ eod' = [eod EXCEPT !.phase = "saving"]
  /\ UNCHANGED <<cacheVars, outcomes, rows, log>>

CloseRecorded ==
  /\ eod.phase = "saving"
  /\ recorded' = IF Entry \in Refreshed
                 THEN [recorded EXCEPT ![Entry] = WholeFile(fetch[Eod].day, Eod)]
                 ELSE recorded
  /\ outcomes' = [outcomes EXCEPT ![eod.at].refresh = "PASS"]
  /\ eod' = Advance("refresh", "check")
  /\ Taken(Eod)
  /\ UNCHANGED <<today, entry, refresh, rows, log>>

\* The fetch or the save raised: this ticker alone fails.
RefreshFailed ==
  /\ \/ eod.phase = "refresh" /\ fetch[Eod].step = "failed"
     \/ eod.phase = "saving"
  /\ outcomes' = [outcomes EXCEPT ![eod.at].refresh = "FAIL"]
  /\ eod' = Advance("refresh", "check")
  /\ Taken(Eod)
  /\ UNCHANGED <<today, entry, refresh, recorded, rows, log>>

CheckRefresh ==
  /\ eod.phase = "check"
  /\ eod' = [eod EXCEPT !.phase = Pass("batch", "alert"),
                        !.alerts = IF Alarming(RefreshFails, Len(EodWatchlist))
                                   THEN @ \cup {"live snapshot"} ELSE @]
  /\ UNCHANGED <<cacheVars, recorded, outcomes, rows, log>>

\* One ticker of the batch: its file is missing, cannot be read, or is
\* analysed, which may fail.
BatchTicker ==
  LET file == recorded[Entry] IN
  /\ eod.phase = "batch"
  /\ \E status \in CASE file.state = "absent" -> {"SKIPPED"}
                     [] file.state = "torn"   -> {"FAIL"}
                     [] file.state = "whole"  -> {"PASS", "FAIL"} :
       /\ outcomes' = [outcomes EXCEPT ![eod.at].batch = status, ![eod.at].day = file.day]
       /\ rows' = [rows EXCEPT ![eod.date][status] = @ + 1]
  /\ eod' = Advance("batch", "alert")
  /\ UNCHANGED <<cacheVars, recorded, log>>

\* run_batch raises: no log is written (Persistence says when).
BatchRaised ==
  /\ eod.phase = Pass("batch", "alert")
  /\ eod' = [eod EXCEPT !.phase = "raised"]
  /\ UNCHANGED <<cacheVars, recorded, outcomes, rows, log>>

OpenLog ==
  /\ eod.phase = "alert"
  /\ log' = [log EXCEPT ![eod.date] = [state |-> "torn", alerts |-> {}]]
  /\ eod' = [eod EXCEPT !.phase = "logging", !.alerts = BatchAlerts(@)]
  /\ UNCHANGED <<cacheVars, recorded, outcomes, rows>>

\* Of the log only what the monitor makes of it is kept: the alerts, and those
\* it derives from the reports again, which are the same.
CloseLog ==
  /\ eod.phase = "logging"
  /\ log' = [log EXCEPT ![eod.date] = [state |-> "whole", alerts |-> eod.alerts]]
  /\ eod' = [eod EXCEPT !.phase = "done"]
  /\ UNCHANGED <<cacheVars, recorded, outcomes, rows>>

\* The process dies; what it was writing stays torn.
KillEod ==
  /\ eod.phase \notin {"idle", "done", "raised"}
  /\ eod' = [eod EXCEPT !.phase = "raised"]
  /\ Taken(Eod)
  /\ UNCHANGED <<today, entry, refresh, recorded, outcomes, rows, log>>

EodStep ==
  \/ EodFetch \/ OpenRecorded \/ CloseRecorded \/ RefreshFailed \/ CheckRefresh
  \/ BatchTicker \/ BatchRaised \/ OpenLog \/ CloseLog
  \/ FetchStep(Eod) /\ UNCHANGED eodVars

\* Snapshots recorded before the first date may be there.
EodInit ==
  /\ eod = [phase |-> "idle", at |-> 1, live |-> FALSE, date |-> 0, alerts |-> {}, runs |-> 0]
  /\ recorded \in [Tickers -> {Absent, [Absent EXCEPT !.state = "whole"]}]
  /\ outcomes = [i \in EodEntries |-> NoOutcome]
  /\ rows = [d \in Dates |-> NoRows]
  /\ log = [d \in Dates |-> NoLog]
=============================================================================
