------------------------------- MODULE LiveData ------------------------------
(***************************************************************************)
(* The EOD refresh and the dashboard bootstrap at the same time, over the  *)
(* one cache directory both use by default.                                *)
(***************************************************************************)
EXTENDS EodRefresh, Bootstrap

ASSUME TwoProcesses == Eod # Boot

vars == <<storeVars, cacheVars, eodVars, bootVars>>

Init ==
  /\ CacheInit
  /\ EodInit
  /\ BootInit
  /\ StoreInit
  /\ call = [a \in Actors |-> NewFrame("api", "upsert_instrument", "idle",
                                       CHOOSE t \in Tickers : TRUE, CHOOSE d \in Dates : TRUE)]

\* The refresh and a bootstrap share the cache only, so the refresh runs beside
\* a bootstrap that does not persist, and one that does runs alone.
EodActs  == ((StartEod /\ ~boot.persist) \/ EodStep) /\ UNCHANGED <<storeVars, bootVars>>
BootActs == (StartBoot \/ BootStep) /\ UNCHANGED eodVars

Next ==
  \/ EodActs
  \/ BootActs
  \/ KillEod /\ UNCHANGED <<storeVars, bootVars>>
  \/ KillBoot /\ UNCHANGED eodVars
  \/ Midnight /\ UNCHANGED <<storeVars, eodVars, bootVars>>

\* A process that was started runs; nobody has to start or to kill one.
Fairness ==
  /\ WF_vars(EodStep /\ UNCHANGED <<storeVars, bootVars>>)
  /\ WF_vars(BootStep /\ UNCHANGED eodVars)

Spec == Init /\ [][Next]_vars /\ Fairness

-----------------------------------------------------------------------------
(* What holds *)

\* In a live refresh a ticker that the refresh reports as PASS is analysed from
\* a snapshot fetched since the refresh began, in spite of the cache, of the
\* other process that fills it, and of midnight (ops/eod_refresh.py,
\* data/cache.py).  This needs a watchlist that names the refreshed files.
ReportedFreshIsFresh ==
  \A i \in EodEntries :
    /\ eod.live
    /\ outcomes[i].refresh = "PASS"
    /\ outcomes[i].batch = "PASS"
    /\ EodWatchlist[i] \in Refreshed
    => outcomes[i].day >= eod.date

\* A finished live refresh never passes over stale analyses in silence: when
\* more than a fifth of the list was analysed from older snapshots, the
\* monitor has an alert until another refresh writes the newest log
\* (ops/eod_refresh.py:92, ops/monitoring.py).
StaleAnalysesAreAlerted ==
  LET stale == {i \in EodEntries : /\ EodWatchlist[i] \in Refreshed
                                   /\ outcomes[i].batch = "PASS"
                                   /\ outcomes[i].day < eod.date}
  IN eod.phase = "done" /\ eod.live /\ 5 * Cardinality(stale) > Len(EodWatchlist)
       => MonitorAlerts # {}

\* What the bootstrap lists as succeeded is in the database, whatever the later
\* tickers do to the connection they share, and stays there when it is killed.
SucceededIsDurable ==
  boot.persist =>
    \A i \in BootEntries :
      results[i].status = "PASS" =>
        LET k == results[i].frame IN
        {InstrumentRow(k.ticker), SnapshotRow(k.sid, k.ticker),
         RunRow(k.rid, k.ticker, k.date, k.sid, "PASS"),
         OutputRow(k.rid, k.ticker, k.date, k.rowid), ChecksRow(k.rid, k.ticker, k.date)}
          \subseteq committed

L == INSTANCE StoreLedger WITH ledger <- committed

\* Rows that a failed ticker left in the transaction and the next ticker's
\* commit published are still a well-referenced, append-only extension.
BootstrapKeepsLedger == L!LedgerSpec

\* A torn cache entry or a leftover transaction stops nobody for good: a
\* bootstrap that was started closes its connection and returns the write lock,
\* a refresh ends with a log or an exception.
EveryRunEnds ==
  /\ boot.phase = "fetch" ~> (boot.phase \in {"done", "dead"} /\ writer = NoConn)
  /\ eod.phase = "refresh" ~> eod.phase \in {"done", "raised"}
=============================================================================
