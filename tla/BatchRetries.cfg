\* One watchlist processed by two threads, and processed again after it ended,
\* raised or was killed.  Two failures: a task's method and its handler.
SPECIFICATION Spec
CONSTANTS
  t1 = t1
  t2 = t2
  Batch = batch
  NoConn = NoConn
  NoWorker = NoWorker
  Tickers = {t1, t2}
  Dates = {1}
  BatchDate = 1
  Watchlist <- TwoEntries
  Workers = {w1, w2}
  Requests = {}
  MaxFaults = 2
  MaxBatches = 2
  MaxKills = 1
SYMMETRY WorkerSymmetry
INVARIANTS
  TypeOK
  InFlightRowsArePrivate
  AcknowledgedIsDurable
  ReportIsFaithful
