SPECIFICATION Spec
CONSTANTS
  t1 = t1
  t2 = t2
  Batch = batch
  NoConn = NoConn
  NoWorker = NoWorker
  Tickers = {t1, t2}
  Dates = {1}
  BatchDate = 1
  Watchlist <- TwoEntries
  Workers = {w1, w2}
  Requests = {}
  MaxFaults = 1
  MaxBatches = 1
  MaxKills = 0
SYMMETRY WorkerSymmetry
INVARIANTS
  FailedTickerNeverStopsBatch
