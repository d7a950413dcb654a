\* The batch and one API request for the same ticker, of either date, contend for
\* the write lock.
SPECIFICATION Spec
CONSTANTS
  t1 = t1
  t2 = t2
  Batch = batch
  NoConn = NoConn
  NoWorker = NoWorker
  Tickers = {t1}
  Dates = {1, 2}
  BatchDate = 1
  Watchlist <- SameTwice
  Workers = {w1, w2}
  Requests = {r1}
  MaxFaults = 1
  MaxBatches = 1
  MaxKills = 0
SYMMETRY WorkerSymmetry
INVARIANTS
  BatchInv
PROPERTIES
  ImplementsLedger
  NewOutputBecomesLatest
