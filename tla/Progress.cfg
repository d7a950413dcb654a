\* Fair scheduling, a failure and a kill.  A behaviour stops when the batch has
\* ended and the request is served.
SPECIFICATION FairSpec
CONSTANTS
  t1 = t1
  t2 = t2
  Batch = batch
  NoConn = NoConn
  NoWorker = NoWorker
  Tickers = {t1}
  Dates = {1}
  BatchDate = 1
  Watchlist <- SameTwice
  Workers = {w1}
  Requests = {r1}
  MaxFaults = 1
  MaxBatches = 1
  MaxKills = 1
CHECK_DEADLOCK FALSE
PROPERTIES
  BatchEnds
  WriteLockIsReturned
