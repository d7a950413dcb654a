\* A refresh and a bootstrap that share the cache, across one midnight.
SPECIFICATION Spec
CONSTANTS
  t1 = t1
  Batch = batch
  NoConn = NoConn
  NoProc = NoProc
  Eod = eod
  Boot = boot
  Procs = {eod, boot}
  MayRefresh = {boot}
  Tickers = {t1}
  Dates = {1, 2}
  Workers = {}
  Requests = {boot}
  MaxFaults = 1
  EodWatchlist <- OneTicker
  Refreshed = {t1}
  BootTickers <- SameTwice
  MaxRuns = 1
INVARIANTS
  LiveInv
  ReportedFreshIsFresh
  StaleAnalysesAreAlerted
  SucceededIsDurable
PROPERTIES
  BootstrapKeepsLedger
  EveryRunEnds
CHECK_DEADLOCK FALSE
