# TLA+ models of the SWS snowflake engine

The program computes a five-axis score for listed companies from recorded or
live data, stores the results in SQLite, audits them and writes research
artifacts. This directory holds TLA+ models of its core, the TLC runs that check
them, and TLAPS proofs about them. Paths below are relative to
`src/src/sws_engine/` unless they start with `src/`.

## 1. The system

| Component | State | Operations | Interacts with |
|---|---|---|---|
| Store, schema (`db/store.py`, `db/schema.py`) | one SQLite file: instruments, input_snapshots, runs, outputs, checks, averages; per connection an open transaction | upsert_instrument, save_input_snapshot, create_run, save_output, save_averages_snapshot; latest, screener, batch_report | used by everything that persists |
| Batch runner (`orchestration/batch.py`) | a thread pool, one shared connection, one `threading.Lock` | run_batch, _process_ticker | store, payload pipeline, engine |
| API (`api/`) | a connection per request | persisted and live analyses, read views, operations | store, engine, artifacts |
| EOD refresh (`ops/eod_refresh.py`) | log file per date | refresh snapshots, run the batch, alert | batch, live provider |
| Dashboard bootstrap (`ops/real_dashboard_bootstrap.py`) | one adapter for all tickers | record, analyse and persist each ticker | store, live provider |
| Artifact index (`db/artifacts.py`) | table of files per run and kind | register_artifact, register_paths, latest_artifact | research, API, memo |
| Research (`research/`) | run folder, statuses of nine steps; decision journal (JSONL) | run_research_company, thesis, run comparison, watchlist, workflow package, journal | everything above |
| Snapshot cache, providers (`data/cache.py`, `providers/`) | JSON files with a time to live | get/put with metadata, live snapshot, degradation | network, EOD refresh |
| Payload pipeline (`orchestration/payload_builder.py`, `averages/`, `estimates/`, `manual/`, `sec/`, `sources/`, `rates/`) | none: a payload passes through | injections in a fixed order, conflicts, staleness | engine |
| Checks and scoring (`checks/`, `scoring/`) | none | three-valued checks, scores, coverage | engine, audit |
| Audit (`audit/`) | none | data confidence, model applicability, conclusion risk, missing inputs | research, API |
| Valuation, growth, sensitivity | none | model selection and floating-point formulas | engine |
| Portfolio audit, workflow package, release manifest (`audit/portfolio_audit.py`, `research/`, `release/`) | none: they read folders of artifacts | averages, concentration, review items, statuses, readiness | artifacts of every run |
| Portfolio analytics, identifier master, reporting, governance, dashboard, CLI, scripts | files | see `PROJECT.json` | |

What makes these parts correct, and what is hard about them:

- *Store, batch, API.* Threads share a connection; processes share a file; four
  transactions make one result; nothing is ever rolled back explicitly. What was
  acknowledged must be durable, rows must point to rows that exist, a failure of
  one ticker must not damage another, the newest output must win, and everything
  must end.
- *Artifacts and research.* Steps fail one by one and a later step reads what an
  earlier run left. No artifact of another run may pass for one of this run.
- *Cache, journal.* Files are written in place. A torn or outdated one must be
  recognised, two processes write the same file, and midnight may pass between
  any two steps.
- *Payload pipeline.* The precedence of sources and their lineage, whatever the
  order of the commands and however often one is repeated.
- *Checks, scoring, audit.* UNKNOWN must never pass for a result, and a gap in
  the data must lower the confidence and never raise it.
- *Desks* (portfolio audit, watchlist, thesis, comparison, package, release).
  They read files that arrive one by one. A missing one must never make a verdict
  look better, and two desks must not contradict each other.

`PROJECT.json` lists every component with its sources, and the hazards at the
lines where they bite.

## 2. What is modelled

| Module | Models | State |
|---|---|---|
| `Rows` | the rows of the schema as records, the queries batch_report and latest | none |
| `Store` | the writing methods over SQLite connections and transactions | committed, pending, writer, nextId, call, faults |
| `BatchRun` | run_batch and the pool's threads, repeats and kills | phase, next, task, lock, outcome, report, batches, kills |
| `ApiPersist` | API requests that persist a result | response |
| `StoreLedger` | abstract: an append-only, well-referenced set of rows | ledger |
| `Persistence` | batch and API over one store; the properties | all of the above |
| `PersistenceInv` | the inductive invariant | |
| `Persistence_proofs`, `Store_proofs` | the theorems; the lemmas about `Store` that they share with `LiveData` | |
| `MCPersistence` | instances for TLC | |
| `ArtifactIndex` | db/artifacts.py and the files it points to | artifacts, files, clock |
| `ResearchChain` | research/orchestrator.py: run_research_company; the properties | at, phase, status, failed, warned, run, stamp, resolved, inputs, package, outputs, holder |
| `ChainContract` | abstract: what a caller may conclude from the returned package | verdict, persisted |
| `ResearchChainInv`, `ResearchChain_proofs`, `MCResearchChain` | the inductive invariant, the theorems, the instances | |
| `SnapshotCache` | data/cache.py, the live fetch and its recorded files | today, entry, fetch, refresh |
| `EodRefresh` | ops/eod_refresh.py and ops/monitoring.py | eod, recorded, outcomes, rows, log |
| `Bootstrap` | ops/real_dashboard_bootstrap.py, over `Store` | boot, results |
| `LiveData` | refresh and bootstrap over one cache; the properties | all of the above |
| `LiveDataInv`, `LiveData_proofs`, `MCLiveData` | the inductive invariant, the theorems, the instance | |
| `Checks` | checks/ and scoring/: the 30 checks, the scores | none |
| `Valuation` | valuation/, growth/fundamentals.py: which model has a value | none |
| `Audit` | audit/data_confidence, model_applicability, conclusion_risk, audit_summary | none |
| `RiskSignals` | audit/risk_signals.py | none |
| `Evidence` | what reaches the four above, item by item | subject, evidence |
| `Portfolio`, `Watchlist`, `Thesis`, `Comparison` | audit/portfolio_audit.py, research/watchlist.py, thesis.py, run_comparison.py | none |
| `Workflow`, `Readiness` | research/workflow_package.py, release/manifest.py; sources/real_sources.py, governance/legal_scope.py | none |
| `Sensitivity` | sensitivity/: the scenarios of a valuation and its fragility | none |
| `Memo` | reporting/investment_memo.py: what the memo asks to review | none |
| `Journal` | research/journal.py | lines, open, recorder, tears, failures |
| `LiveMapping` | providers/yfinance_mapper.py | none |
| `Curated` | rates/, averages/injection.py, estimates/, manual/overrides.py, sources/staleness.py | none |
| `SecFilings` | sec/xbrl_tag_resolver.py, sec/statement_snapshot.py | none |
| `Enrichment` | how a field of the payload comes by its value: orchestration/payload_builder.py, sec/payload_merge.py, sources/conflict_detector.py | field, cell, conflicts, facts, updates |
| `Workbench` | evidence, payload, desks and journal; the properties | all of the above |
| `WorkbenchInv` | the inductive invariants of the parts | |
| `Evidence_proofs`, `Workbench_proofs`, `MCWorkbench` | the lemmas about evidence and audit; the theorems; the instance | |

**Data.** A row is a record with its table's name, its keys and its references.
JSON documents, scores and timestamps are left out, because none of the
properties tells them apart. UUIDs and rowids are numbers from one counter:
SQLite gives a new row the largest rowid plus one, so only their order matters.
All the checks rows of a run are one row.

**Methods.** A writing method is "insert" (the INSERTs), then "commit". Python opens
the transaction at the first INSERT and SQLite gives the connection the
file's only write lock there. Between the two steps any other actor may run.
Reads take no step of their own except the report, which is read when the pool
has ended. An actor inside a method has a frame in `call`: the block of code
around the call, the method, how far it is, and the arguments.

**Blocks.** `main` is run_batch (save_averages_snapshot), `try`, `except` and
`skip` are the parts of _process_ticker, `api` is save_company_output. The same four
calls in the same order (`NextOp`) make a result in `try` and in `api`.

**Failures.** `Busy`: another connection keeps the write lock beyond sqlite3's
timeout, which may happen at any INSERT while the lock is taken. `Fault`: a
statement or a commit raises for another reason; the transaction stays as it is,
or SQLite has rolled it back. `HalfOutput`: save_output raises between its
INSERTs and leaves an outputs row without checks in the open transaction.
`MaxFaults` bounds the last two; a failed payload or engine run and `Busy` are
not bounded. `KillBatch` and `ServerDies` end a process; SQLite rolls back.
`StartBatch` runs the batch again for the same date.

**The pool.** Entries leave a FIFO queue in the order of the watchlist. The
missing-snapshot branch and the try block are both possible for every entry: the
file may or may not exist. `AcquireLock` is `with lock:`; the lock is released
when the block ends, normally or not, and the except handler asks for it again.
ReportBatch and BatchRaises are what follows the `with ThreadPoolExecutor` block:
f.result() re-raises the exception of a future, after the pool has been joined.

**Research.** An execution goes through the nine steps of STEP_DEFINITIONS and
the report (`at`), and in each through "start", "writing" and "insert" (`phase`):
compute and open the file, complete it and draw created_at, insert the row.
Between these any other execution may step (`Overlap`), the process may die
(`Kill`), a file may be deleted by hand (`Delete`) or a second pass
(`TimePasses`). `Fault` is an exception of any kind, `Busy` the one that
another connection's write lock causes. What a step computes is a choice of the
statuses it can record (`Verdicts`). One ticker is enough because every query of
the index names one. Each producer's Markdown file is left out, but not the
failure between its two rows. The persist step is create_run and save_output;
its four methods are in `Store`. The thesis, decision and portfolio artifacts of
the memo come from other commands. A document is the number of the run it is
about, and `inputs` records what the memo was made from. The memo's look-ups are
separate steps from its loads, as in the code.

**Queries.** `BatchReport` and `Latest` (date, then rowid) are translated from the
SQL. The screener's query (the join with MAX(valuation_date)) is left out: with
two runs of one date it returns both, so nothing worth stating holds of it.

**Live data.** A cache file is opened (and torn from then on), then completed; a
process may die in between (`KillEod`, `KillBoot`), the disk may be full
(`WriteFails`), and when two processes had the same file open the result may be a
mixture. get_with_metadata parses the file before it looks at its age. The refresh
fetches, records and analyses ticker by ticker, and its batch is one step per
ticker here: `Persistence` has the details. The bootstrap saves through the same
`Store`, on one connection for all tickers. `Midnight` may come between any two
steps. Only what is recorded by the refresh (`Refreshed`) can be fresh for its
batch; a watchlist may name other files. The refresh and a bootstrap share
nothing but the cache, so one runs beside the other only when the bootstrap does
not persist; the runs of `Persistence` have the contention for the database.

**Evidence.** The checks, the valuation, the audit and the risk signals are pure:
the program computes them once, from everything it has. What can go wrong is a
difference between two computations, with less and with more data, which no
single call shows. So `Evidence` starts a subject (a check, a valuation, an audited
output, a group of signals) without data and gives it what it reads one item at a
time (`EvidenceStep`); a behaviour is an order in which a company's data become
available. The numbers are small integers around the thresholds. A ratio is
compared by cross-multiplication, a score of the audit is an exact fraction. The
valuation's formulas are floating point: a value is "computed" or None, and only
the comparison that can make a formula impossible, discount rate against growth,
keeps its numbers.

**Sensitivity.** For dividends and excess returns the value is a quotient with the
denominator rate - growth. `Sensitivity` computes it exactly: rates and growths
count steps of 50 basis points and values are multiples of 1/`Scale`, a number
that every difference occurring divides. The drivers arrive one by one
(`DriverMoves`), and the scenarios, deciles and levels of fragility follow.

**Choices.** A sort is the CHOOSE of a sorted enumeration (the queue of
`Watchlist`, the series of `SecFilings`), the newest filing the CHOOSE of one that
no other is later than, and the default of a missing field is `Over(given, nothing)`.
SortSeq, Permutations and `@@` compute the same in TLC, but the provers have no
definition of them. That the choice exists and does not depend on the order of the
files is proved.

**Desks.** Portfolio audit, watchlist, thesis, comparison, package and release read
artifacts that other commands wrote. Again the files arrive one by one and the
desk is an operator of those present. They share no state, so a behaviour of
`Workbench` is about one of them (`subject.part`); only the portfolio audit, the
watchlist and the memo look at the same files, because one property compares the three.

**Journal.** A decision is appended as one line. A write may stop part-way
(`TearRecord`), and whatever is appended next is glued to the torn line; or the command
fails after it, while it writes the record and its report (`FailArtifacts`). It is
then run again and knows nothing of its line, so the decision may be there twice.
Reading is strict: one line that cannot be parsed stops the whole reader, as in the code.

**Payload.** `Enrichment` follows one field: built live or from a recorded snapshot,
then enriched by the commands in any order and repeatedly, since they read and
write payload files, while the company files statements and amendments. One field
at a time is enough, as no injection reads another field of the payload. Lists,
figures, rates and averages differ in what may happen to them, so there is a field
of each kind, with the aliases, tags, signs and fallbacks of that field.

## 3. What the runs show

| Run | Instance | Shows |
|---|---|---|
| `BatchRetries` | 2 entries, 2 threads, 2 batches, 1 kill, 2 faults | `TypeOK`; `InFlightRowsArePrivate`; `AcknowledgedIsDurable`; `ReportIsFaithful` |
| `BatchAndApi` | 2 entries of one ticker, 2 threads, 1 request, 2 dates, 1 fault | `BatchInv`, the invariant of the proofs; `NewOutputBecomesLatest`; the refinement `ImplementsLedger` |
| `Progress` | 2 entries of one ticker, 1 thread, 1 request, 1 fault, 1 kill, fair | `BatchEnds`, `WriteLockIsReturned` |
| `Reruns` | 2 executions in sequence, 2 faults, 1 kill, 1 tick | `MemoOfOneRun` |
| `ChainOutcomes` | 2 in sequence, 1 fault, 1 limited verdict, 1 deleted file, fair | `StepsAreIsolated`, `ChainInv` (with `TypeOK` as its first conjunct), `ChainsEnd` |
| `OverlappingChains` | 2 at the same time, 1 fault | `NamedFilesOfTheirRun`; the refinement `ImplementsContract` |
| `LiveData` | 1 refreshed ticker, bootstrapped twice, 1 midnight, 1 fault, kills, fair | `LiveInv`, the invariant of the proofs; `ReportedFreshIsFresh`; `StaleAnalysesAreAlerted`; `SucceededIsDurable`; the refinement `BootstrapKeepsLedger`; `EveryRunEnds` |
| `Workbench` | every part below, 174,891 states | 19 properties, below |

The properties of `Workbench`, by part; `WorkbenchOK`, the invariant of the proofs, has
a conjunct for each:

| Part | Instance | Properties |
|---|---|---|
| checks | each of the 30 checks and each axis, fields of -1, 0 and 3 or absent | `KnownVerdictsStand` (only losses, for H5 and H6, and the dividend's gate and history take a verdict back), `ScoresAreBackedByData` (a point or a known check rests on every input of the comparison made) |
| valuation | every model, every input | `ValueIsLostOnlyBySwitches` |
| audit | 6 checks instead of 30, 8 identities | `RootCauseIsReported`, `AuditIsMonotone`, `LowRiskIsEarned` |
| sensitivity | a bank (excess returns) and a financial (dividends), without and with a growth of their own; rates, growths and payouts item by item | `LowFragilityIsEarned` |
| risk signals | every signal, fields of -1, 0 and 3 | `WeakStaysWeak` |
| portfolio, watchlist, memo | 3 holdings lists with and without weights, 2 tickers and cash, 6 audits | `MissingAuditsWeighWorst`, `ResearchableFirst`, `DesksAgree` |
| thesis | 4 theses of all categories and operators | `ThesisOnlySharpens` |
| comparison | 2 checks on 2 axes, every pair of runs | `ComparisonIsHonest` |
| package, release | 4 of 9 components; 2 groups of files, 4 scopes, every registry | `CleanPackagesHideNothing` |
| journal | 3 writers, one refused, 2 failures in a line or after it | `JournalKeepsDecisions` |
| payload | a field of each kind, up to 3 filings, one of them without a fiscal year | `FiguresChangeOnRecord`, `OperatorOutranksFilings`, `AmendmentsNeverRewind` |

The bounds are chosen so that the cases that matter occur: two threads and a
shared connection are enough for one to commit another's rows; two faults are
needed for a method and then its handler to fail; two batches for one to see the
rows of the other, one kill for a crash at any point; the connection
of a batch, that of a request and two dates for every order of draws and commits
of outputs. Two executions of
the research chain are enough for one to find what the other left; a tick or
none gives both orders of created_at and its ties.

In `LiveData` one refreshed ticker that the bootstrap lists twice is enough: cache
files of different tickers never meet, and the second item works on the
connection, and perhaps in the transaction, that the first one left (`MaxFaults`).
`Dates` are two, so one midnight may pass anywhere, and the entry of yesterday is
one day old, the time to live. `MaxRuns` is one: a second refresh finds what a
bootstrap has put in the cache, or an older recorded file, which `EodInit` allows
from the start.

In `Workbench` the numbers -1, 0 and 3 let the comparisons of the checks and signals
come out either way, and give zero denominators. `SomeChecks`
and `ManyUnknown` shrink the 30 checks and the 10 unknown ones that alarm in the
same way, `AlarmingUnknown` the 5 of the risk signals, `DpsYears` the ten years of
dividends; `ManyUnknownChecks` does the same for the unknown checks that the portfolio
audit and the watchlist count. The audits of the desks are made by `Audit` itself,
from six identities and levels, so that no desk reads an audit the program cannot
write. Rates of 0 to 9 and growths of 0 to 3 steps, moved by up to 2 and 1, bring every
scenario to either side of rate = growth; `Scale` is divisible by all of 1..12.
`MaxFilings` is three: a filing, a later one, and an amendment of the first, or
filings of two tags, or one that no year can be read from.
`MaxTears` is two, so that a torn line can be torn again, or a retry after it fail. `Today`, `Window` and
`DefaultTtl` are days and place each of the dated exports, premia, averages and
packs before, at or after a limit.

Four runs check a sentence of the repository that the code does not keep:

| Run | Sentence | What happens |
|---|---|---|
| `NeverStops` | "one failed ticker never stops the batch" (`orchestration/batch.py`) | create_run raises in the handler or the SKIPPED branch, f.result() re-raises in run_batch, there is no report |
| `MemoSkipped` | "if the audit step failed, the memo is honestly `SKIPPED`, never fabricated" (`src/docs/research_company_orchestrator.md`) | the memo is made from an earlier execution's audit summary; passing run_id to latest_artifact would prevent it |
| `UnknownChecks` | "`unknown_summary` lists ... the engine output's UNKNOWN check count" (same document) | the count reads a field the checks do not have and is always 0 |
| `CompareRuns` | "If a check becomes UNKNOWN, if the current artifact still contains UNKNOWN checks [...] the comparison returns `PASS_WITH_LIMITATIONS` with `RUN_COMPARISON_UNKNOWN_PRESERVED`" (`src/docs/run_comparison.md`) | an engine output names its checks by their number within an axis and has no count; checks of a later axis overwrite those of an earlier one, whose new UNKNOWN is not seen |

Five more things the runs met and no property asks for. A ticker of a batch can
end with both PASS and FAIL: create_run commits PASS, save_output raises, the handler
adds FAIL. The report of a batch counts the rows of earlier batches of the date,
so a repeated refresh divides by them too; this is why `StaleAnalysesAreAlerted` is
about the alert of the refresh and not of the batch. A torn line makes the whole
journal unreadable until somebody repairs it, so `JournalKeepsDecisions` promises
readability only as long as no line was torn; and a retry appends a decision again,
so it bounds the lines by the decisions and the failures. With excess returns, or with a growth
that the payload gives for its model, a valuation can be LOW or MEDIUM in fragility
while scenarios have no value, since only positive values enter the deciles, and
with excess returns the bear case can lie above the bull case; `LowFragilityIsEarned`
therefore asks this only of dividends that grow at the long-run rate. And a rate
or growth given as zero counts as missing in the scenarios but not in the valuation
(`get_num(...) or ...`), so that the base case of the range need not be the base
valuation. With a risk-free rate above the discount rate ten of the twelve scenarios
then have no value, the other two agree, and the valuation is LOW; the property
leaves a given zero out.

The code also lets an output be published without its checks rows (`HalfOutput`,
then the handler's commit). No document promises otherwise ("the output JSON is
authoritative"), so `WellReferenced` asks only that checks belong to an output.

**Fairness.** Liveness is checked with weak fairness of each thread's own steps
and of each request's: the operating system runs threads that can run. Nobody
has to send a request, repeat a batch or kill a process. A thread that waits for
the lock has weak fairness only; that is enough because every holder
releases it, and the queue is finite. A request that finds the write lock taken
may time out, so fairness never depends on who wins the lock. `Progress` has one
thread, so that a failure and a kill fit beside the request: a handler that found
the lock held would wait for its own thread. That two threads do not wait for each
other is the deadlock check of `BatchRetries` and `BatchAndApi`, which end only in
`Quiescent`. An execution of the research chain has weak fairness of its own
steps. `ChainOutcomes` runs them one after the other, since overlapping ones only
add time-outs, each of which is a step. In `Progress` and `ChainOutcomes` the
system really stops, so their deadlock check is off. The same holds of `LiveData`, when
every process has ended and no day is left, and of `Workbench`, when a subject has
all its evidence. In `LiveData` a process that was started has weak fairness of its
own steps, which end because a list of tickers is finite and every fetch and
every method ends or raises; nobody has to start or to kill one. `Workbench`
states no fairness: nothing promises that a file arrives.

## 4. What is proved

Every safety invariant and every action property that a passing run checks, and the
three refinements, are theorems: for all values of the constants that the named
assumptions allow. TLC checks the inductive invariants too (`BatchInv`, `ChainInv`,
`LiveInv`, `WorkbenchOK`) on the instances of section 3.

### The store, the batch and the API

`Persistence_proofs`, for every watchlist, pool, set of requests, tickers, dates and
bounds, under `DatesAreOrdered`, `SomeTicker`, `ActorsAreDistinct`, `MaxFaultsIsNat`
and `WatchlistAssumption`:

| Theorem | Statement |
|---|---|
| `TypeCorrect` | `Spec => []TypeOK` |
| `Invariance` | `Spec => []IInv` |
| `InFlightPrivate` | `Spec => []InFlightRowsArePrivate` |
| `StoreImplementsLedger` | `Spec => ImplementsLedger` |
| `RowidOrder` | `Spec => []RowidsFollowCommits` |
| `NewestIsLatest` | `Spec => NewOutputBecomesLatest` |
| `BatchInvariance` | `Spec => []BatchInv` |
| `Durability` | `Spec => []AcknowledgedIsDurable` |
| `FaithfulReport` | `Spec => []ReportIsFaithful` |

None of the properties is inductive; `IInv` adds, part by part, what the next one
needs:

1. `FramesOK`: which blocks make which calls.
2. `LockOK`: a pool thread is inside a method exactly when it holds the
   `threading.Lock`, and the main thread writes only before the pool exists. So two
   actors inside a method are on different connections (`MethodsExclusive`).
3. `TasksOK`: a working thread has an unsettled entry of its own.
4. `TransactionsOK`: hence a thread's rows stay in the transaction until it
   commits, and only the holder of the write lock has any.
5. `IdsOK`: ids and rowids are below the counter and no two actors have the same
   run id; `ProgressOK`: what a method committed is there for the next one.
6. `RowsOK`: keys are unique and references resolved, in the database and in what
   any connection would publish. The refinement of `StoreLedger` follows.

Every step is an INSERT, half an output, a commit, or a drop of transactions
(`StoreSteps`), and a step that inserts nothing treats frames in one of four ways
(`QuietFrames`); so the proofs of 5, 6 and of the rowids have few cases instead
of one per action. `LeftoversOK` says whose rows may be left in the batch's
transaction after a failure: those of a task whose handler is still to commit, or
of a future that raised. So the report of a batch without raised futures is read
from an empty transaction (`ReportStep`). `NewestIsLatest` needs `OneOutputOK`: a
block about to insert its second row has just committed, so a transaction never
publishes two outputs, and the one it publishes has the largest rowid.

### Research

`ResearchChain_proofs`, for every set of executions and directories and
all bounds, overlapping or not, under `MaxClockIsNat`, `ChainAssumption` and
`EngineOutputFinite`:

| Theorem | Statement |
|---|---|
| `ChainInvariance` | `Spec => []ChainInv` |
| `ChainTypeCorrect` | `Spec => []TypeOK` |
| `StepIsolation` | `Spec => []StepsAreIsolated` |
| `NamedFiles` | `Spec => []NamedFilesOfTheirRun` |
| `MemoIsOfItsRun` | `Spec => []MemoOfOneRun` |
| `ChainKeepsContract` | `Spec => ImplementsContract` |

`ChainInv` says where an execution's run is known to be in the database or not
(`StageOK`), that producers already left are attempted (`StatusOK`), that the status
of a package agrees with the database (`PackageOK`), and that a file whose name
holds a run id is complete when its row is inserted and never rewritten after
(`WrittenOK`, `RowsOK`). The last holds because run ids are unique (`RunsOK`) and an
execution does not come back to a producer (`NeverBack`). `CoreSteps` reduces the
actions to nine kinds of step, and `IndexSteps` says what each does to files and
rows. The memo of executions in sequence needs four parts more: no row is dated
ahead of the clock (`TurnsOK`), a row about to be inserted will be the newest one
(`StampOK`), the running execution owns the newest row of every producer that it left
and that did not fail (`NewestOK`), and so the look-ups of the memo find those
(`FoundOK`). Each is needed by the next, and all of them need executions in
sequence and no deleted files (`Serial`), the hypothesis of `MemoOfOneRun`.

### Live data

`LiveData_proofs`, for every list of tickers of the refresh and of the bootstrap, every
set of dates, any number of runs, faults and kills, under `TwoProcesses`,
`BootIsARequest`, `EodIsAProcess`, `BootTickersAssumption`, `EodWatchlistAssumption`,
`MaxRunsIsNat`, `ProcsAssumption` and those of `Store`:

| Theorem | Statement |
|---|---|
| `LiveInvariance` | `Spec => []LiveInv` |
| `SuccessIsDurable` | `Spec => []SucceededIsDurable` |
| `FreshIsFresh` | `Spec => []ReportedFreshIsFresh` |
| `StaleIsNotSilent` | `Spec => []StaleAnalysesAreAlerted` |
| `BootstrapImplementsLedger` | `Spec => BootstrapKeepsLedger` |

`LiveInv` is two invariants of state that the two processes do not share.
`StoreInv`: only the bootstrap's connection has rows (`ConnectionOK`), so the lemmas
of `Store_proofs` apply to one connection on which all tickers follow each other,
whatever an earlier one left in the transaction (`BootProgressOK`, `BootRowsOK`).
`FilesInv`: dates only grow, a cache entry is never older than the date in its
key, nor is what a fetch carries (`CacheOK`), so a file recorded by this run is torn
or as fresh as the run (`RecordedOK`). For the alert, every entry is judged before
the refresh raises or not (`JudgedOK`). The first form of this part was not
inductive: it said nothing of the phase `check`, in which the batch is decided.

### The workbench

`Evidence_proofs` (lemmas) and `Workbench_proofs` prove, for any numbers of checks,
holdings, rules, filings, writers and artifacts:

| Theorem | Statement |
|---|---|
| `WorkbenchInvariance` | `Spec => []WorkbenchOK` |
| `VerdictsStand` | `Spec => KnownVerdictsStand` |
| `ScoresAreBacked` | `Spec => []ScoresAreBackedByData` |
| `ValuesAreKept` | `Spec => ValueIsLostOnlyBySwitches` |
| `LostValuesAreExplained` | `Spec => []RootCauseIsReported` |
| `VerdictsHelp` | `Spec => AuditIsMonotone` |
| `LowRiskMeansIt` | `Spec => []LowRiskIsEarned` |
| `WeakGradesStand` | `Spec => WeakStaysWeak` |
| `AuditsOnlyHelp` | `Spec => MissingAuditsWeighWorst` |
| `ResearchablesLead` | `Spec => []ResearchableFirst` |
| `DesksAreAgreed` | `Spec => []DesksAgree` |
| `ThesesSharpen` | `Spec => ThesisOnlySharpens` |
| `ComparisonsAreHonest` | `Spec => []ComparisonIsHonest` |
| `NothingIsHidden` | `Spec => []CleanPackagesHideNothing` |
| `FragilityIsEarned` | `Spec => []LowFragilityIsEarned` |
| `DecisionsAreKept` | `Spec => []JournalKeepsDecisions` |
| `ChangesAreOnRecord` | `Spec => FiguresChangeOnRecord` |
| `OperatorsOutrank` | `Spec => OperatorOutranksFilings` |
| `AmendmentsAdd` | `Spec => AmendmentsNeverRewind` |

A step of one part leaves the others alone (`PartsStay`, `OwnSteps`), and the
invariant of each part (`WorkbenchInv`) is the type of its evidence and what the
evidence has to do with its subject. The weight is in what the desks compute:

- *Checks, valuation, risk signals.* `Stands(x, y)`: what was known is what it was.
  More data makes every item stand; each operator of `Checks`, `Valuation` and
  `RiskSignals` is shown to keep a result standing as long as the items that may
  switch its route (`Switches`, `Turning`) do not arrive. One lemma per operator.
  `Switches` are few: losses move H5 and H6 to the cash runway, and the dividend's gate
  or history ends a failure by default. F1 and H6 are not among them: each is UNKNOWN until
  whether the company becomes profitable, or what it owes, is known, since these
  are inputs of the comparison. For the scores, each check settles only
  with all that it compares (`Compared`, `Settled`), and the sum over an axis follows.
- *Audit.* The confidence is a sum of exact fractions, each monotone in the counts of
  verdicts (section "The confidence in an output").
- *Portfolio.* Weighted sums over a finite set of rows ("Sums over a finite set"): a
  term that grows makes the sum grow; a row's weight does not depend on the audits.
- *Watchlist.* At equal priority a researchable ticker has a score at least two
  points above any other; a sorted queue exists for every finite set ("Orders on a
  finite set") and any queue that respects the scores puts it first.
- *Thesis.* A rule that is decided stays decided; the status only depends on how many
  rules are unknown and which fired.
- *Comparison, package, release.* What PASS leaves impossible, by contraposition:
  each limitation that the code would have raised.
- *Sensitivity.* A dividend's value is dps/d with d the rate less the growth. If d is
  at least four steps, all twelve scenarios have values and they are ordered. If it is
  one to three steps, `Nth` is computed from how many scenarios are wider than
  each other (`AboveAre`, `NthIs`): the outer deciles lie at least 60% of the base
  value apart, so the fragility is HIGH (`NarrowIsFragile`).
- *Journal.* A torn part spoils at most the line it is glued to, so at most
  `tears` of the recorded decisions cannot be read, however many writers follow each other.
  In an untorn journal, lines and decisions to be written again (`Again`) together
  never exceed decisions and failures: a failure adds one to be written again, and
  writing it again takes it off.
- *Payload.* One case per injection for the figures; for amendments, the newest filing
  with a readable year is no older, and the sorted series of distinct years no shorter,
  for a larger set of filings.

Tlapm cannot use the library's induction theorems (they take an operator as
parameter). Where a fact about all finite sets was needed (a sum exists, an order has a
last element, a sorted enumeration exists) it is proved by a least counterexample: the
set of sizes that fail, were it not empty, would have a least element.

### The assumptions

| Assumption | Why the code justifies it |
|---|---|
| `TwoProcesses`, `BootIsARequest`, `EodIsAProcess`, `ActorsAreDistinct`, `ProcsAssumption`, `WritersAssumption` | processes, threads and requests are different actors; a torn line is no name |
| `WatchlistAssumption`, `BootTickersAssumption`, `EodWatchlistAssumption`, `DatesAreOrdered` | lists of known tickers; ISO dates compare as numbers |
| `ChainAssumption`, `EngineOutputFinite` | the statuses a step can record; an output has finitely many checks |
| `NoneIsNoWord`, `NoneAssumption` | an absent value is no value |
| `DpsYearsAssumption`, `PoliciesAssumption`, `ThresholdsAssumption`, `SomeChecksAssumption` | ten years, two switches, positive thresholds and 30 checks in the code's configuration |
| `AuditsAssumption` | audit files are written by `audit/audit_summary.py`, which draws the status and the usage from the company type |
| `DesksAssumption`, `HoldingsAssumption`, `WatchedAssumption` | findings are counted; holdings are rows of a ticker, a weight and a value, or cash; the priorities that the loader accepts |
| `ThesesAssumption`, `RunsAssumption`, `ArtifactsAssumption`, `RegistriesAssumption` | files are finite; every run has the same checks; a registry names sources |
| `OverridesAssumption`, `FilingsAssumption` | a scalar override is a number; a fact of the SEC has a filing date and a period's end, and may lack the fiscal year |
| `DriversAssumption` | companies valued by a closed formula; rates are small next to `Scale`, the unit of values that the model chooses so that its quotients are exact |

### What the attempts found

- `AmendmentsNeverRewind` was false beyond its first instance: a filing of a tag that
  ranks higher moves the field to that tag, whose last year may be an earlier one, and a
  fact without a fiscal year is passed over only by the series. It now speaks of
  one tag at a time, and the instance has such a fact.
- `LowFragilityIsEarned` was false where a growth of zero is given, a case outside
  the instance (section 3); the instance now has a rate low enough to show it.
- `RootCauseIsReported` said less than the code does: the missing rates that it
  reports are exactly those that the payload lacks.
- A ticker-less row of the watchlist sorted last in the model and first in the code (no such
  row is eligible, so no run could tell).

Only model-checked: `BatchEnds`, `WriteLockIsReturned`, `ChainsEnd` and `EveryRunEnds`,
since liveness is out of the prover's reach, and the four runs that expect a violation.
Beside liveness and ENABLED, what a recursive definition computes for every input and
anything in a module with RECURSIVE operators, of which this project has none, stay
out of reach.

## 5. Not modelled

init_schema, which run_batch and the adapter call before anything else and which
changes nothing once the tables exist; portfolios and portfolio_runs; the
contents of documents; readers that keep a SHARED lock (they can only make a
commit time out, which `Fault` covers).

| Component | Why |
|---|---|
| API read routes, dashboard | they show what the modelled parts stored or compute, and keep nothing |
| Command line | argument parsing and dispatch; the orders that matter are in `Enrichment` and `Readiness` |
| Two-stage and AFFO valuations, reverse DCF, portfolio analytics, factor exposures | floating-point formulas without state |
| Averages from a universe, FX | floating-point percentiles and conversions; their injection is in `Curated` |
| Identifier master, curated universe | string matching and CSV files written in one go by an operator |
| Documents (Markdown, HTML, JSON layout), word lists, JSON schemas | rendering and wording |
| SEC and yfinance clients | the network; their failures are in `SnapshotCache`, their answers inputs of `LiveMapping` and `SecFilings` |

`PROJECT.json` lists every component with its status and what is left of it.

Smaller things that modelled operations do and the models leave out:

| Definition | What it leaves out |
|---|---|
| `BatchRun!StartTask` | the watchlist entry is read outside the try (batch.py:32-34): a file without one of its columns ends the batch, as `BatchRaises` does |
| `BatchRun!BatchRaises` | run_batch does not close its store then (batch.py:93); its connection is abandoned as if the process had ended |
| `Store!Fault` | an INSERT that fails may leave the write lock taken with no row in the transaction |
| `ResearchChain!LoadInput` | torn or unreadable thesis, decision and portfolio files; a missing one is modelled |
| `EodRefresh!BatchAlerts` | the SKIPPED row of an entry without a ticker (eod_refresh.py:51). The run divides one ticker's rows, so that it never stands at exactly 20%, nor divides an empty report |
| `Audit!DataConfidence` | the text of the warnings of an output: `warned` says whether one speaks of the provider |
| `Thesis!Triggers` | what text contains what: `Within`, any relation |
| `Watchlist!ResearchQueue` | a row without a ticker sorts as "UNKNOWN" among equal scores; the model puts it first |
| `Journal!FailArtifacts` | which of the two files were written when the command fails |

## 6. Plan

Done: the store with its batch and API, the research chain, the live data, and the
workbench (evidence, desks, payload, journal), each with its invariant; every safety
invariant, action property and refinement that a passing run checks is proved. Left, in this
order:

| Item | What | Along |
|---|---|---|
| 1 | excess returns in `LowFragilityIsEarned`: what their range promises, if anything | TLC over `SomeDrivers` first: the bear case can lie above the bull case |
| 2 | a bound on the fetches of a refresh and on the rows of a batch, as safety parts of the liveness properties | the variants that `BatchEnds` and `EveryRunEnds` decrease |
| 3 | a refinement for the journal and for the cache, like `StoreLedger` | an append-only set of decisions; a map from keys to dates |

Left to model, if more is wanted: the API's read views over repeated runs, the
screener with a tie-break, and reverse_dcf's bisection.
