---------------------------- MODULE Persistence -----------------------------
(***************************************************************************)
(* The daily batch and the API writing to the same SQLite file: BatchRun   *)
(* and ApiPersist composed over one Store, and what the composition        *)
(* guarantees.                                                             *)
(***************************************************************************)
EXTENDS BatchRun, ApiPersist

vars == <<storeVars, batchVars, response>>

Init ==
  /\ StoreInit
  /\ BatchInit
  /\ response = [r \in Requests |-> "none"]
  /\ call = [a \in Actors |->
               IF a = Batch THEN FirstFrame
               ELSE NewFrame(IF a \in Requests THEN "api" ELSE "try", "upsert_instrument",
                             "idle", CHOOSE t \in Tickers : TRUE, BatchDate)]

Request(r) == (BeginSave(r) \/ RequestStep(r)) /\ UNCHANGED batchVars

ServerDies ==
  /\ kills < MaxKills
  /\ kills' = kills + 1
  /\ KillServer
  /\ UNCHANGED <<phase, next, task, lock, outcome, report, batches>>

\* Nothing is left to do: no batch will be started again and every request
\* was served.
Quiescent ==
  /\ phase \in Ended
  /\ batches = MaxBatches
  /\ \A r \in Requests : call[r].step = "done"
  /\ UNCHANGED vars

Next ==
  \/ BatchNext /\ UNCHANGED response
  \/ \E r \in Requests : Request(r)
  \/ ServerDies
  \/ Quiescent

\* Threads that can run do run; nobody is obliged to send a request, to start
\* another batch, or to kill a process.
Fairness ==
  /\ WF_vars(MainStep /\ UNCHANGED response)
  /\ \A w \in Workers : WF_vars(WorkerStep(w) /\ UNCHANGED response)
  /\ \A r \in Requests : WF_vars(RequestStep(r) /\ UNCHANGED batchVars)

Spec     == Init /\ [][Next]_vars
FairSpec == Spec /\ Fairness

TypeOK == StoreTypeOK /\ BatchTypeOK /\ ApiTypeOK

-----------------------------------------------------------------------------
(* The invariants *)

RowsWritten == committed \cup UNION {pending[c] : c \in Conns}

\* No two connections have uncommitted rows at once: the one that has some
\* holds SQLite's write lock.
OneOpenTransaction == \A c \in Conns : pending[c] # {} => writer = c

\* A thread's rows are its own until it commits them: between the INSERTs of
\* a method and its commit no other thread of the shared connection publishes
\* them or loses them (the comment on check_same_thread=False in db/store.py
\* and the lock of orchestration/batch.py).
InFlightRowsArePrivate ==
  \A a \in Actors : call[a].step = "commit" => RowsOf(call[a]) \subseteq pending[ConnOf(a)]

\* Outputs become visible in rowid order, so "ORDER BY valuation_date DESC,
\* rowid DESC" of the latest-output query never ranks a row that is published
\* later below one of the same date that readers have already seen.
RowidsFollowCommits ==
  \A c \in Conns :
    \A o \in In("outputs", committed), p \in In("outputs", pending[c]) : o.rowid < p.rowid

\* The rows save_company_output and the try block leave for ticker t.
PassRows(k) ==
  {InstrumentRow(k.ticker), SnapshotRow(k.sid, k.ticker),
   RunRow(k.rid, k.ticker, k.date, k.sid, "PASS"),
   OutputRow(k.rid, k.ticker, k.date, k.rowid), ChecksRow(k.rid, k.ticker, k.date)}

\* The rows a task with outcome o leaves for ticker t are among rows.
Recorded(o, t, rows) ==
  /\ RunRow(o.rid, t, BatchDate, o.sid, o.status) \in rows
  /\ o.status = "PASS" =>
       /\ InstrumentRow(t) \in rows
       /\ SnapshotRow(o.sid, t) \in rows
       /\ ChecksRow(o.rid, t, BatchDate) \in rows
       /\ \E x \in In("outputs", rows) : x.id = o.rid

\* What was acknowledged survives: the runs row of a finished task, and for
\* PASS its snapshot, its output and its checks, stay in the database through
\* failures of other tasks on the same connection, kills and later batches; so
\* do the rows of a request that was answered with a run id.
AcknowledgedIsDurable ==
  /\ \A e \in Entries :
       outcome[e].status \in Statuses => Recorded(outcome[e], Watchlist[e], committed)
  /\ \A r \in Requests : response[r] = "ok" => PassRows(call[r]) \subseteq committed

\* The report run_batch returns covers the whole watchlist and shows only
\* rows that are durable, although it is read on the connection that wrote
\* them and sees that connection's uncommitted rows.
ReportIsFaithful ==
  phase = "done" =>
    /\ report \subseteq committed
    /\ \A e \in Entries :
         RunRow(outcome[e].rid, Watchlist[e], BatchDate, outcome[e].sid,
                outcome[e].status) \in report

-----------------------------------------------------------------------------
(* Refinement and liveness *)

L == INSTANCE StoreLedger WITH ledger <- committed

\* The store is an append-only, well-referenced ledger ("All writes are
\* idempotent per (run/snapshot id)", db/store.py).
ImplementsLedger == L!LedgerSpec

\* An output that no published output of its ticker outdates becomes the
\* answer of the latest-output query at the commit that publishes it, also
\* when the dates are equal (api/db_adapter.py get_latest_company_with_run_id).
NewOutputBecomesLatest ==
  [][\A p \in In("outputs", committed' \ committed) :
       (\A o \in In("outputs", committed) : o.ticker = p.ticker => o.date <= p.date)
         => Latest(committed', p.ticker) = {p}]_vars

\* A batch ends, whatever fails in it: with a report or with an exception
\* (no thread waits forever for the threading.Lock).
BatchEnds == phase = "averages" ~> phase \in Ended

\* No connection keeps the write lock of the database for ever, although
\* failed transactions are never rolled back.
WriteLockIsReturned == \A c \in Conns : writer = c ~> writer # c

-----------------------------------------------------------------------------
(* A statement of the repository that the code does not keep *)

\* "one failed ticker never stops the batch; every ticker ends as PASS / FAIL
\* (run error persisted) / SKIPPED" (orchestration/batch.py, module docstring).
FailedTickerNeverStopsBatch ==
  phase = "raised" => ~ \E e \in Entries : outcome[e].status = "raised"
=============================================================================
