------------------------------ MODULE BatchRun ------------------------------
(***************************************************************************)
(* orchestration/batch.py: one run_batch saves the averages, hands every   *)
(* watchlist entry to a small thread pool, and reads the batch report.     *)
(* The threads share one Store and serialize their writes through one      *)
(* threading.Lock.  The batch may be started again for the same date, as a *)
(* retry or after the process was killed.                                  *)
(***************************************************************************)
EXTENDS Store, Sequences

CONSTANTS Watchlist,    \* the tickers of the CSV, in file order
          BatchDate,    \* the valuation date of the batch
          NoWorker,     \* nobody holds the threading.Lock
          MaxBatches,   \* bound: how often the batch is started
          MaxKills      \* bound: how often the process is killed

ASSUME WatchlistAssumption ==
  /\ Watchlist \in Seq(Tickers)
  /\ BatchDate \in Dates
  /\ NoWorker \notin Workers
  /\ MaxBatches \in Nat
  /\ MaxKills \in Nat

Entries == 1..Len(Watchlist)

VARIABLES phase,    \* how far run_batch is
          next,     \* the next entry of the pool's FIFO queue
          task,     \* per thread, the entry it works on
          lock,     \* who holds the threading.Lock
          outcome,  \* per entry, how its future ended
          report,   \* what run_batch returned
          batches,  \* how often run_batch was called
          kills     \* how often the process was killed

batchVars == <<phase, next, task, lock, outcome, report, batches, kills>>

Phases == {"averages", "pool", "done", "raised", "killed"}
Ended  == {"done", "raised", "killed"}

\* rid and sid: the ids in the runs row the task wrote.
Outcomes  == [status : {"none", "raised"} \cup Statuses, rid : Nat, sid : Nat]
NoOutcome == [status |-> "none", rid |-> 0, sid |-> 0]
Raised    == [status |-> "raised", rid |-> 0, sid |-> 0]

Settled(e) == outcome[e].status # "none"

IdleFrame(a) == [call[a] EXCEPT !.step = "idle"]

-----------------------------------------------------------------------------
(* The main thread *)

\* save_averages_snapshot returns; the pool gets every entry.
AveragesSaved ==
  /\ phase = "averages"
  /\ CommitLast(Batch)
  /\ call' = [call EXCEPT ![Batch] = IdleFrame(Batch)]
  /\ phase' = "pool"
  /\ UNCHANGED <<next, task, lock, outcome, report, batches, kills>>

\* save_averages_snapshot raises, before any entry was submitted.
AveragesRaise ==
  /\ phase = "averages"
  /\ MethodRaises(Batch)
  /\ call' = [call EXCEPT ![Batch] = IdleFrame(Batch)]
  /\ UNCHANGED batchVars

AllSettled == \A e \in Entries : Settled(e)
SomeRaised == \E e \in Entries : outcome[e].status = "raised"

\* Wrong variant: exceptions of the futures are never looked at.
ReportBatchAnyway ==
  /\ phase = "pool"
  /\ AllSettled
  /\ report' = BatchReport(View(Batch), BatchDate)
  /\ phase' = "done"
  /\ Rollback(Batch)
  /\ UNCHANGED <<nextId, call, faults, next, task, lock, outcome, batches, kills>>

\* All futures returned: run_batch reads the report on its own connection and
\* closes it.
ReportBatch ==
  /\ phase = "pool"
  /\ AllSettled
  /\ ~SomeRaised
  /\ report' = BatchReport(View(Batch), BatchDate)
  /\ phase' = "done"
  /\ Rollback(Batch)
  /\ UNCHANGED <<nextId, call, faults, next, task, lock, outcome, batches, kills>>

\* save_averages_snapshot raised, or f.result() did: the with statement still
\* waits for the pool, then run_batch raises without a report and the
\* connection goes with the process.
BatchRaises ==
  /\ \/ phase = "averages" /\ call[Batch].step = "idle"
     \/ phase = "pool" /\ AllSettled /\ SomeRaised
  /\ phase' = "raised"
  /\ Rollback(Batch)
  /\ UNCHANGED <<nextId, call, faults, next, task, lock, outcome, report, batches, kills>>

\* The process dies; SQLite rolls its transaction back.
KillBatch ==
  /\ phase \in {"averages", "pool"}
  /\ kills < MaxKills
  /\ kills' = kills + 1
  /\ phase' = "killed"
  /\ lock' = NoWorker
  /\ call' = [a \in Actors |-> IF a \in Requests THEN call[a] ELSE IdleFrame(a)]
  /\ Rollback(Batch)
  /\ UNCHANGED <<nextId, faults, next, task, outcome, report, batches>>

\* A run_batch that has just opened its store.  The averages have no ticker.
FirstFrame ==
  NewFrame("main", "save_averages_snapshot", "insert", CHOOSE t \in Tickers : TRUE, BatchDate)

StartBatch ==
  /\ phase \in Ended
  /\ batches < MaxBatches
  /\ batches' = batches + 1
  /\ phase' = "averages"
  /\ next' = 1
  /\ outcome' = [e \in Entries |-> NoOutcome]
  /\ report' = {}
  /\ call' = [call EXCEPT ![Batch] = FirstFrame]
  /\ UNCHANGED <<committed, pending, writer, nextId, faults, task, lock, kills>>

-----------------------------------------------------------------------------
(* A thread of the pool: _process_ticker *)

\* A free thread takes the head of the queue.  os.path.exists decides
\* between the missing-snapshot branch and the try block.
StartTask(w) ==
  /\ phase = "pool"
  /\ call[w].step = "idle"
  /\ next <= Len(Watchlist)
  /\ next' = next + 1
  /\ task' = [task EXCEPT ![w] = next]
  /\ \/ call' = [call EXCEPT ![w] =
                   NewFrame("skip", "create_run", "lock", Watchlist[next], BatchDate)]
     \/ call' = [call EXCEPT ![w] =
                   NewFrame("try", "upsert_instrument", "build", Watchlist[next], BatchDate)]
  /\ UNCHANGED <<committed, pending, writer, nextId, faults,
                 phase, lock, outcome, report, batches, kills>>

HandlerFrame(w) == NewFrame("except", "create_run", "lock", call[w].ticker, call[w].date)

\* The payload is built and the engine runs, or one of them raises.
BuildPayload(w) ==
  /\ call[w].step = "build"
  /\ \/ call' = [call EXCEPT ![w].step = "lock"]
     \/ call' = [call EXCEPT ![w] = HandlerFrame(w)]
  /\ UNCHANGED <<committed, pending, writer, nextId, faults>>
  /\ UNCHANGED batchVars

\* Wrong variant: the threads do not share one lock.
AcquireOwnLock(w) ==
  /\ call[w].step = "lock"
  /\ lock' = w
  /\ call' = [call EXCEPT ![w].step = "insert"]
  /\ UNCHANGED <<committed, pending, writer, nextId, faults,
                 phase, next, task, outcome, report, batches, kills>>

AcquireLock(w) ==
  /\ call[w].step = "lock"
  /\ lock = NoWorker
  /\ lock' = w
  /\ call' = [call EXCEPT ![w].step = "insert"]
  /\ UNCHANGED <<committed, pending, writer, nextId, faults,
                 phase, next, task, outcome, report, batches, kills>>

\* The last method of the block returns: the with statement releases the lock
\* and the future has its result.
TaskReturns(w) ==
  /\ CommitLast(w)
  /\ call' = [call EXCEPT ![w] = IdleFrame(w)]
  /\ lock' = NoWorker
  /\ outcome' = [outcome EXCEPT ![task[w]] =
                   [status |-> Verdict(call[w].block),
                    rid |-> call[w].rid, sid |-> call[w].sid]]
  /\ UNCHANGED <<phase, next, task, report, batches, kills>>

\* Wrong variant: the handler waits for the lock its own thread still holds.
TryRaisesHoldingLock(w) ==
  /\ call[w].block = "try"
  /\ MethodRaises(w)
  /\ call' = [call EXCEPT ![w] = HandlerFrame(w)]
  /\ UNCHANGED <<phase, next, task, lock, outcome, report, batches, kills>>

\* A method in the try block raises: the lock is released and the except
\* handler will ask for it again.
TryRaises(w) ==
  /\ call[w].block = "try"
  /\ MethodRaises(w)
  /\ lock' = NoWorker
  /\ call' = [call EXCEPT ![w] = HandlerFrame(w)]
  /\ UNCHANGED <<phase, next, task, outcome, report, batches, kills>>

\* create_run raises in the except handler or in the missing-snapshot branch,
\* which nothing protects: the future ends with the exception.
HandlerRaises(w) ==
  /\ call[w].block \in {"except", "skip"}
  /\ MethodRaises(w)
  /\ lock' = NoWorker
  /\ call' = [call EXCEPT ![w] = IdleFrame(w)]
  /\ outcome' = [outcome EXCEPT ![task[w]] = Raised]
  /\ UNCHANGED <<phase, next, task, report, batches, kills>>

InsertInBatch(a) == Insert(a) /\ UNCHANGED batchVars
CallOnInBatch(a) == CommitAndCallOn(a) /\ UNCHANGED batchVars

-----------------------------------------------------------------------------
MainStep ==
  \/ InsertInBatch(Batch)
  \/ AveragesSaved
  \/ AveragesRaise
  \/ ReportBatch
  \/ BatchRaises

WorkerStep(w) ==
  \/ StartTask(w)
  \/ BuildPayload(w)
  \/ AcquireLock(w)
  \/ InsertInBatch(w)
  \/ CallOnInBatch(w)
  \/ TaskReturns(w)
  \/ TryRaises(w)
  \/ HandlerRaises(w)

BatchNext ==
  \/ MainStep
  \/ KillBatch
  \/ StartBatch
  \/ \E w \in Workers : WorkerStep(w)

BatchInit ==
  /\ phase = "averages"
  /\ next = 1
  /\ task = [w \in Workers |-> 0]
  /\ lock = NoWorker
  /\ outcome = [e \in Entries |-> NoOutcome]
  /\ report = {}
  /\ batches = 1
  /\ kills = 0

BatchTypeOK ==
  /\ phase \in Phases
  /\ next \in 1..Len(Watchlist) + 1
  /\ task \in [Workers -> Nat]
  /\ lock \in Workers \cup {NoWorker}
  /\ outcome \in [Entries -> Outcomes]
  /\ report \subseteq AllRows
  /\ batches \in Nat
  /\ kills \in Nat

=============================================================================
