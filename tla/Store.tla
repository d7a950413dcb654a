------------------------------- MODULE Store --------------------------------
(***************************************************************************)
(* db/store.py over SQLite: connections, their open transactions and the   *)
(* methods that write.                                                     *)
(*                                                                         *)
(* Every writing method of Store is one or two INSERTs followed by         *)
(* conn.commit().  Python opens a transaction at the first INSERT; SQLite  *)
(* gives the connection the database's single write lock (RESERVED) there  *)
(* and takes it back at the commit.  Nothing in the code ever calls        *)
(* rollback(): when a statement or a commit raises, the transaction stays  *)
(* open, keeps its rows and the write lock, and the next commit on the     *)
(* same connection, whoever makes it, publishes those rows.                *)
(*                                                                         *)
(* An actor (a batch thread or an API request) that is inside a method has *)
(* a call frame: the method, how far it is, and the values it passes.      *)
(***************************************************************************)
EXTENDS Rows

CONSTANTS Batch,      \* the batch process: its main thread and its connection
          Workers,    \* the threads of its pool
          Requests,   \* API requests that persist an analysis
          NoConn,     \* nobody holds the write lock
          MaxFaults   \* bound: failed statements and commits in a behaviour

ASSUME ActorsAreDistinct ==
  /\ Batch \notin Workers \cup Requests
  /\ Workers \cap Requests = {}
  /\ NoConn \notin Requests \cup {Batch}

ASSUME MaxFaultsIsNat == MaxFaults \in Nat

Actors == {Batch} \cup Workers \cup Requests
Conns  == {Batch} \cup Requests

\* The pool's threads share the connection run_batch opened; an API request
\* opens one of its own (api/deps.py).
ConnOf(a) == IF a \in Requests THEN a ELSE Batch

VARIABLES committed,  \* the rows of the database file
          pending,    \* per connection, the rows of its open transaction
          writer,     \* the connection that holds the write lock
          nextId,     \* the next unused id or rowid
          call,       \* per actor, its call frame
          faults      \* how many statements or commits have failed

storeVars == <<committed, pending, writer, nextId, call, faults>>

-----------------------------------------------------------------------------
(* Call frames *)

Ops    == {"save_averages_snapshot", "upsert_instrument", "save_input_snapshot",
           "create_run", "save_output"}
\* The code around the call: run_batch itself, the try block of
\* _process_ticker, its except handler, its missing-snapshot branch, or
\* ApiDbAdapter.save_company_output.
Blocks == {"main", "try", "except", "skip", "api"}
\* idle: not in a task.  build: payload and engine, no database work.
\* lock: waiting for the batch's threading.Lock.  insert and commit: the next
\* thing the method does.  close: the request leaves its handler.  done: its
\* connection is closed.
Steps  == {"idle", "build", "lock", "insert", "commit", "close", "done"}

Frames == [block : Blocks, op : Ops, step : Steps, ticker : Tickers, date : Dates,
           sid : Nat, rid : Nat, rowid : Nat]

NewFrame(b, o, s, t, d) ==
  [block |-> b, op |-> o, step |-> s, ticker |-> t, date |-> d,
   sid |-> 0, rid |-> 0, rowid |-> 0]

\* Wrong variant: the handler invents a status batch_report does not know.
VerdictError(b) == CASE b = "skip"   -> "SKIPPED"
                     [] b = "except" -> "ERROR"
                     [] OTHER        -> "PASS"

\* The status the enclosing block passes to create_run.
Verdict(b) == CASE b = "skip"   -> "SKIPPED"
                [] b = "except" -> "FAIL"
                [] OTHER        -> "PASS"

\* The rows the INSERTs of the frame's method add.
RowsOf(k) ==
  CASE k.op = "save_averages_snapshot" -> {AveragesRow(k.date)}
    [] k.op = "upsert_instrument"      -> {InstrumentRow(k.ticker)}
    [] k.op = "save_input_snapshot"    -> {SnapshotRow(k.sid, k.ticker)}
    [] k.op = "create_run"             -> {RunRow(k.rid, k.ticker, k.date, k.sid,
                                                  Verdict(k.block))}
    [] k.op = "save_output"            -> {OutputRow(k.rid, k.ticker, k.date, k.rowid),
                                           ChecksRow(k.rid, k.ticker, k.date)}

DrawsId(o) == o \in {"save_input_snapshot", "create_run", "save_output"}

\* The frame once its method has drawn the id (uuid4) or rowid of its row.
WithId(k) ==
  CASE k.op = "save_input_snapshot" -> [k EXCEPT !.sid = nextId]
    [] k.op = "create_run"          -> [k EXCEPT !.rid = nextId]
    [] k.op = "save_output"         -> [k EXCEPT !.rowid = nextId]
    [] OTHER                        -> k

\* Wrong variant: the run is created before the snapshot it points to.
NextOpRunFirst(o) == CASE o = "upsert_instrument"   -> "create_run"
                       [] o = "create_run"          -> "save_input_snapshot"
                       [] o = "save_input_snapshot" -> "save_output"

\* The method called after o when a company result is persisted: the same
\* four calls in orchestration/batch.py and in api/db_adapter.py.
NextOp(o) == CASE o = "upsert_instrument"   -> "save_input_snapshot"
               [] o = "save_input_snapshot" -> "create_run"
               [] o = "create_run"          -> "save_output"

PersistsResult(b) == b \in {"try", "api"}

\* After its current method returns, the block calls another one.
CallsOn(k) == PersistsResult(k.block) /\ k.op # "save_output"

-----------------------------------------------------------------------------
(* Transactions *)

\* Wrong variant: a database that lets several transactions write at once.
CanWriteTogether(c) == c \in Conns

CanWrite(c) == writer \in {NoConn, c}

\* The INSERTs: the rows join the connection's transaction.
Write(c, rows) ==
  /\ CanWrite(c)
  /\ writer' = c
  /\ pending' = [pending EXCEPT ![c] = @ \cup rows]
  /\ UNCHANGED committed

Unlock(c) == writer' = IF writer = c THEN NoConn ELSE writer

CommitTxn(c) ==
  /\ committed' = committed \cup pending[c]
  /\ pending' = [pending EXCEPT ![c] = {}]
  /\ Unlock(c)

\* The connection is closed, or SQLite itself ends the transaction.
Rollback(c) ==
  /\ pending' = [pending EXCEPT ![c] = {}]
  /\ Unlock(c)
  /\ UNCHANGED committed

\* What a SELECT on connection c sees.
View(c) == committed \cup pending[c]

-----------------------------------------------------------------------------
(* The steps of a method *)

\* The INSERTs of the method succeed.
Insert(a) ==
  /\ call[a].step = "insert"
  /\ Write(ConnOf(a), RowsOf(WithId(call[a])))
  /\ call' = [call EXCEPT ![a] = [WithId(call[a]) EXCEPT !.step = "commit"]]
  /\ nextId' = IF DrawsId(call[a].op) THEN nextId + 1 ELSE nextId
  /\ UNCHANGED faults

\* conn.commit() succeeds and the block calls the next method.
CommitAndCallOn(a) ==
  /\ call[a].step = "commit"
  /\ CallsOn(call[a])
  /\ CommitTxn(ConnOf(a))
  /\ call' = [call EXCEPT ![a].op = NextOp(@), ![a].step = "insert"]
  /\ UNCHANGED <<nextId, faults>>

\* Wrong variant: save_output without its commit.
CommitLastForgotten(a) ==
  /\ call[a].step = "commit"
  /\ ~CallsOn(call[a])
  /\ IF call[a].op = "save_output"
     THEN UNCHANGED <<committed, pending, writer>>
     ELSE CommitTxn(ConnOf(a))
  /\ UNCHANGED <<nextId, faults>>

\* conn.commit() succeeds and the block has no further method to call.  What
\* becomes of the frame is the block's business.
CommitLast(a) ==
  /\ call[a].step = "commit"
  /\ ~CallsOn(call[a])
  /\ CommitTxn(ConnOf(a))
  /\ UNCHANGED <<nextId, faults>>

\* Another connection keeps the write lock for longer than sqlite3's timeout:
\* the INSERT raises "database is locked".
Busy(a) ==
  /\ call[a].step = "insert"
  /\ ~CanWrite(ConnOf(a))
  /\ UNCHANGED <<committed, pending, writer, nextId, faults>>

\* The first INSERT or the commit raises for another reason: a reader outlives the
\* timeout (the transaction stays open), or the disk is full or fails (SQLite
\* may have rolled back).
Fault(a) ==
  /\ call[a].step \in {"insert", "commit"}
  /\ faults < MaxFaults
  /\ faults' = faults + 1
  /\ \/ UNCHANGED <<committed, pending, writer>>
     \/ Rollback(ConnOf(a))
  /\ UNCHANGED nextId

\* save_output raises between its two INSERTs, or while it reads the checks of
\* the output: the outputs row is in the transaction, its checks are not.
HalfOutput(a) ==
  /\ call[a].step = "insert"
  /\ call[a].op = "save_output"
  /\ faults < MaxFaults
  /\ faults' = faults + 1
  /\ Write(ConnOf(a), {OutputRow(call[a].rid, call[a].ticker, call[a].date, nextId)})
  /\ nextId' = nextId + 1

\* The method raises.
MethodRaises(a) == Busy(a) \/ Fault(a) \/ HalfOutput(a)

-----------------------------------------------------------------------------
StoreInit ==
  /\ committed = {}
  /\ pending = [c \in Conns |-> {}]
  /\ writer = NoConn
  /\ nextId = 1
  /\ faults = 0

StoreTypeOK ==
  /\ committed \subseteq AllRows
  /\ pending \in [Conns -> SUBSET AllRows]
  /\ writer \in Conns \cup {NoConn}
  /\ nextId \in Nat \ {0}
  /\ call \in [Actors -> Frames]
  /\ faults \in 0..MaxFaults
=============================================================================
