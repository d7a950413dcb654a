--------------------------- MODULE PersistenceInv ---------------------------
(***************************************************************************)
(* The inductive invariant of Persistence: what has to be remembered about *)
(* call frames, locks, ids and open transactions for its invariants to     *)
(* follow from one step to the next.                                       *)
(***************************************************************************)
EXTENDS Persistence

InMethod(k) == k.step \in {"insert", "commit"}

\* The blocks and the methods that go together.
FrameOK(a) ==
  LET k == call[a] IN
    /\ a = Batch    => k.block = "main" /\ k.op = "save_averages_snapshot"
                       /\ k.step \in {"idle", "insert", "commit"}
    /\ a \in Workers  => /\ k.block \in {"try", "except", "skip"}
                         /\ k.step \in {"idle", "build", "lock", "insert", "commit"}
    /\ a \in Requests => /\ k.block = "api"
                         /\ k.step \in {"idle", "insert", "commit", "close", "done"}
    /\ PersistsResult(k.block) => k.op # "save_averages_snapshot"
    /\ k.block \in {"except", "skip"} => k.op = "create_run"
    /\ k.step = "build" => k.block = "try"
    /\ k.step \in {"build", "lock"} /\ k.block = "try" => k.op = "upsert_instrument"

FramesOK == \A a \in Actors : FrameOK(a)

\* The threading.Lock covers every method call of the pool, and the main
\* thread writes only before the pool exists.
LockOK ==
  /\ \A w \in Workers : InMethod(call[w]) <=> lock = w
  /\ \A w \in Workers : call[w].step # "idle" => phase = "pool"
  /\ phase = "averages" => lock = NoWorker
  /\ InMethod(call[Batch]) => phase = "averages"

Working(w) == call[w].step # "idle"

\* A working thread holds an entry of its own that has no outcome yet.
TasksOK ==
  /\ \A w \in Workers : Working(w) =>
       /\ task[w] \in Entries
       /\ task[w] < next
       /\ ~Settled(task[w])
       /\ call[w].ticker = Watchlist[task[w]]
       /\ call[w].date = BatchDate
  /\ \A v, w \in Workers : Working(v) /\ Working(w) /\ v # w => task[v] # task[w]
  /\ \A e \in Entries : e >= next => ~Settled(e)

\* SQLite's write lock is held by the connection that is about to commit, and
\* nobody has rows in the transaction of an idle connection.
TransactionsOK ==
  /\ OneOpenTransaction
  /\ InFlightRowsArePrivate
  /\ \A a \in Actors : call[a].step = "commit" => writer = ConnOf(a)
  /\ \A r \in Requests : call[r].step \in {"idle", "done"} => pending[r] = {}

\* Ids and rowids are drawn in order and never twice.
IdsOK ==
  /\ \A x \in RowsWritten :
       /\ x.table \in {"input_snapshots", "runs", "outputs", "checks"} => x.id < nextId
       /\ x.table = "outputs" => x.rowid < nextId
  /\ \A a \in Actors : call[a].sid < nextId /\ call[a].rid < nextId /\ call[a].rowid < nextId
  /\ \A a, b \in Actors : a # b /\ call[a].rid = call[b].rid => call[a].rid = 0
  /\ \A a \in Actors :
       (call[a].op = "save_output" /\ call[a].step = "insert")
         \/ (call[a].op = "create_run" /\ call[a].step = "commit")
       => /\ call[a].rid # 0
          /\ \A x \in RowsWritten : x.table \in {"outputs", "checks"} => x.id # call[a].rid

\* What the earlier methods of a block have committed, its later ones count on.
ProgressOK ==
  \A a \in Actors :
    LET k == call[a] IN
      PersistsResult(k.block) /\ InMethod(k) =>
        /\ k.op # "upsert_instrument" => InstrumentRow(k.ticker) \in committed
        /\ k.op \in {"create_run", "save_output"} => SnapshotRow(k.sid, k.ticker) \in committed
        /\ k.op = "save_output" => RunRow(k.rid, k.ticker, k.date, k.sid, "PASS") \in committed

\* The database is well referenced, with or without any open transaction.
RowsOK ==
  /\ KeysUnique(RowsWritten)
  /\ WellReferenced(committed)
  /\ \A c \in Conns : WellReferenced(committed \cup pending[c])

IInv ==
  /\ TypeOK
  /\ FramesOK
  /\ LockOK
  /\ TasksOK
  /\ TransactionsOK
  /\ IdsOK
  /\ ProgressOK
  /\ RowsOK

-----------------------------------------------------------------------------
(* For what was acknowledged, and for the report *)

\* Rows left behind by a failed method wait for the handler of the same task.
LeftoversOK ==
  /\ phase \in Ended => pending[Batch] = {}
  /\ phase = "pool" /\ pending[Batch] # {} =>
       SomeRaised \/ \E w \in Workers : call[w].step \in {"lock", "insert", "commit"}

\* An answered request touches neither the database nor its frame again.
AnswersOK == \A r \in Requests : response[r] # "none" => call[r].step \in {"close", "done"}

\* A block that is about to insert its second row or a later one has just
\* committed, so a transaction never holds two outputs.
OneOutputOK ==
  /\ \A c \in Conns : \A o, p \in In("outputs", pending[c]) : o = p
  /\ \A a \in Actors :
       /\ call[a].step = "insert"
       /\ PersistsResult(call[a].block)
       /\ call[a].op # "upsert_instrument"
       => pending[ConnOf(a)] = {}

BatchInv ==
  /\ IInv
  /\ OneOutputOK
  /\ LeftoversOK
  /\ AnswersOK
  /\ RowidsFollowCommits
  /\ AcknowledgedIsDurable
  /\ ReportIsFaithful
=============================================================================
