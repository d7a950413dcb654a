---------------------------- MODULE Store_proofs ----------------------------
(***************************************************************************)
(* What the proofs about the store's users have in common: the types of    *)
(* frames, rows and transactions, and what a method's INSERTs do to the    *)
(* keys and the references of a set of rows.                               *)
(***************************************************************************)
EXTENDS Store, TLAPS

-----------------------------------------------------------------------------
(* Frames and rows *)

\* Drawing an id changes nothing else in a frame.
LEMMA WithIdFields ==
  ASSUME NEW k \in Frames, nextId \in Nat
  PROVE  /\ WithId(k) \in Frames
         /\ WithId(k).block = k.block
         /\ WithId(k).op = k.op
         /\ WithId(k).step = k.step
         /\ WithId(k).ticker = k.ticker
         /\ WithId(k).date = k.date
BY DEF WithId, Frames

\* A method only writes rows of the schema.
LEMMA RowsOfType ==
  ASSUME NEW k \in Frames
  PROVE  RowsOf(k) \subseteq AllRows
<1>1. Verdict(k.block) \in Statuses
  BY DEF Verdict, Statuses
<1>2. k.op \in Ops /\ k.ticker \in Tickers /\ k.date \in Dates
      /\ k.sid \in Nat /\ k.rid \in Nat /\ k.rowid \in Nat
  BY DEF Frames
<1>3. CASE k.op = "save_averages_snapshot"
  BY <1>2, <1>3 DEF RowsOf, AveragesRow, Averages, AllRows
<1>4. CASE k.op = "upsert_instrument"
  BY <1>2, <1>4 DEF RowsOf, InstrumentRow, Instruments, AllRows
<1>5. CASE k.op = "save_input_snapshot"
  BY <1>2, <1>5 DEF RowsOf, SnapshotRow, Snapshots, AllRows
<1>6. CASE k.op = "create_run"
  BY <1>1, <1>2, <1>6 DEF RowsOf, RunRow, Runs, AllRows
<1>7. CASE k.op = "save_output"
  BY <1>2, <1>7 DEF RowsOf, OutputRow, ChecksRow, Outputs, Checks, AllRows
<1>8. QED
  BY <1>2, <1>3, <1>4, <1>5, <1>6, <1>7 DEF Ops

\* New frames are frames.
LEMMA NewFrameType ==
  ASSUME NEW b \in Blocks, NEW o \in Ops, NEW s \in Steps, NEW t \in Tickers, NEW d \in Dates
  PROVE  NewFrame(b, o, s, t, d) \in Frames
BY DEF NewFrame, Frames

LEMMA ConnOfType == \A a \in Actors : ConnOf(a) \in Conns
BY DEF ConnOf, Actors, Conns

\* Editing the step of a frame.
LEMMA SetStep ==
  ASSUME NEW k \in Frames, NEW s
  PROVE  LET j == [k EXCEPT !.step = s]
         IN  /\ j.step = s /\ j.block = k.block /\ j.op = k.op
             /\ j.ticker = k.ticker /\ j.date = k.date
             /\ j.sid = k.sid /\ j.rid = k.rid /\ j.rowid = k.rowid
BY DEF Frames

LEMMA RowsOfStep ==
  ASSUME NEW k \in Frames, NEW j,
         j.block = k.block, j.op = k.op, j.ticker = k.ticker, j.date = k.date,
         j.sid = k.sid, j.rid = k.rid, j.rowid = k.rowid
  PROVE  RowsOf(j) = RowsOf(k)
BY DEF RowsOf

\* The row an INSERT adds, with the id it draws.
LEMMA InsertedRows ==
  ASSUME NEW k \in Frames, nextId \in Nat
  PROVE  /\ k.op = "save_averages_snapshot" =>
              RowsOf(WithId(k)) = {AveragesRow(k.date)} /\ WithId(k) = k
         /\ k.op = "upsert_instrument" =>
              RowsOf(WithId(k)) = {InstrumentRow(k.ticker)} /\ WithId(k) = k
         /\ k.op = "save_input_snapshot" =>
              /\ RowsOf(WithId(k)) = {SnapshotRow(nextId, k.ticker)}
              /\ WithId(k).sid = nextId /\ WithId(k).rid = k.rid /\ WithId(k).rowid = k.rowid
         /\ k.op = "create_run" =>
              /\ RowsOf(WithId(k)) = {RunRow(nextId, k.ticker, k.date, k.sid, Verdict(k.block))}
              /\ WithId(k).rid = nextId /\ WithId(k).sid = k.sid /\ WithId(k).rowid = k.rowid
         /\ k.op = "save_output" =>
              /\ RowsOf(WithId(k)) = {OutputRow(k.rid, k.ticker, k.date, nextId),
                                      ChecksRow(k.rid, k.ticker, k.date)}
              /\ WithId(k).rowid = nextId /\ WithId(k).sid = k.sid /\ WithId(k).rid = k.rid
<1>1. CASE k.op = "save_averages_snapshot"
  BY <1>1 DEF WithId, RowsOf
<1>2. CASE k.op = "upsert_instrument"
  BY <1>2 DEF WithId, RowsOf
<1>3. CASE k.op = "save_input_snapshot"
  <2>1. WithId(k) = [k EXCEPT !.sid = nextId]
    BY <1>3 DEF WithId
  <2>2. QED
    BY <1>3, <2>1 DEF RowsOf, Frames
<1>4. CASE k.op = "create_run"
  <2>1. WithId(k) = [k EXCEPT !.rid = nextId]
    BY <1>4 DEF WithId
  <2>2. QED
    BY <1>4, <2>1 DEF RowsOf, Frames
<1>5. CASE k.op = "save_output"
  <2>1. WithId(k) = [k EXCEPT !.rowid = nextId]
    BY <1>5 DEF WithId
  <2>2. QED
    BY <1>5, <2>1 DEF RowsOf, Frames
<1>6. QED
  BY <1>1, <1>2, <1>3, <1>4, <1>5

-----------------------------------------------------------------------------
(* The steps of a method *)

\* The three ways a transaction moves keep the store's types.
LEMMA TransactionTypes ==
  ASSUME StoreTypeOK, NEW c \in Conns
  PROVE  /\ \A rows \in SUBSET AllRows : Write(c, rows) =>
              /\ committed' \subseteq AllRows
              /\ pending' \in [Conns -> SUBSET AllRows]
              /\ writer' \in Conns \cup {NoConn}
         /\ CommitTxn(c) \/ Rollback(c) =>
              /\ committed' \subseteq AllRows
              /\ pending' \in [Conns -> SUBSET AllRows]
              /\ writer' \in Conns \cup {NoConn}
BY DEF StoreTypeOK, Write, CommitTxn, Rollback, Unlock

TablesOK ==
  /\ committed \subseteq AllRows
  /\ pending \in [Conns -> SUBSET AllRows]
  /\ writer \in Conns \cup {NoConn}
  /\ nextId \in Nat \ {0}
  /\ faults \in 0..MaxFaults

\* The steps of a method keep the types of the store.
LEMMA BlockMethodTypes ==
  ASSUME StoreTypeOK, NEW a \in Actors,
         PersistsResult(call[a].block) => call[a].op # "save_averages_snapshot"
  PROVE  /\ Insert(a) => StoreTypeOK'
         /\ CommitAndCallOn(a) => StoreTypeOK'
         /\ CommitLast(a) => TablesOK'
         /\ MethodRaises(a) => TablesOK'
<1> USE DEF StoreTypeOK
<1>1. ConnOf(a) \in Conns /\ call[a] \in Frames
  BY ConnOfType
<1>2. ASSUME Insert(a) PROVE StoreTypeOK'
  <2>1. WithId(call[a]) \in Frames
    BY <1>1, WithIdFields
  <2>2. [WithId(call[a]) EXCEPT !.step = "commit"] \in Frames
    BY <2>1 DEF Frames, Steps
  <2>3. RowsOf(WithId(call[a])) \in SUBSET AllRows
    BY <2>1, RowsOfType
  <2>4. QED
    BY <1>1, <1>2, <2>2, <2>3, TransactionTypes DEF Insert
<1>3. ASSUME CommitAndCallOn(a) PROVE StoreTypeOK'
  <2>1. NextOp(call[a].op) \in Ops
    BY <1>1, <1>3 DEF CommitAndCallOn, CallsOn, NextOp, Frames, Ops
  <2>2. [call[a] EXCEPT !.op = NextOp(@), !.step = "insert"] \in Frames
    BY <1>1, <2>1 DEF Frames, Steps
  <2>3. call' = [call EXCEPT ![a] = [call[a] EXCEPT !.op = NextOp(@), !.step = "insert"]]
    BY <1>3 DEF CommitAndCallOn
  <2>4. QED
    BY <1>1, <1>3, <2>2, <2>3, TransactionTypes DEF CommitAndCallOn
<1>4. ASSUME CommitLast(a) PROVE TablesOK'
  BY <1>1, <1>4, TransactionTypes DEF CommitLast, TablesOK
<1>5. ASSUME MethodRaises(a) PROVE TablesOK'
  <2>1. CASE Busy(a)
    BY <2>1 DEF Busy, TablesOK
  <2>2. CASE Fault(a)
    BY <1>1, <2>2, MaxFaultsIsNat, TransactionTypes DEF Fault, TablesOK
  <2>3. CASE HalfOutput(a)
    <3>1. {OutputRow(call[a].rid, call[a].ticker, call[a].date, nextId)} \in SUBSET AllRows
      BY <1>1 DEF OutputRow, Outputs, AllRows, Frames
    <3>2. QED
      BY <1>1, <2>3, <3>1, MaxFaultsIsNat, TransactionTypes DEF HalfOutput, TablesOK
  <2>4. QED
    BY <1>5, <2>1, <2>2, <2>3 DEF MethodRaises
<1>6. QED
  BY <1>2, <1>3, <1>4, <1>5

\* What the steps inside a method do to the frames.
LEMMA MethodFrames ==
  ASSUME StoreTypeOK, NEW a \in Actors
  PROVE  /\ Insert(a) =>
              /\ call[a].step = "insert" /\ call'[a].step = "commit"
              /\ call'[a].block = call[a].block /\ call'[a].op = call[a].op
              /\ call'[a].ticker = call[a].ticker /\ call'[a].date = call[a].date
              /\ call'[a].sid = WithId(call[a]).sid
              /\ call'[a].rid = WithId(call[a]).rid
              /\ call'[a].rowid = WithId(call[a]).rowid
              /\ \A b \in Actors : b # a => call'[b] = call[b]
         /\ CommitAndCallOn(a) =>
              /\ call[a].step = "commit" /\ call'[a].step = "insert"
              /\ call'[a].block = call[a].block /\ call'[a].op = NextOp(call[a].op)
              /\ call'[a].ticker = call[a].ticker /\ call'[a].date = call[a].date
              /\ call'[a].sid = call[a].sid
              /\ call'[a].rid = call[a].rid
              /\ call'[a].rowid = call[a].rowid
              /\ \A b \in Actors : b # a => call'[b] = call[b]
<1> USE DEF StoreTypeOK
<1>1. WithId(call[a]) \in Frames
  BY WithIdFields
<1>2. ASSUME Insert(a) PROVE call'[a] = [WithId(call[a]) EXCEPT !.step = "commit"]
  BY <1>2 DEF Insert
<1>3. ASSUME CommitAndCallOn(a)
      PROVE  call'[a] = [call[a] EXCEPT !.op = NextOp(call[a].op), !.step = "insert"]
  BY <1>3 DEF CommitAndCallOn, Frames
<1>4. \A b \in Actors : Insert(a) \/ CommitAndCallOn(a) => b = a \/ call'[b] = call[b]
  BY DEF Insert, CommitAndCallOn
<1>5. Insert(a) =>
        /\ call[a].step = "insert" /\ call'[a].step = "commit"
        /\ call'[a].block = call[a].block /\ call'[a].op = call[a].op
        /\ call'[a].ticker = call[a].ticker /\ call'[a].date = call[a].date
        /\ call'[a].sid = WithId(call[a]).sid
        /\ call'[a].rid = WithId(call[a]).rid
        /\ call'[a].rowid = WithId(call[a]).rowid
  <2>1. ASSUME Insert(a) PROVE call[a].step = "insert"
    BY <2>1 DEF Insert
  <2>2. ASSUME Insert(a)
        PROVE  LET k == WithId(call[a])
               IN  /\ call'[a].step = "commit"
                   /\ call'[a].block = k.block /\ call'[a].op = k.op
                   /\ call'[a].ticker = k.ticker /\ call'[a].date = k.date
                   /\ call'[a].sid = k.sid /\ call'[a].rid = k.rid
                   /\ call'[a].rowid = k.rowid
    BY <1>1, <1>2, <2>2 DEF Frames
  <2>3. QED
    BY <2>1, <2>2, WithIdFields
<1>6. CommitAndCallOn(a) =>
        /\ call[a].step = "commit" /\ call'[a].step = "insert"
        /\ call'[a].block = call[a].block /\ call'[a].op = NextOp(call[a].op)
        /\ call'[a].ticker = call[a].ticker /\ call'[a].date = call[a].date
        /\ call'[a].sid = call[a].sid
        /\ call'[a].rid = call[a].rid
        /\ call'[a].rowid = call[a].rowid
  <2>1. ASSUME CommitAndCallOn(a) PROVE call[a].step = "commit"
    BY <2>1 DEF CommitAndCallOn
  <2>2. QED
    BY <1>3, <2>1 DEF Frames
<1>7. QED
  BY <1>4, <1>5, <1>6

-----------------------------------------------------------------------------
(* Keys and references *)

\* Keys stay unique in fewer rows.
LEMMA FewerRows ==
  ASSUME NEW S, NEW T, T \subseteq S, KeysUnique(S)
  PROVE  KeysUnique(T)
BY DEF KeysUnique

\* No id and no rowid at or above n was given to a row.
IdsBelow(rows, n) ==
  \A x \in rows :
    /\ x.table \in {"input_snapshots", "runs", "outputs", "checks"} => x.id < n
    /\ x.table = "outputs" => x.rowid < n

HalfRow(k) == {OutputRow(k.rid, k.ticker, k.date, nextId)}

\* A drawn id is new, and save_output writes under the id of a run that has no
\* output yet: keys stay unique.
LEMMA InsertKeys ==
  ASSUME NEW k \in Frames, nextId \in Nat, NEW S \in SUBSET AllRows,
         KeysUnique(S), IdsBelow(S, nextId),
         k.op = "save_output" =>
           \A x \in S : x.table \in {"outputs", "checks"} => x.id # k.rid
  PROVE  KeysUnique(S \cup RowsOf(WithId(k)))
<1>1. k.op \in Ops
  BY DEF Frames
<1>2. \A x \in S : x.table \in {"input_snapshots", "runs", "outputs", "checks"} => x.id # nextId
  BY DEF IdsBelow, AllRows, Instruments, Snapshots, Runs, Outputs, Checks, Averages
<1>3. CASE k.op = "save_averages_snapshot" \/ k.op = "upsert_instrument"
  BY <1>3, InsertedRows DEF KeysUnique, AveragesRow, InstrumentRow
<1>4. CASE k.op = "save_input_snapshot"
  BY <1>2, <1>4, InsertedRows DEF KeysUnique, SnapshotRow
<1>5. CASE k.op = "create_run"
  BY <1>2, <1>5, InsertedRows DEF KeysUnique, RunRow
<1>6. CASE k.op = "save_output"
  BY <1>2, <1>6, InsertedRows DEF KeysUnique, OutputRow, ChecksRow
<1>7. QED
  BY <1>1, <1>3, <1>4, <1>5, <1>6 DEF Ops

LEMMA InsertIds ==
  ASSUME NEW k \in Frames, nextId \in Nat, NEW S \in SUBSET AllRows,
         IdsBelow(S, nextId), k.rid < nextId
  PROVE  IdsBelow(S \cup RowsOf(WithId(k)), IF DrawsId(k.op) THEN nextId + 1 ELSE nextId)
<1>1. k.op \in Ops /\ k.rid \in Nat
  BY DEF Frames
<1>2. \A x \in S :
        /\ x.table \in {"input_snapshots", "runs", "outputs", "checks"} => x.id \in Nat
        /\ x.table = "outputs" => x.rowid \in Nat
  BY DEF AllRows, Instruments, Snapshots, Runs, Outputs, Checks, Averages
<1>3. CASE k.op = "save_averages_snapshot" \/ k.op = "upsert_instrument"
  BY <1>2, <1>3, InsertedRows DEF IdsBelow, AveragesRow, InstrumentRow, DrawsId
<1>4. CASE k.op = "save_input_snapshot"
  BY <1>2, <1>4, InsertedRows DEF IdsBelow, SnapshotRow, DrawsId
<1>5. CASE k.op = "create_run"
  BY <1>2, <1>5, InsertedRows DEF IdsBelow, RunRow, DrawsId
<1>6. CASE k.op = "save_output"
  BY <1>1, <1>2, <1>6, InsertedRows DEF IdsBelow, OutputRow, ChecksRow, DrawsId
<1>7. QED
  BY <1>1, <1>3, <1>4, <1>5, <1>6 DEF Ops

\* The half of save_output that is inserted before it raises.
LEMMA HalfKeys ==
  ASSUME NEW k \in Frames, nextId \in Nat, NEW S \in SUBSET AllRows,
         KeysUnique(S), IdsBelow(S, nextId), k.rid < nextId,
         \A x \in S : x.table = "outputs" => x.id # k.rid
  PROVE  /\ KeysUnique(S \cup HalfRow(k))
         /\ IdsBelow(S \cup HalfRow(k), nextId + 1)
<1>1. k.rid \in Nat
  BY DEF Frames
<1>2. \A x \in S :
        /\ x.table \in {"input_snapshots", "runs", "outputs", "checks"} => x.id \in Nat
        /\ x.table = "outputs" => x.rowid \in Nat
  BY DEF AllRows, Instruments, Snapshots, Runs, Outputs, Checks, Averages
<1>3. KeysUnique(S \cup HalfRow(k))
  BY DEF KeysUnique, HalfRow, OutputRow
<1>4. IdsBelow(S \cup HalfRow(k), nextId + 1)
  BY <1>1, <1>2 DEF IdsBelow, HalfRow, OutputRow
<1>5. QED
  BY <1>3, <1>4

\* Well-referenced sets of rows can be joined.
LEMMA JoinReferences ==
  ASSUME NEW S, NEW T, WellReferenced(S), WellReferenced(T)
  PROVE  WellReferenced(S \cup T)
<1>1. \A o \in In("outputs", S \cup T) : o \in In("outputs", S) \/ o \in In("outputs", T)
  BY DEF In
<1>2. \A r \in In("runs", S \cup T) : r \in In("runs", S) \/ r \in In("runs", T)
  BY DEF In
<1>3. \A s \in In("input_snapshots", S \cup T) :
        s \in In("input_snapshots", S) \/ s \in In("input_snapshots", T)
  BY DEF In
<1>4. In("runs", S) \subseteq In("runs", S \cup T) /\ In("runs", T) \subseteq In("runs", S \cup T)
  BY DEF In
<1>5. \A k \in In("checks", S \cup T) : k \in In("checks", S) \/ k \in In("checks", T)
  BY DEF In
<1>6. In("outputs", S) \subseteq In("outputs", S \cup T) /\ In("outputs", T) \subseteq In("outputs", S \cup T)
  BY DEF In
<1>7. QED
  BY <1>1, <1>2, <1>3, <1>4, <1>5, <1>6 DEF WellReferenced

\* An output may join a database that holds its run, with or without its checks.
LEMMA OutputReferences ==
  ASSUME NEW k \in Frames, NEW n, NEW S, WellReferenced(S),
         RunRow(k.rid, k.ticker, k.date, k.sid, "PASS") \in S
  PROVE  LET o == OutputRow(k.rid, k.ticker, k.date, n)
         IN  /\ WellReferenced(S \cup {o})
             /\ WellReferenced(S \cup {o, ChecksRow(k.rid, k.ticker, k.date)})
<1> DEFINE o == OutputRow(k.rid, k.ticker, k.date, n)
           d == ChecksRow(k.rid, k.ticker, k.date)
           r == RunRow(k.rid, k.ticker, k.date, k.sid, "PASS")
<1>1. ASSUME NEW T, T \in {S \cup {o}, S \cup {o, d}} PROVE WellReferenced(T)
  <2>1. /\ In("runs", T) = In("runs", S)
        /\ In("input_snapshots", T) = In("input_snapshots", S)
        /\ In("outputs", T) = In("outputs", S) \cup {o}
        /\ In("checks", T) \subseteq In("checks", S) \cup {d}
        /\ S \subseteq T
    BY <1>1 DEF In, OutputRow, ChecksRow
  <2>2. r \in In("runs", S) /\ r.id = o.id /\ r.ticker = o.ticker /\ r.date = o.date /\ r.status = "PASS"
    BY DEF In, RunRow, OutputRow
  <2>3. o.id = d.id /\ o.ticker = d.ticker /\ o.date = d.date
    BY DEF ChecksRow, OutputRow
  <2> HIDE DEF o, d, r
  <2>4. QED
    BY <2>1, <2>2, <2>3 DEF WellReferenced
<1>2. QED
  BY <1>1

\* The rows of a frame may join a database that holds what they point to.
LEMMA InsertReferences ==
  ASSUME NEW k \in Frames, nextId \in Nat, NEW S, WellReferenced(S),
         k.op = "save_input_snapshot" => InstrumentRow(k.ticker) \in S,
         k.op = "create_run" /\ Verdict(k.block) = "PASS" => SnapshotRow(k.sid, k.ticker) \in S,
         k.op = "save_output" => RunRow(k.rid, k.ticker, k.date, k.sid, "PASS") \in S
  PROVE  WellReferenced(S \cup RowsOf(WithId(k)))
<1>1. k.op \in Ops
  BY DEF Frames
<1>2. CASE k.op = "save_averages_snapshot" \/ k.op = "upsert_instrument"
  BY <1>2, InsertedRows DEF WellReferenced, In, AveragesRow, InstrumentRow
<1>3. CASE k.op = "save_input_snapshot"
  <2>1. RowsOf(WithId(k)) = {SnapshotRow(nextId, k.ticker)}
    BY <1>3, InsertedRows
  <2>2. QED
    BY <1>3, <2>1 DEF WellReferenced, In, SnapshotRow
<1>4. CASE k.op = "create_run"
  <2>1. RowsOf(WithId(k)) = {RunRow(nextId, k.ticker, k.date, k.sid, Verdict(k.block))}
    BY <1>4, InsertedRows
  <2>2. QED
    BY <1>4, <2>1 DEF WellReferenced, In, RunRow
<1>5. CASE k.op = "save_output"
  <2>1. RowsOf(WithId(k)) = {OutputRow(k.rid, k.ticker, k.date, nextId),
                             ChecksRow(k.rid, k.ticker, k.date)}
    BY <1>5, InsertedRows
  <2>2. QED
    BY <1>5, <2>1, OutputReferences
<1>6. QED
  BY <1>1, <1>2, <1>3, <1>4, <1>5 DEF Ops
=============================================================================
