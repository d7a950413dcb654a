-------------------------- MODULE LiveData_proofs ---------------------------
(***************************************************************************)
(* Machine-checked proofs about LiveData, for any lists of tickers, dates, *)
(* processes, failures, kills and runs of the refresh.                     *)
(***************************************************************************)
EXTENDS LiveDataInv, Store_proofs, FiniteSetTheorems

-----------------------------------------------------------------------------
(* The bootstrap's connection *)

LEMMA BootConn ==
  /\ Boot \in Actors /\ Boot \in Conns /\ ConnOf(Boot) = Boot /\ Boot \in Procs
  /\ NoConn \notin Conns
BY ActorsAreDistinct, BootIsARequest DEF Actors, Conns, ConnOf

\* What the four kinds of moves do to the rows of the one connection.
LEMMA ConnectionMoves ==
  ASSUME BootTypeOK, ConnectionOK
  PROVE  /\ \A new : Write(Boot, new) =>
              /\ committed' = committed /\ pending'[Boot] = pending[Boot] \cup new
              /\ Written' = Written \cup new
         /\ CommitTxn(Boot) =>
              /\ committed' = Written /\ pending'[Boot] = {} /\ Written' = Written
         /\ Rollback(Boot) =>
              /\ committed' = committed /\ pending'[Boot] = {} /\ Written' = committed
         /\ UNCHANGED <<committed, pending, writer>> =>
              /\ committed' = committed /\ pending'[Boot] = pending[Boot]
              /\ Written' = Written
         /\ \/ \E new : Write(Boot, new)
            \/ CommitTxn(Boot) \/ Rollback(Boot) \/ UNCHANGED <<committed, pending, writer>>
            => /\ \A c \in Conns : c # Boot => pending'[c] = {}
               /\ writer' \in {NoConn, Boot}
<1> USE BootConn DEF BootTypeOK, StoreTypeOK, ConnectionOK, Written
<1>1. \A new : Write(Boot, new) =>
        /\ committed' = committed /\ pending'[Boot] = pending[Boot] \cup new
        /\ Written' = Written \cup new
  BY DEF Write
<1>2. CommitTxn(Boot) => committed' = Written /\ pending'[Boot] = {} /\ Written' = Written
  BY DEF CommitTxn
<1>3. Rollback(Boot) => committed' = committed /\ pending'[Boot] = {} /\ Written' = committed
  BY DEF Rollback
<1>4. \/ \E new : Write(Boot, new)
      \/ CommitTxn(Boot) \/ Rollback(Boot) \/ UNCHANGED <<committed, pending, writer>>
      => /\ \A c \in Conns : c # Boot => pending'[c] = {}
         /\ writer' \in {NoConn, Boot}
  BY DEF Write, CommitTxn, Rollback, Unlock
<1>5. QED
  BY <1>1, <1>2, <1>3, <1>4

LEMMA WrittenType == BootTypeOK => Written \in SUBSET AllRows /\ committed \subseteq Written
BY BootConn DEF BootTypeOK, StoreTypeOK, Written

\* Inside save_company_output the frame points to what was committed before.
LEMMA SaveReferences ==
  ASSUME BootTypeOK, BootOK, BootProgressOK, boot.phase = "save"
  PROVE  LET k == call[Boot] IN
         /\ k \in Frames /\ k.block = "api" /\ Verdict(k.block) = "PASS"
         /\ k.op \in {"upsert_instrument", "save_input_snapshot", "create_run", "save_output"}
         /\ k.op # "upsert_instrument" => InstrumentRow(k.ticker) \in committed
         /\ k.op \in {"create_run", "save_output"} => SnapshotRow(k.sid, k.ticker) \in committed
         /\ k.op = "save_output" => RunRow(k.rid, k.ticker, k.date, k.sid, "PASS") \in committed
BY BootConn DEF BootTypeOK, StoreTypeOK, BootOK, BootProgressOK, Frames, Ops, Verdict

-----------------------------------------------------------------------------
(* The steps of save_company_output *)

LEMMA InsertStep ==
  ASSUME StoreInv, boot.phase = "save", Insert(Boot), UNCHANGED bootVars
  PROVE  StoreInv'
<1> USE DEF StoreInv
<1> DEFINE k == call[Boot]
           new == RowsOf(WithId(k))
<1>1. /\ k \in Frames /\ k.op \in Ops /\ k.block = "api" /\ k.step = "insert"
      /\ nextId \in Nat /\ k.rid \in Nat /\ k.rid < nextId
  BY SaveReferences DEF Insert, Frames, BootTypeOK, StoreTypeOK, BootIdsOK
<1>2. /\ committed' = committed /\ pending'[Boot] = pending[Boot] \cup new
      /\ Written' = Written \cup new
      /\ \A c \in Conns : c # Boot => pending'[c] = {}
      /\ writer' \in {NoConn, Boot}
      /\ nextId' = IF DrawsId(k.op) THEN nextId + 1 ELSE nextId
  BY BootConn, ConnectionMoves DEF Insert
<1>3. /\ call'[Boot].step = "commit" /\ call'[Boot].op = k.op /\ call'[Boot].block = k.block
      /\ call'[Boot].ticker = k.ticker /\ call'[Boot].date = k.date
      /\ call'[Boot].sid = WithId(k).sid /\ call'[Boot].rid = WithId(k).rid
      /\ call'[Boot].rowid = WithId(k).rowid
  BY BootConn, MethodFrames DEF BootTypeOK
<1>4. BootTypeOK'
  <2>1. StoreTypeOK'
    BY <1>1, BootConn, BlockMethodTypes DEF BootTypeOK, BootOK
  <2>2. QED
    BY <2>1 DEF BootTypeOK, bootVars
<1>5. BootOK'
  BY <1>3, BootConn DEF BootOK, InMethod, bootVars
<1>6. ConnectionOK'
  <2>1. RowsOf(call'[Boot]) = new
    BY <1>1, <1>3, WithIdFields, RowsOfStep
  <2>2. QED
    BY <1>2, <2>1 DEF ConnectionOK
<1>7. BootIdsOK'
  <2>1. IdsBelow(Written \cup new, nextId')
    BY <1>1, <1>2, InsertIds, WrittenType DEF BootIdsOK, IdsBelow
  <2>2. WithId(k).rid < nextId'
    BY <1>1, <1>2, InsertedRows DEF Ops, DrawsId
  <2>3. AwaitsOutput(call'[Boot]) =>
          \A x \in Written \cup new : x.table \in {"outputs", "checks"} => x.id # call'[Boot].rid
    <3> SUFFICES ASSUME k.op = "create_run"
                 PROVE  \A x \in Written \cup new :
                          x.table \in {"outputs", "checks"} => x.id # nextId
      BY <1>1, <1>3, InsertedRows DEF AwaitsOutput
    <3>1. \A x \in Written : x.table \in {"outputs", "checks"} => x.id \in Nat /\ x.id < nextId
      BY WrittenType DEF BootIdsOK, AllRows, Instruments, Snapshots, Runs, Outputs, Checks,
                         Averages
    <3>2. \A x \in new : x.table = "runs"
      BY <1>1, InsertedRows DEF RunRow
    <3>3. QED
      BY <1>1, <3>1, <3>2
  <2>4. QED
    BY <1>2, <1>3, <2>1, <2>2, <2>3 DEF BootIdsOK, IdsBelow
<1>8. BootProgressOK'
  <2>1. /\ k.op # "save_input_snapshot" => WithId(k).sid = k.sid
        /\ k.op # "create_run" => WithId(k).rid = k.rid
    BY <1>1, InsertedRows DEF Ops
  <2>2. QED
    BY <1>2, <1>3, <2>1, SaveReferences DEF BootProgressOK
<1>9. BootRowsOK'
  <2>1. KeysUnique(Written \cup new)
    BY <1>1, InsertKeys, WrittenType DEF BootRowsOK, BootIdsOK, IdsBelow, AwaitsOutput
  <2>2. WellReferenced(Written \cup new)
    BY <1>1, InsertReferences, SaveReferences, WrittenType DEF BootRowsOK
  <2>3. QED
    BY <1>2, <2>1, <2>2 DEF BootRowsOK
<1>10. SucceededIsDurable'
  BY <1>2 DEF SucceededIsDurable, bootVars
<1>11. QED
  BY <1>4, <1>5, <1>6, <1>7, <1>8, <1>9, <1>10

LEMMA CallOnStep ==
  ASSUME StoreInv, boot.phase = "save", CommitAndCallOn(Boot), UNCHANGED bootVars
  PROVE  StoreInv'
<1> USE DEF StoreInv
<1> DEFINE k == call[Boot]
<1>1. /\ k \in Frames /\ k.block = "api" /\ k.step = "commit"
      /\ k.op \in {"upsert_instrument", "save_input_snapshot", "create_run"}
      /\ RowsOf(k) \subseteq pending[Boot]
  BY SaveReferences DEF CommitAndCallOn, CallsOn, ConnectionOK
<1>2. /\ committed' = Written /\ pending'[Boot] = {} /\ Written' = Written
      /\ \A c \in Conns : c # Boot => pending'[c] = {}
      /\ writer' \in {NoConn, Boot}
      /\ nextId' = nextId
  BY BootConn, ConnectionMoves DEF CommitAndCallOn
<1>3. /\ call'[Boot].step = "insert" /\ call'[Boot].op = NextOp(k.op)
      /\ call'[Boot].block = k.block
      /\ call'[Boot].ticker = k.ticker /\ call'[Boot].date = k.date
      /\ call'[Boot].sid = k.sid /\ call'[Boot].rid = k.rid
  BY BootConn, MethodFrames DEF BootTypeOK
<1>4. BootTypeOK'
  <2>1. StoreTypeOK'
    BY <1>1, BootConn, BlockMethodTypes DEF BootTypeOK, BootOK
  <2>2. QED
    BY <2>1 DEF BootTypeOK, bootVars
<1>5. BootOK'
  BY <1>1, <1>3, BootConn DEF BootOK, InMethod, bootVars, NextOp
<1>6. ConnectionOK'
  BY <1>2, <1>3 DEF ConnectionOK
<1>7. BootIdsOK'
  <2>1. AwaitsOutput(call'[Boot]) => AwaitsOutput(k)
    BY <1>1, <1>3 DEF AwaitsOutput, NextOp
  <2>2. QED
    BY <1>2, <1>3, <2>1 DEF BootIdsOK
<1>8. BootProgressOK'
  <2>1. RowsOf(k) \subseteq committed' /\ committed \subseteq committed'
    BY <1>1, <1>2, WrittenType DEF Written
  <2>2. CASE k.op = "upsert_instrument"
    BY <1>3, <2>1, <2>2 DEF BootProgressOK, NextOp, RowsOf
  <2>3. CASE k.op = "save_input_snapshot"
    BY <1>3, <2>1, <2>3, SaveReferences DEF BootProgressOK, NextOp, RowsOf
  <2>4. CASE k.op = "create_run"
    BY <1>1, <1>3, <2>1, <2>4, SaveReferences DEF BootProgressOK, NextOp, RowsOf
  <2>5. QED
    BY <1>1, <2>2, <2>3, <2>4
<1>9. BootRowsOK'
  BY <1>2 DEF BootRowsOK
<1>10. SucceededIsDurable'
  BY <1>2, WrittenType DEF SucceededIsDurable, bootVars
<1>11. QED
  BY <1>4, <1>5, <1>6, <1>7, <1>8, <1>9, <1>10

\* Any other move of the connection, with a frame that is outside a method or
\* about to begin the sequence of calls.
LEMMA StoreMoves ==
  ASSUME StoreInv, BootTypeOK', BootOK',
         \/ (CommitTxn(Boot) \/ Rollback(Boot) \/ UNCHANGED <<committed, pending, writer>>)
              /\ nextId' = nextId
         \/ boot.phase = "save" /\ HalfOutput(Boot),
         \/ call'[Boot].step \notin {"insert", "commit"} /\ call'[Boot].rid = call[Boot].rid
         \/ call'[Boot].step = "insert" /\ call'[Boot].op = "upsert_instrument"
              /\ call'[Boot].rid = 0
  PROVE  /\ ConnectionOK' /\ BootIdsOK' /\ BootProgressOK' /\ BootRowsOK'
         /\ committed \subseteq committed'
<1> USE DEF StoreInv
<1> DEFINE k == call[Boot]
<1>1. /\ k \in Frames /\ k.rid \in Nat /\ k.rid < nextId /\ nextId \in Nat \ {0}
      /\ call'[Boot].step # "commit"
      /\ ~AwaitsOutput(call'[Boot])
      /\ InMethod(call'[Boot]) => call'[Boot].op = "upsert_instrument"
  BY BootConn DEF Frames, BootTypeOK, StoreTypeOK, BootIdsOK, AwaitsOutput, InMethod
<1>2. call'[Boot].rid < nextId
  BY <1>1
<1>3. BootProgressOK'
  BY <1>1 DEF BootProgressOK
<1>4. /\ \A c \in Conns : c # Boot => pending'[c] = {}
      /\ writer' \in {NoConn, Boot}
  BY BootConn, ConnectionMoves DEF HalfOutput
<1>5. ConnectionOK'
  BY <1>1, <1>4 DEF ConnectionOK
<1>6. CASE /\ CommitTxn(Boot) \/ Rollback(Boot) \/ UNCHANGED <<committed, pending, writer>>
           /\ nextId' = nextId
  <2>1. Written' \subseteq Written /\ committed' \in {committed, Written}
        /\ Written' \in {committed, Written}
    BY <1>6, ConnectionMoves, WrittenType
  <2>2. KeysUnique(Written')
    BY <2>1, FewerRows DEF BootRowsOK
  <2>3. BootRowsOK'
    BY <2>1, <2>2 DEF BootRowsOK
  <2>4. BootIdsOK'
    BY <1>1, <1>2, <1>6, <2>1 DEF BootIdsOK
  <2>5. QED
    BY <1>3, <1>5, <2>1, <2>3, <2>4, WrittenType
<1>7. CASE boot.phase = "save" /\ HalfOutput(Boot)
  <2>1. /\ committed' = committed /\ Written' = Written \cup HalfRow(k)
        /\ nextId' = nextId + 1 /\ k.op = "save_output" /\ k.step = "insert"
    BY <1>7, BootConn, ConnectionMoves DEF HalfOutput, HalfRow
  <2>2. /\ KeysUnique(Written \cup HalfRow(k))
        /\ IdsBelow(Written \cup HalfRow(k), nextId + 1)
    BY <1>1, <2>1, HalfKeys, WrittenType DEF BootRowsOK, BootIdsOK, IdsBelow, AwaitsOutput
  <2>3. WellReferenced(Written \cup HalfRow(k))
    <3>1. RunRow(k.rid, k.ticker, k.date, k.sid, "PASS") \in Written
      BY <1>7, <2>1, SaveReferences, WrittenType
    <3>2. QED
      BY <1>1, <3>1, OutputReferences DEF BootRowsOK, HalfRow
  <2>4. BootRowsOK'
    BY <2>1, <2>2, <2>3 DEF BootRowsOK
  <2>5. call'[Boot].rid < nextId'
    BY <1>1, <1>2, <2>1
  <2>6. BootIdsOK'
    BY <1>1, <2>1, <2>2, <2>5 DEF BootIdsOK, IdsBelow
  <2>7. QED
    BY <1>3, <1>5, <2>1, <2>4, <2>6
<1>8. QED
  BY <1>6, <1>7

-----------------------------------------------------------------------------
(* The steps of the bootstrap *)

\* The loop goes to the next ticker or to its end.
LEMMA NextTickerType ==
  ASSUME boot \in Boots, boot.phase \in {"fetch", "save"}, boot.at \in BootEntries,
         NEW status, NextTicker(status)
  PROVE  /\ boot' \in Boots /\ boot'.persist = boot.persist
         /\ boot'.phase \in {"fetch", "close"}
         /\ boot'.phase = "fetch" => boot'.at \in BootEntries
<1>1. Len(BootTickers) \in Nat /\ boot.at \in 1..Len(BootTickers)
  BY BootTickersAssumption DEF BootEntries
<1>2. CASE boot.at = Len(BootTickers) \/ (status = "FAIL" /\ ~boot.keepGoing)
  <2>1. boot' = [boot EXCEPT !.phase = "close"]
    BY <1>2 DEF NextTicker
  <2>2. QED
    BY <2>1 DEF Boots
<1>3. CASE ~(boot.at = Len(BootTickers) \/ (status = "FAIL" /\ ~boot.keepGoing))
  <2>1. boot' = [boot EXCEPT !.phase = "fetch", !.at = @ + 1]
    BY <1>3 DEF NextTicker
  <2>2. boot'.phase = "fetch" /\ boot'.at = boot.at + 1 /\ boot'.persist = boot.persist
    BY <2>1 DEF Boots
  <2>3. boot' \in Boots
    <3>1. boot.at + 1 \in Nat
      BY DEF Boots
    <3>2. boot' = [boot EXCEPT !.phase = "fetch", !.at = boot.at + 1]
      BY <2>1 DEF Boots
    <3>3. QED
      BY <3>1, <3>2 DEF Boots
  <2>4. boot'.at \in BootEntries
    BY <1>1, <1>3, <2>2 DEF BootEntries
  <2>5. QED
    BY <2>2, <2>3, <2>4
<1>4. QED
  BY <1>2, <1>3

\* A result that is not a PASS promises nothing.
LEMMA FailedResult ==
  ASSUME results \in [BootEntries -> Items], boot.at \in BootEntries,
         results' = [results EXCEPT ![boot.at].status = "FAIL"],
         SucceededIsDurable, committed \subseteq committed', boot'.persist = boot.persist
  PROVE  SucceededIsDurable' /\ results' \in [BootEntries -> Items]
<1>1. results' \in [BootEntries -> Items]
  BY DEF Items
<1>2. \A i \in BootEntries : results'[i].status = "PASS" =>
        results[i].status = "PASS" /\ results'[i] = results[i]
  BY DEF Items
<1>3. QED
  BY <1>1, <1>2 DEF SucceededIsDurable

\* The frame of the connection once its method has returned or raised.
LEMMA EndedFrame ==
  ASSUME BootTypeOK, NEW s \in Steps, s \notin {"insert", "commit"},
         call' = [call EXCEPT ![Boot].step = s]
  PROVE  /\ call' \in [Actors -> Frames]
         /\ call'[Boot].step = s /\ call'[Boot].rid = call[Boot].rid
         /\ ~InMethod(call'[Boot])
<1>1. call[Boot] \in Frames
  BY BootConn DEF BootTypeOK, StoreTypeOK
<1>2. [call[Boot] EXCEPT !.step = s] \in Frames
  BY <1>1 DEF Frames
<1>3. QED
  BY <1>1, <1>2, BootConn, SetStep DEF BootTypeOK, StoreTypeOK, InMethod

LEMMA SavedStep ==
  ASSUME StoreInv, Saved
  PROVE  StoreInv'
<1> USE DEF StoreInv
<1> DEFINE k == call[Boot]
<1>1. /\ boot.phase = "save" /\ boot.at \in BootEntries /\ boot.persist
      /\ k \in Frames /\ k.block = "api" /\ k.step = "commit" /\ k.op = "save_output"
      /\ CommitTxn(Boot) /\ nextId' = nextId /\ NextTicker("PASS")
      /\ call' = [call EXCEPT ![Boot].step = "idle"]
      /\ results' = [results EXCEPT ![boot.at] = [status |-> "PASS", frame |-> k]]
  BY SaveReferences, BootConn DEF Saved, CommitLast, CallsOn, PersistsResult, BootOK
<1>2. /\ boot' \in Boots /\ boot'.persist = boot.persist
      /\ boot'.phase \in {"fetch", "close"}
      /\ boot'.phase = "fetch" => boot'.at \in BootEntries
  BY <1>1, NextTickerType DEF BootTypeOK
<1>3. /\ call' \in [Actors -> Frames] /\ call'[Boot].step = "idle"
      /\ call'[Boot].rid = k.rid /\ ~InMethod(call'[Boot])
  BY <1>1, EndedFrame DEF Steps
<1>4. BootTypeOK'
  <2>1. StoreTypeOK'
    BY <1>1, <1>3, BootConn, TransactionTypes DEF Saved, CommitLast, BootTypeOK, StoreTypeOK
  <2>2. results' \in [BootEntries -> Items]
    BY <1>1 DEF BootTypeOK, Items
  <2>3. QED
    BY <1>2, <2>1, <2>2 DEF BootTypeOK
<1>5. BootOK'
  BY <1>2, <1>3 DEF BootOK
<1>6. /\ ConnectionOK' /\ BootIdsOK' /\ BootProgressOK' /\ BootRowsOK'
      /\ committed \subseteq committed'
  BY <1>1, <1>3, <1>4, <1>5, StoreMoves
<1>7. SucceededIsDurable'
  <2> DEFINE All(j) == {InstrumentRow(j.ticker), SnapshotRow(j.sid, j.ticker),
                        RunRow(j.rid, j.ticker, j.date, j.sid, "PASS"),
                        OutputRow(j.rid, j.ticker, j.date, j.rowid),
                        ChecksRow(j.rid, j.ticker, j.date)}
  <2>1. RowsOf(k) \subseteq committed'
    BY <1>1, ConnectionMoves DEF ConnectionOK, Written
  <2>2. All(k) \subseteq committed'
    BY <1>1, <1>6, <2>1, SaveReferences DEF RowsOf
  <2>3. \A i \in BootEntries : results'[i].status = "PASS" =>
          results'[i] = results[i] \/ results'[i].frame = k
    BY <1>1 DEF BootTypeOK
  <2>4. \A i \in BootEntries : boot.persist /\ results[i].status = "PASS" =>
          All(results[i].frame) \subseteq committed
    BY DEF SucceededIsDurable
  <2>5. \A i \in BootEntries : results'[i].status = "PASS" =>
          All(results'[i].frame) \subseteq committed'
    BY <1>1, <1>6, <2>2, <2>3, <2>4
  <2>6. QED
    BY <2>5 DEF SucceededIsDurable
<1>8. QED
  BY <1>4, <1>5, <1>6, <1>7

LEMMA SaveRaisedStep ==
  ASSUME StoreInv, SaveRaised
  PROVE  StoreInv'
<1> USE DEF StoreInv
<1> DEFINE k == call[Boot]
<1>1. /\ boot.phase = "save" /\ boot.at \in BootEntries
      /\ k \in Frames /\ MethodRaises(Boot) /\ NextTicker("FAIL")
      /\ call' = [call EXCEPT ![Boot].step = "idle"]
      /\ results' = [results EXCEPT ![boot.at].status = "FAIL"]
  BY SaveReferences DEF SaveRaised, BootOK
<1>2. /\ boot' \in Boots /\ boot'.persist = boot.persist
      /\ boot'.phase \in {"fetch", "close"}
      /\ boot'.phase = "fetch" => boot'.at \in BootEntries
  BY <1>1, NextTickerType DEF BootTypeOK
<1>3. /\ call' \in [Actors -> Frames] /\ call'[Boot].step = "idle"
      /\ call'[Boot].rid = k.rid /\ ~InMethod(call'[Boot])
  BY <1>1, EndedFrame DEF Steps
<1>4. BootTypeOK'
  <2>1. TablesOK'
    BY <1>1, BootConn, BlockMethodTypes DEF BootTypeOK, BootOK
  <2>2. results' \in [BootEntries -> Items]
    BY <1>1 DEF BootTypeOK, Items
  <2>3. QED
    BY <1>2, <1>3, <2>1, <2>2 DEF BootTypeOK, StoreTypeOK, TablesOK
<1>5. BootOK'
  BY <1>2, <1>3 DEF BootOK
<1>6. /\ ConnectionOK' /\ BootIdsOK' /\ BootProgressOK' /\ BootRowsOK'
      /\ committed \subseteq committed'
  <2>1. \/ (Rollback(Boot) \/ UNCHANGED <<committed, pending, writer>>) /\ nextId' = nextId
        \/ HalfOutput(Boot)
    BY <1>1, BootConn DEF MethodRaises, Busy, Fault
  <2>2. QED
    BY <1>1, <1>3, <1>4, <1>5, <2>1, StoreMoves
<1>7. SucceededIsDurable'
  BY <1>1, <1>2, <1>6, FailedResult DEF BootTypeOK
<1>8. QED
  BY <1>4, <1>5, <1>6, <1>7

\* The steps before and after save_company_output that move the store.
LEMMA AroundSaveStep ==
  ASSUME StoreInv, today \in Dates, StartBoot \/ Analysed \/ BeforeSaveRaises \/ CloseBoot \/ KillBoot
  PROVE  StoreInv'
<1> USE DEF StoreInv
<1>0. call[Boot] \in Frames /\ boot \in Boots
  BY BootConn DEF BootTypeOK, StoreTypeOK
<1>1. CASE StartBoot
  <2>1. UNCHANGED <<storeVars, results>>
    BY <1>1 DEF StartBoot
  <2>2. /\ boot' \in Boots /\ boot'.persist = boot.persist /\ boot'.at = 1
        /\ boot'.phase = FirstPhase /\ boot.phase = "idle"
    BY <1>0, <1>1 DEF StartBoot, Boots, BootOK, FirstPhase
  <2>3. boot'.phase = "fetch" => 1 \in BootEntries
    BY <2>2, BootTickersAssumption DEF FirstPhase, BootEntries
  <2>4. QED
    BY <2>1, <2>2, <2>3 DEF storeVars, FirstPhase, BootTypeOK, StoreTypeOK, BootOK, InMethod,
       ConnectionOK, BootIdsOK, Written, BootProgressOK, BootRowsOK, SucceededIsDurable
<1>2. CASE Analysed /\ ~boot.persist
  <2>1. /\ UNCHANGED storeVars /\ boot.phase = "fetch" /\ NextTicker("PASS")
        /\ results' = [results EXCEPT ![boot.at].status = "PASS"]
    BY <1>2 DEF Analysed, storeVars
  <2>2. /\ boot' \in Boots /\ boot'.persist = boot.persist
        /\ boot'.phase \in {"fetch", "close"}
        /\ boot'.phase = "fetch" => boot'.at \in BootEntries
    BY <1>0, <2>1, NextTickerType DEF BootOK
  <2>3. results' \in [BootEntries -> Items]
    BY <2>1 DEF BootOK, BootTypeOK, Items
  <2>4. QED
    BY <1>2, <2>1, <2>2, <2>3 DEF storeVars, BootTypeOK, StoreTypeOK, BootOK, InMethod,
       ConnectionOK, BootIdsOK, Written, BootProgressOK, BootRowsOK, SucceededIsDurable
<1>3. CASE Analysed /\ boot.persist
  <2>1. /\ UNCHANGED <<committed, pending, writer, nextId, faults, results>>
        /\ boot.phase = "fetch" /\ boot' = [boot EXCEPT !.phase = "save"]
        /\ call' = [call EXCEPT ![Boot] = BootFrame("insert")]
    BY <1>3 DEF Analysed
  <2>2. /\ BootFrame("insert") \in Frames
        /\ BootFrame("insert").step = "insert" /\ BootFrame("insert").block = "api"
        /\ BootFrame("insert").op = "upsert_instrument" /\ BootFrame("insert").rid = 0
    <3>1. boot.at \in BootEntries
      BY <2>1 DEF BootOK
    <3>2. BootTicker \in Tickers /\ boot.date \in Dates
      BY <1>0, <3>1, BootTickersAssumption DEF BootTicker, BootEntries, Boots
    <3>3. QED
      BY <3>2, NewFrameType DEF BootFrame, NewFrame, Blocks, Ops, Steps
  <2>3. call'[Boot] = BootFrame("insert") /\ call' \in [Actors -> Frames]
    BY <2>1, <2>2, BootConn DEF BootTypeOK, StoreTypeOK
  <2>4. boot' \in Boots /\ boot'.phase = "save" /\ boot'.persist /\ boot'.at = boot.at
    BY <1>0, <1>3, <2>1 DEF Boots
  <2>5. BootTypeOK'
    BY <2>1, <2>3, <2>4 DEF BootTypeOK, StoreTypeOK
  <2>6. BootOK'
    BY <2>1, <2>2, <2>3, <2>4 DEF BootOK, InMethod
  <2>7. /\ ConnectionOK' /\ BootIdsOK' /\ BootProgressOK' /\ BootRowsOK'
        /\ committed \subseteq committed'
    BY <2>1, <2>2, <2>3, <2>5, <2>6, StoreMoves
  <2>8. QED
    BY <2>1, <2>4, <2>5, <2>6, <2>7 DEF SucceededIsDurable
<1>4. CASE BeforeSaveRaises
  <2>1. /\ UNCHANGED storeVars /\ boot.phase = "fetch" /\ NextTicker("FAIL")
        /\ results' = [results EXCEPT ![boot.at].status = "FAIL"]
        /\ boot.at \in BootEntries
    BY <1>4 DEF BeforeSaveRaises, BootOK
  <2>2. /\ boot' \in Boots /\ boot'.persist = boot.persist
        /\ boot'.phase \in {"fetch", "close"}
        /\ boot'.phase = "fetch" => boot'.at \in BootEntries
    BY <1>0, <2>1, NextTickerType
  <2>3. SucceededIsDurable' /\ results' \in [BootEntries -> Items]
    BY <2>1, <2>2, FailedResult DEF storeVars, BootTypeOK
  <2>4. QED
    BY <2>1, <2>2, <2>3 DEF storeVars, BootTypeOK, StoreTypeOK, BootOK, InMethod,
       ConnectionOK, BootIdsOK, Written, BootProgressOK, BootRowsOK
<1>5. CASE CloseBoot \/ KillBoot
  <2>1. /\ Rollback(Boot) /\ UNCHANGED <<nextId, faults, results>>
        /\ call' = [call EXCEPT ![Boot].step = "done"]
        /\ boot' \in {[boot EXCEPT !.phase = "done"], [boot EXCEPT !.phase = "dead"]}
    BY <1>5 DEF CloseBoot, KillBoot
  <2>2. /\ call' \in [Actors -> Frames] /\ call'[Boot].step = "done"
        /\ call'[Boot].rid = call[Boot].rid /\ ~InMethod(call'[Boot])
    BY <2>1, EndedFrame DEF Steps
  <2>3. boot' \in Boots /\ boot'.phase \in {"done", "dead"} /\ boot'.persist = boot.persist
    BY <1>0, <2>1 DEF Boots
  <2>4. BootTypeOK'
    BY <2>1, <2>2, <2>3, BootConn, TransactionTypes DEF BootTypeOK, StoreTypeOK
  <2>5. BootOK'
    BY <2>2, <2>3 DEF BootOK
  <2>6. /\ ConnectionOK' /\ BootIdsOK' /\ BootProgressOK' /\ BootRowsOK'
        /\ committed \subseteq committed'
    BY <2>1, <2>2, <2>4, <2>5, StoreMoves
  <2>7. QED
    BY <2>1, <2>3, <2>4, <2>5, <2>6 DEF SucceededIsDurable
<1>6. QED
  BY <1>1, <1>2, <1>3, <1>4, <1>5

\* Nothing else moves the store.
LEMMA StoreStep ==
  ASSUME StoreInv, today \in Dates, [Next]_vars
  PROVE  StoreInv'
<1>1. ASSUME UNCHANGED <<storeVars, bootVars>> PROVE StoreInv'
  BY <1>1 DEF StoreInv, storeVars, bootVars, BootTypeOK, StoreTypeOK, BootOK, InMethod,
     ConnectionOK, BootIdsOK, Written, BootProgressOK, BootRowsOK, SucceededIsDurable
<1>2. CASE \/ EodActs
           \/ KillEod /\ UNCHANGED <<storeVars, bootVars>>
           \/ Midnight /\ UNCHANGED <<storeVars, eodVars, bootVars>>
           \/ UNCHANGED vars
  BY <1>1, <1>2 DEF EodActs, vars
<1>3. CASE BootActs
  <2>1. CASE SaveMethod
    BY <2>1, InsertStep, CallOnStep DEF SaveMethod
  <2>2. CASE BootFetch \/ (FetchStep(Boot) /\ UNCHANGED <<storeVars, bootVars>>)
    BY <1>1, <2>2 DEF BootFetch
  <2>3. QED
    BY <1>3, <2>1, <2>2, SavedStep, SaveRaisedStep, AroundSaveStep DEF BootActs, BootStep
<1>4. CASE KillBoot /\ UNCHANGED eodVars
  BY <1>4, AroundSaveStep
<1>5. QED
  BY <1>2, <1>3, <1>4 DEF Next

-----------------------------------------------------------------------------
(* The cache *)

\* What a process may do to the cache and to its own fetch.
CacheMove(p) ==
  \/ \E t \in Tickers : BeginFetch(p, t)
  \/ FetchStep(p)
  \/ Taken(p) /\ UNCHANGED <<today, entry, refresh>>

CacheKept(p) ==
  /\ CacheTypeOK' /\ fetch' \in [Procs -> Fetches] /\ CacheOK' /\ today' = today
  /\ \A q \in Procs : q # p => fetch'[q] = fetch[q]

LEMMA CacheMoves ==
  ASSUME FilesTypeOK, CacheOK, NEW p \in Procs, CacheMove(p)
  PROVE  CacheKept(p)
<1> USE DEF FilesTypeOK, CacheTypeOK
<1>0. today \in Dates /\ today \in Nat /\ fetch[p] \in Fetches /\ Dates \subseteq Nat
  BY DatesAreOrdered
<1>a. ASSUME NEW f \in Fetches, fetch' = [fetch EXCEPT ![p] = f], UNCHANGED <<today, entry, refresh>>,
             f.step # "none" => f.key \in Dates /\ f.key <= today,
             f.step \in {"open", "write", "got"} => f.day >= f.key
      PROVE  CacheKept(p)
  <2>1. fetch' \in [Procs -> Fetches] /\ \A q \in Procs : fetch'[q] = IF q = p THEN f ELSE fetch[q]
    BY <1>a
  <2>2. \A q \in Procs : fetch'[q].step \in FetchSteps /\ fetch'[q].ticker \in Tickers
    BY <2>1 DEF Fetches
  <2>3. CacheOK'
    BY <1>a, <2>1 DEF CacheOK
  <2>4. QED
    BY <1>a, <2>1, <2>2, <2>3 DEF CacheKept
<1>1. ASSUME NEW t \in Tickers, BeginFetch(p, t) PROVE CacheKept(p)
  <2> DEFINE f == [step |-> IF refresh[p] THEN "download" ELSE "lookup",
                   ticker |-> t, key |-> Key(today), day |-> 0]
  <2>1. f \in Fetches /\ f.step \in {"download", "lookup"} /\ f.key = today
    BY DEF Fetches, FetchSteps, Key
  <2>2. fetch' = [fetch EXCEPT ![p] = f] /\ UNCHANGED <<today, entry, refresh>>
    BY <1>1 DEF BeginFetch
  <2> HIDE DEF f
  <2>3. /\ f.step # "none" => f.key \in Dates /\ f.key <= today
        /\ f.step \in {"open", "write", "got"} => f.day >= f.key
    BY <1>0, <2>1
  <2>4. QED
    BY <1>a, <2>1, <2>2, <2>3
<1>2. CASE Taken(p) /\ UNCHANGED <<today, entry, refresh>>
  <2> DEFINE f == [fetch[p] EXCEPT !.step = "none", !.day = 0]
  <2>1. f \in Fetches /\ f.step = "none"
    BY <1>0 DEF Fetches, FetchSteps
  <2>2. fetch' = [fetch EXCEPT ![p] = f]
    BY <1>2 DEF Taken
  <2> HIDE DEF f
  <2>3. QED
    BY <1>2, <1>a, <2>1, <2>2
<1>c. ASSUME NEW s \in FetchSteps, NEW f, f = [fetch[p] EXCEPT !.step = s]
      PROVE  f \in Fetches /\ f.step = s /\ f.key = fetch[p].key /\ f.day = fetch[p].day
  BY <1>0, <1>c DEF Fetches
<1>s. /\ "failed" \in FetchSteps /\ "download" \in FetchSteps /\ "got" \in FetchSteps
      /\ "open" \in FetchSteps /\ "write" \in FetchSteps
  BY DEF FetchSteps
<1>d. fetch[p].step # "none" =>
        /\ fetch[p].key \in Dates /\ fetch[p].key <= today
        /\ At(p) \in Tickers \X Dates /\ At(p) = <<fetch[p].ticker, fetch[p].key>>
        /\ entry[At(p)] \in FileStates
        /\ entry[At(p)].state = "whole" => entry[At(p)].day >= fetch[p].key
  BY <1>0 DEF CacheOK, At, Fetches
<1>3. CASE Lookup(p)
  <2>1. PICK f : /\ fetch' = [fetch EXCEPT ![p] = f]
                 /\ \/ f = [fetch[p] EXCEPT !.step = "failed"]
                    \/ f = [fetch[p] EXCEPT !.step = "download"]
                    \/ /\ f = [fetch[p] EXCEPT !.step = "got", !.day = entry[At(p)].day]
                       /\ entry[At(p)].state = "whole"
    BY <1>3 DEF Lookup
  <2>2. fetch[p].step = "lookup" /\ UNCHANGED <<today, entry, refresh>>
    BY <1>3 DEF Lookup
  <2>3. entry[At(p)].day \in Nat
    BY <1>d, <2>2 DEF FileStates
  <2>4. /\ f \in Fetches /\ f.key \in Dates /\ f.key <= today
        /\ f.step \in {"open", "write", "got"} => f.day >= f.key
    <3>1. CASE f = [fetch[p] EXCEPT !.step = "failed"]
      <4>1. f \in Fetches /\ f.step = "failed" /\ f.key = fetch[p].key
        BY <1>c, <1>s, <3>1
      <4>2. QED
        BY <1>d, <2>2, <4>1
    <3>4. CASE f = [fetch[p] EXCEPT !.step = "download"]
      <4>1. f \in Fetches /\ f.step = "download" /\ f.key = fetch[p].key
        BY <1>c, <1>s, <3>4
      <4>2. QED
        BY <1>d, <2>2, <4>1
    <3>2. CASE /\ f = [fetch[p] EXCEPT !.step = "got", !.day = entry[At(p)].day]
               /\ entry[At(p)].state = "whole"
      <4>1. f \in Fetches /\ f.key = fetch[p].key /\ f.day = entry[At(p)].day
        BY <1>0, <1>s, <2>3, <3>2 DEF Fetches
      <4>2. f.day >= f.key
        BY <1>d, <2>2, <3>2, <4>1
      <4>3. f.key \in Dates /\ f.key <= today
        BY <1>d, <2>2, <4>1
      <4>4. QED
        BY <4>1, <4>2, <4>3
    <3>5. QED
      BY <2>1, <3>1, <3>2, <3>4
  <2>5. QED
    BY <1>a, <2>1, <2>2, <2>4
<1>4. CASE Download(p)
  <2>1. PICK f : /\ fetch' = [fetch EXCEPT ![p] = f]
                 /\ \/ f = [fetch[p] EXCEPT !.step = "failed"]
                    \/ f = [fetch[p] EXCEPT !.step = "open", !.day = today]
    BY <1>4 DEF Download
  <2>2. fetch[p].step = "download" /\ UNCHANGED <<today, entry, refresh>>
    BY <1>4 DEF Download
  <2>3. /\ f \in Fetches /\ f.key \in Dates /\ f.key <= today
        /\ f.step \in {"open", "write", "got"} => f.day >= f.key
    <3>1. CASE f = [fetch[p] EXCEPT !.step = "failed"]
      <4>1. f \in Fetches /\ f.step = "failed" /\ f.key = fetch[p].key
        BY <1>c, <1>s, <3>1
      <4>2. QED
        BY <1>d, <2>2, <4>1
    <3>2. CASE f = [fetch[p] EXCEPT !.step = "open", !.day = today]
      <4>1. f \in Fetches /\ f.key = fetch[p].key /\ f.day = today
        BY <1>0, <1>s, <3>2 DEF Fetches
      <4>2. f.key \in Dates /\ f.key <= today
        BY <1>d, <2>2, <4>1
      <4>3. f.day >= f.key
        BY <1>0, <4>1, <4>2
      <4>4. QED
        BY <4>1, <4>2, <4>3
    <3>3. QED
      BY <2>1, <3>1, <3>2
  <2>4. QED
    BY <1>a, <2>1, <2>2, <2>3
<1>5. CASE WriteFails(p)
  <2>1. /\ fetch' = [fetch EXCEPT ![p] = [fetch[p] EXCEPT !.step = "failed"]]
        /\ fetch[p].step = "write" /\ UNCHANGED <<today, entry, refresh>>
    BY <1>5 DEF WriteFails
  <2> DEFINE f == [fetch[p] EXCEPT !.step = "failed"]
  <2>2. f \in Fetches /\ f.step = "failed" /\ f.key = fetch[p].key
    BY <1>c, <1>s
  <2> HIDE DEF f
  <2>3. f.key \in Dates /\ f.key <= today
    BY <1>d, <2>1, <2>2
  <2>4. fetch' = [fetch EXCEPT ![p] = f]
    BY <2>1 DEF f
  <2>5. QED
    BY <1>a, <2>1, <2>2, <2>3, <2>4
<1>6. ASSUME NEW e \in FileStates, NEW s \in {"write", "got"},
             fetch[p].step \in {"open", "write"},
             e.state = "whole" => e.day >= fetch[p].key,
             entry' = [entry EXCEPT ![At(p)] = e],
             fetch' = [fetch EXCEPT ![p].step = s], UNCHANGED <<today, refresh>>
      PROVE  CacheKept(p)
  <2> DEFINE f == [fetch[p] EXCEPT !.step = s]
  <2>1. f \in Fetches /\ f.step = s /\ f.key = fetch[p].key /\ f.day = fetch[p].day
    BY <1>c DEF FetchSteps
  <2>2. fetch' = [fetch EXCEPT ![p] = f]
    BY <1>6
  <2> HIDE DEF f
  <2>3. fetch' \in [Procs -> Fetches] /\ \A q \in Procs : fetch'[q] = IF q = p THEN f ELSE fetch[q]
    BY <2>1, <2>2
  <2>4. \A q \in Procs : fetch'[q].step \in FetchSteps /\ fetch'[q].ticker \in Tickers
    BY <2>3 DEF Fetches
  <2>5. entry' \in [Tickers \X Dates -> FileStates]
    BY <1>6
  <2>6. \A t \in Tickers, d \in Dates :
          entry'[<<t, d>>].state = "whole" => entry'[<<t, d>>].day >= d
    BY <1>6, <1>d DEF CacheOK
  <2>7. CacheOK'
    BY <1>6, <1>d, <2>1, <2>3, <2>6 DEF CacheOK
  <2>8. QED
    BY <1>6, <2>3, <2>4, <2>5, <2>7 DEF CacheKept
<1>e. TornBy(p) \in FileStates /\ TornBy(p).state = "torn"
  BY <1>0 DEF TornBy, FileStates
<1>7. CASE OpenEntry(p)
  BY <1>6, <1>7, <1>e DEF OpenEntry
<1>8. CASE CloseEntry(p)
  <2>1. PICK e \in {WholeFile(fetch[p].day, p), TornBy(p)} : entry' = [entry EXCEPT ![At(p)] = e]
    BY <1>8 DEF CloseEntry
  <2>2. /\ WholeFile(fetch[p].day, p) \in FileStates
        /\ WholeFile(fetch[p].day, p).day = fetch[p].day
    BY <1>0 DEF WholeFile, FileStates, Fetches
  <2>3. fetch[p].step = "write" /\ fetch[p].day >= fetch[p].key
    BY <1>8 DEF CloseEntry, CacheOK
  <2>4. QED
    BY <1>6, <1>8, <1>e, <2>1, <2>2, <2>3 DEF CloseEntry
<1>9. QED
  BY <1>1, <1>2, <1>3, <1>4, <1>5, <1>7, <1>8 DEF CacheMove, FetchStep

-----------------------------------------------------------------------------
(* The refresh *)

LEMMA EodList == Len(EodWatchlist) \in Nat /\ \A i \in EodEntries : EodWatchlist[i] \in Tickers
BY EodWatchlistAssumption DEF EodEntries

LEMMA DateOrNone == ASSUME NEW d \in Dates \cup {0} PROVE d \in Nat
BY DatesAreOrdered

LEMMA NatReflexive == \A n \in Nat : n <= n
OBVIOUS

LEMMA EodMoved ==
  ASSUME NEW e \in EodRuns, NEW phase \in {"refresh", "batch", "check", "alert"}, NEW at \in Nat
  PROVE  [e EXCEPT !.phase = phase, !.at = at] \in EodRuns
BY DEF EodRuns

\* The refresh stands still: only its own fetch and the cache may move, and
\* the day may end.
LEMMA EodRests ==
  ASSUME FilesInv, UNCHANGED eodVars,
         CacheTypeOK', fetch' \in [Procs -> Fetches], CacheOK', today <= today',
         fetch'[Eod].step # "none" =>
           eod.phase \in {"refresh", "saving"} /\ fetch'[Eod].key >= eod.date,
         eod.phase = "saving" => fetch'[Eod].step = "got"
  PROVE  FilesInv'
<1> USE DEF FilesInv, eodVars
<1>1. FilesTypeOK'
  BY DEF FilesTypeOK
<1>2. EodOK'
  <2>0. eod \in EodRuns /\ today \in Dates /\ today' \in Dates
    BY DEF FilesTypeOK, CacheTypeOK
  <2>a. eod.date \in Dates \cup {0}
    BY <2>0 DEF EodRuns
  <2>1. today \in Nat /\ today' \in Nat /\ eod.date \in Nat
    BY <2>0, <2>a, DateOrNone
  <2>2. QED
    BY <2>1 DEF EodOK
<1>3. RecordedOK' /\ ReportedFreshIsFresh' /\ LogOK'
  BY DEF RecordedOK, ReportedFreshIsFresh, LogOK
<1>4. JudgedOK'
  BY DEF JudgedOK, Judged, RefreshFails
<1>5. QED
  BY <1>1, <1>2, <1>3, <1>4

\* The other process moves the cache.
LEMMA OtherMoves ==
  ASSUME FilesInv, UNCHANGED eodVars, CacheMove(Boot)
  PROVE  FilesInv'
<1>1. CacheKept(Boot) /\ Boot \in Procs /\ fetch'[Eod] = fetch[Eod]
  BY CacheMoves, BootConn, EodIsAProcess, TwoProcesses DEF FilesInv, CacheKept
<1>2. today <= today'
  BY <1>1, DatesAreOrdered DEF CacheKept, CacheTypeOK
<1>3. QED
  BY <1>1, <1>2, EodRests DEF CacheKept, FilesInv, EodOK

\* The refresh begins a fetch or goes on with it.
LEMMA EodFetches ==
  ASSUME FilesInv, EodFetch \/ (FetchStep(Eod) /\ UNCHANGED eodVars)
  PROVE  FilesInv'
<1> USE DEF FilesInv
<1>0. today \in Nat /\ fetch[Eod] \in Fetches
  BY DatesAreOrdered, EodIsAProcess DEF FilesTypeOK, CacheTypeOK
<1>1. CASE EodFetch
  <2>1. BeginFetch(Eod, Entry) /\ UNCHANGED eodVars /\ eod.phase = "refresh" /\ Entry \in Tickers
    BY <1>1, EodList DEF EodFetch, Entry, EodOK
  <2>2. CacheKept(Eod)
    BY <2>1, CacheMoves, EodIsAProcess DEF CacheMove
  <2>3. fetch'[Eod].key = today
    BY <2>1, EodIsAProcess DEF BeginFetch, Key, FilesTypeOK
  <2>4. eod.date <= today
    BY DEF EodOK
  <2>5. fetch'[Eod].key >= eod.date
    BY <1>0, <2>3, <2>4
  <2>6. QED
    BY <1>0, <2>1, <2>2, <2>5, EodRests DEF CacheKept
<1>2. CASE FetchStep(Eod) /\ UNCHANGED eodVars
  <2>1. CacheKept(Eod)
    BY <1>2, CacheMoves, EodIsAProcess DEF CacheMove
  <2>2. /\ fetch[Eod].step \in {"lookup", "download", "open", "write"}
        /\ fetch'[Eod].key = fetch[Eod].key
    <3>1. CASE Lookup(Eod)
      BY <1>0, <3>1, EodIsAProcess DEF Lookup, Fetches, FilesTypeOK
    <3>2. CASE Download(Eod)
      BY <1>0, <3>2, EodIsAProcess DEF Download, Fetches, FilesTypeOK
    <3>3. CASE OpenEntry(Eod) \/ CloseEntry(Eod) \/ WriteFails(Eod)
      BY <1>0, <3>3, EodIsAProcess DEF OpenEntry, CloseEntry, WriteFails, Fetches, FilesTypeOK
    <3>4. QED
      BY <1>2, <3>1, <3>2, <3>3 DEF FetchStep
  <2>3. eod.phase = "refresh" /\ fetch'[Eod].key >= eod.date
    BY <2>2 DEF EodOK
  <2>4. QED
    BY <1>0, <1>2, <2>1, <2>3, EodRests DEF CacheKept
<1>3. QED
  BY <1>1, <1>2

\* A pass over the list goes on to the next entry or is over.
LEMMA AdvanceSteps ==
  ASSUME eod \in EodRuns, eod.at \in EodEntries, NEW phase, NEW next,
         eod' = Advance(phase, next), phase # next,
         phase \in {"refresh", "batch"}, next \in {"check", "alert"}
  PROVE  /\ eod' \in EodRuns
         /\ eod'.live = eod.live /\ eod'.date = eod.date /\ eod'.alerts = eod.alerts
         /\ \/ /\ eod'.phase = phase /\ eod'.at \in EodEntries
               /\ \A i \in EodEntries : i < eod'.at => i < eod.at \/ i = eod.at
            \/ /\ eod'.phase = next /\ eod'.at = 1
               /\ \A i \in EodEntries : i < eod.at \/ i = eod.at
<1>0. eod.at \in 1..Len(EodWatchlist) /\ Len(EodWatchlist) \in Nat
  BY EodList DEF EodEntries
<1>1. CASE eod.at < Len(EodWatchlist)
  <2>1. eod' = [eod EXCEPT !.phase = phase, !.at = @ + 1]
    BY <1>1 DEF Advance
  <2>2. /\ eod'.phase = phase /\ eod'.at = eod.at + 1
        /\ eod'.live = eod.live /\ eod'.date = eod.date /\ eod'.alerts = eod.alerts
    BY <2>1 DEF EodRuns
  <2>3. eod' \in EodRuns
    <3>1. eod.at + 1 \in Nat
      BY <1>0
    <3>2. eod' = [eod EXCEPT !.phase = phase, !.at = eod.at + 1]
      BY <2>1 DEF EodRuns
    <3>3. QED
      BY <3>1, <3>2 DEF EodRuns
  <2>4. eod'.at \in EodEntries /\ \A i \in EodEntries : i < eod'.at => i < eod.at \/ i = eod.at
    BY <1>0, <1>1, <2>2 DEF EodEntries
  <2>5. QED
    BY <2>2, <2>3, <2>4
<1>2. CASE ~(eod.at < Len(EodWatchlist))
  <2>1. eod' = [eod EXCEPT !.phase = next, !.at = 1]
    BY <1>2 DEF Advance
  <2>2. /\ eod'.phase = next /\ eod'.at = 1
        /\ eod'.live = eod.live /\ eod'.date = eod.date /\ eod'.alerts = eod.alerts
    BY <2>1 DEF EodRuns
  <2>3. eod' \in EodRuns
    <3>1. next \in {"refresh", "batch", "check", "alert"} /\ 1 \in Nat
      OBVIOUS
    <3>2. [eod EXCEPT !.phase = next, !.at = 1] \in EodRuns
      BY <3>1, EodMoved, Zenon
    <3>3. QED
      BY <2>1, <3>2, Zenon
  <2>4. \A i \in EodEntries : i < eod.at \/ i = eod.at
    BY <1>0, <1>2 DEF EodEntries
  <2>5. QED
    BY <2>2, <2>3, <2>4
<1>3. QED
  BY <1>1, <1>2

\* Giving up or taking a fetch ends it.
LEMMA TakenStep ==
  ASSUME FilesTypeOK, CacheOK, Taken(Eod), UNCHANGED <<today, entry, refresh>>
  PROVE  CacheKept(Eod) /\ fetch'[Eod].step = "none"
<1>1. CacheKept(Eod)
  BY CacheMoves, EodIsAProcess DEF CacheMove
<1>2. fetch'[Eod].step = "none"
  BY EodIsAProcess DEF Taken, FilesTypeOK, Fetches
<1>3. QED
  BY <1>1, <1>2

LEMMA CacheStays ==
  ASSUME FilesInv, UNCHANGED cacheVars
  PROVE  CacheTypeOK' /\ CacheOK' /\ fetch' = fetch /\ today' = today
BY DEF FilesInv, cacheVars, FilesTypeOK, CacheTypeOK, CacheOK

\* The refresh moves, with no fetch of its own under way.
LEMMA EodMoves ==
  ASSUME FilesInv,
         CacheTypeOK', fetch' \in [Procs -> Fetches], CacheOK', today' = today,
         fetch'[Eod].step = "none",
         eod' \in EodRuns, eod'.phase \notin {"idle", "saving"}, eod'.date \in Dates,
         eod'.date <= today,
         eod'.phase \in {"refresh", "batch"} => eod'.at \in EodEntries,
         eod'.phase = "check" => eod'.at = 1,
         eod'.phase \in {"refresh", "check"} =>
           eod'.live /\ \A i \in EodEntries : outcomes'[i].batch = "none",
         recorded' \in [Tickers -> FileStates],
         outcomes' \in [EodEntries -> EodOutcomes],
         rows' \in [Dates -> [BatchStatuses -> Nat]],
         log' \in [Dates -> Logs],
         RecordedOK', ReportedFreshIsFresh', JudgedOK', LogOK'
  PROVE  FilesInv'
<1>1. FilesTypeOK'
  BY DEF FilesTypeOK
<1>2. EodOK'
  BY DEF EodOK
<1>3. QED
  BY <1>1, <1>2 DEF FilesInv

LEMMA Starts ==
  ASSUME FilesInv, StartEod
  PROVE  FilesInv'
<1> USE DEF FilesInv
<1>1. PICK live \in BOOLEAN :
        eod' = [phase |-> IF live THEN Pass("refresh", "check") ELSE Pass("batch", "alert"),
                at |-> 1, live |-> live, date |-> today, alerts |-> {}, runs |-> eod.runs + 1]
  BY DEF StartEod
<1>2. /\ eod.phase \in {"idle", "done", "raised"} /\ eod.runs < MaxRuns
      /\ outcomes' = [i \in EodEntries |-> NoOutcome]
      /\ UNCHANGED <<cacheVars, recorded, rows, log>>
  BY DEF StartEod
<1>3. CacheTypeOK' /\ CacheOK' /\ fetch' = fetch /\ today' = today
  BY <1>2, CacheStays
<1>4. fetch[Eod].step = "none"
  BY <1>2 DEF EodOK
<1>5. today \in Dates /\ today \in Nat /\ eod.date \in Nat
  <2>1. today \in Dates /\ eod.date \in Dates \cup {0}
    BY DEF FilesTypeOK, CacheTypeOK, EodRuns
  <2>2. QED
    BY <2>1, DateOrNone
<1>6. eod'.phase = (IF live THEN Pass("refresh", "check") ELSE Pass("batch", "alert"))
      /\ eod'.at = 1 /\ eod'.live = live /\ eod'.date = today
  BY <1>1
<1>7. eod'.phase \in {"refresh", "check", "batch", "alert"}
      /\ (eod'.phase \in {"refresh", "check"} => live)
      /\ (eod'.phase \in {"refresh", "batch"} => EodWatchlist # <<>>)
      /\ (eod'.phase = "check" => EodWatchlist = <<>>)
      /\ (live => eod'.phase \in {"refresh", "check"})
  BY <1>6 DEF Pass
<1>8. (EodWatchlist # <<>> => 1 \in EodEntries) /\ (EodWatchlist = <<>> => EodEntries = {})
  BY EodWatchlistAssumption DEF EodEntries
<1>9. eod' \in EodRuns
  <2>0. eod.runs \in 0..MaxRuns
    BY DEF FilesTypeOK, EodRuns
  <2>1. eod.runs + 1 \in 0..MaxRuns
    BY <1>2, <2>0, MaxRunsIsNat
  <2>2. QED
    BY <1>1, <1>5, <1>7, <2>1 DEF EodRuns
<1>10. outcomes' \in [EodEntries -> EodOutcomes]
       /\ \A i \in EodEntries : outcomes'[i].batch = "none" /\ outcomes'[i].refresh = "none"
  BY <1>2 DEF NoOutcome, EodOutcomes
<1>11. RecordedOK' /\ ReportedFreshIsFresh'
  BY <1>10 DEF RecordedOK, ReportedFreshIsFresh
<1>12. JudgedOK'
  <2>1. \A i \in EodEntries : ~(i < 1)
    BY DEF EodEntries
  <2>2. QED
    BY <1>6, <1>7, <1>8, <2>1 DEF JudgedOK
<1>13. LogOK'
  <2>1. \A d \in Dates : log[d].state # "absent" => d <= today
    <3>1. SUFFICES ASSUME NEW d \in Dates, d <= eod.date PROVE d <= today
      BY DEF LogOK
    <3>2. d \in Nat /\ eod.date <= today
      BY DateOrNone DEF EodOK
    <3>3. QED
      BY <1>5, <3>1, <3>2
  <2>2. QED
    BY <1>2, <1>6, <1>7, <2>1 DEF LogOK
<1>14. /\ fetch' \in [Procs -> Fetches] /\ recorded' \in [Tickers -> FileStates]
       /\ rows' \in [Dates -> [BatchStatuses -> Nat]] /\ log' \in [Dates -> Logs]
  BY <1>2, <1>3 DEF FilesTypeOK
<1>15. today <= today
  BY <1>5
<1>16. QED
  BY <1>3, <1>4, <1>5, <1>6, <1>7, <1>8, <1>9, <1>10, <1>11, <1>12, <1>13, <1>14, <1>15, EodMoves

LEMMA Opens ==
  ASSUME FilesInv, OpenRecorded
  PROVE  FilesInv'
<1> USE DEF FilesInv
<1>1. /\ eod.phase = "refresh" /\ fetch[Eod].step = "got"
      /\ eod' = [eod EXCEPT !.phase = "saving"]
      /\ recorded' = (IF Entry \in Refreshed THEN [recorded EXCEPT ![Entry] = TornBy(Eod)]
                      ELSE recorded)
      /\ UNCHANGED <<cacheVars, outcomes, rows, log>>
  BY DEF OpenRecorded
<1>2. CacheTypeOK' /\ CacheOK' /\ fetch' = fetch /\ today' = today
  BY <1>1, CacheStays
<1>3. /\ eod'.phase = "saving" /\ eod'.at = eod.at /\ eod'.live = eod.live
      /\ eod'.date = eod.date /\ eod'.alerts = eod.alerts
      /\ eod' \in EodRuns
  BY <1>1 DEF FilesTypeOK, EodRuns
<1>4. TornBy(Eod) \in FileStates /\ TornBy(Eod).state = "torn"
  BY DateOrNone, EodIsAProcess DEF TornBy, FileStates, FilesTypeOK, CacheTypeOK
<1>5. recorded' \in [Tickers -> FileStates]
      /\ \A t \in Tickers : recorded'[t] = recorded[t] \/ recorded'[t].state = "torn"
  BY <1>1, <1>4 DEF FilesTypeOK
<1>6. FilesTypeOK'
  BY <1>1, <1>2, <1>3, <1>5 DEF FilesTypeOK
<1>7. EodOK'
  BY <1>1, <1>2, <1>3 DEF EodOK
<1>8. RecordedOK'
  BY <1>1, <1>3, <1>5, EodList DEF RecordedOK
<1>9. ReportedFreshIsFresh'
  BY <1>1, <1>3 DEF ReportedFreshIsFresh
<1>10. JudgedOK'
  BY <1>1, <1>3 DEF JudgedOK, Judged, RefreshFails
<1>11. LogOK'
  BY <1>1, <1>3 DEF LogOK
<1>12. QED
  BY <1>2, <1>6, <1>7, <1>8, <1>9, <1>10, <1>11

\* A step of the refresh with its verdict on one entry, after which the pass
\* goes on or the run checks what it has.
LEMMA Judges ==
  ASSUME FilesInv, CloseRecorded \/ RefreshFailed
  PROVE  FilesInv'
<1> USE DEF FilesInv
<1>1. PICK verdict \in {"PASS", "FAIL"} :
        /\ eod.phase \in {"refresh", "saving"}
        /\ outcomes' = [outcomes EXCEPT ![eod.at].refresh = verdict]
        /\ eod' = Advance("refresh", "check")
        /\ Taken(Eod)
        /\ UNCHANGED <<today, entry, refresh, rows, log>>
        /\ \/ verdict = "FAIL" /\ recorded' = recorded
           \/ /\ verdict = "PASS" /\ eod.phase = "saving"
              /\ recorded' = IF Entry \in Refreshed
                             THEN [recorded EXCEPT ![Entry] = WholeFile(fetch[Eod].day, Eod)]
                             ELSE recorded
  BY DEF CloseRecorded, RefreshFailed
<1>2. CacheKept(Eod) /\ fetch'[Eod].step = "none"
  BY <1>1, TakenStep
<1>3. eod \in EodRuns /\ eod.at \in EodEntries /\ eod.live /\ eod.date \in Dates
  BY <1>1 DEF EodOK, FilesTypeOK
<1>4. /\ eod' \in EodRuns
      /\ eod'.live = eod.live /\ eod'.date = eod.date /\ eod'.alerts = eod.alerts
      /\ \/ /\ eod'.phase = "refresh" /\ eod'.at \in EodEntries
            /\ \A i \in EodEntries : i < eod'.at => i < eod.at \/ i = eod.at
         \/ /\ eod'.phase = "check" /\ eod'.at = 1
            /\ \A i \in EodEntries : i < eod.at \/ i = eod.at
  BY <1>1, <1>3, AdvanceSteps
<1>5. /\ outcomes' \in [EodEntries -> EodOutcomes]
      /\ \A i \in EodEntries : /\ outcomes'[i].batch = "none"
                               /\ outcomes'[i].refresh = IF i = eod.at THEN verdict
                                                        ELSE outcomes[i].refresh
  <2>1. outcomes[eod.at] \in EodOutcomes
    BY <1>3 DEF FilesTypeOK
  <2> DEFINE o == [outcomes[eod.at] EXCEPT !.refresh = verdict]
  <2>2. o \in EodOutcomes /\ o.refresh = verdict /\ o.batch = outcomes[eod.at].batch
    BY <2>1 DEF EodOutcomes
  <2>3. outcomes' = [outcomes EXCEPT ![eod.at] = o]
    BY <1>1
  <2> HIDE DEF o
  <2>4. \A i \in EodEntries : outcomes[i].batch = "none"
    BY <1>1 DEF EodOK
  <2>5. QED
    BY <1>3, <2>2, <2>3, <2>4 DEF FilesTypeOK
<1>6. Entry \in Tickers
  BY <1>3, EodList DEF Entry
<1>7. /\ recorded' \in [Tickers -> FileStates]
      /\ \A t \in Tickers :
           \/ recorded'[t] = recorded[t]
           \/ recorded'[t].day >= eod.date
      /\ verdict = "PASS" /\ Entry \in Refreshed => recorded'[Entry].day >= eod.date
  <2>1. CASE recorded' = recorded /\ ~(verdict = "PASS" /\ Entry \in Refreshed)
    BY <2>1 DEF FilesTypeOK
  <2>2. CASE /\ verdict = "PASS" /\ eod.phase = "saving" /\ Entry \in Refreshed
             /\ recorded' = [recorded EXCEPT ![Entry] = WholeFile(fetch[Eod].day, Eod)]
    <3>1. /\ fetch[Eod].step = "got" /\ fetch[Eod].key >= eod.date
          /\ fetch[Eod].day >= fetch[Eod].key /\ fetch[Eod].key \in Dates
      BY <2>2, EodIsAProcess DEF EodOK, CacheOK
    <3>2. fetch[Eod].day \in Nat /\ fetch[Eod].key \in Nat /\ eod.date \in Nat /\ today \in Nat
      <4>1. fetch[Eod] \in Fetches /\ today \in Dates
        BY EodIsAProcess DEF FilesTypeOK, CacheTypeOK
      <4>2. QED
        BY <1>3, <3>1, <4>1, DateOrNone DEF Fetches
    <3>3. fetch[Eod].day >= eod.date
      BY <3>1, <3>2
    <3>4. /\ WholeFile(fetch[Eod].day, Eod) \in FileStates
          /\ WholeFile(fetch[Eod].day, Eod).day = fetch[Eod].day
      BY <3>2, EodIsAProcess DEF WholeFile, FileStates
    <3>5. QED
      BY <1>6, <2>2, <3>3, <3>4 DEF FilesTypeOK
  <2>3. QED
    BY <1>1, <2>1, <2>2
<1>8. RecordedOK'
  <2>1. SUFFICES ASSUME NEW i \in EodEntries, outcomes'[i].refresh = "PASS",
                        EodWatchlist[i] \in Refreshed,
                        recorded'[EodWatchlist[i]].state = "whole"
                 PROVE  recorded'[EodWatchlist[i]].day >= eod.date
    BY <1>4 DEF RecordedOK
  <2>2. CASE i = eod.at
    BY <1>5, <1>7, <2>1, <2>2 DEF Entry
  <2>3. CASE i # eod.at
    BY <1>5, <1>7, <2>1, <2>3, EodList DEF RecordedOK
  <2>4. QED
    BY <2>2, <2>3
<1>9. ReportedFreshIsFresh'
  BY <1>5 DEF ReportedFreshIsFresh
<1>10. JudgedOK'
  <2>1. \A i \in EodEntries : i < eod.at => Judged(i)
    BY <1>1, <1>3 DEF JudgedOK
  <2>2. \A i \in EodEntries : i < eod.at \/ i = eod.at => Judged(i)'
    BY <1>5, <2>1 DEF Judged
  <2>3. QED
    BY <1>4, <2>2 DEF JudgedOK
<1>11. LogOK'
  BY <1>1, <1>4 DEF LogOK
<1>12. /\ fetch' \in [Procs -> Fetches] /\ CacheTypeOK' /\ CacheOK' /\ today' = today
       /\ rows' \in [Dates -> [BatchStatuses -> Nat]] /\ log' \in [Dates -> Logs]
  BY <1>1, <1>2 DEF FilesTypeOK, CacheKept
<1>13. eod'.date <= today
  BY <1>4 DEF EodOK
<1>14. QED
  BY <1>2, <1>3, <1>4, <1>5, <1>7, <1>8, <1>9, <1>10, <1>11, <1>12, <1>13, EodMoves

LEMMA NoFetchRuns ==
  ASSUME FilesInv, UNCHANGED cacheVars, eod.phase \notin {"refresh", "saving"}
  PROVE  /\ CacheTypeOK' /\ CacheOK' /\ fetch' \in [Procs -> Fetches] /\ today' = today
         /\ fetch'[Eod].step = "none"
BY CacheStays DEF FilesInv, FilesTypeOK, EodOK

LEMMA ChecksRefresh ==
  ASSUME FilesInv, CheckRefresh
  PROVE  FilesInv'
<1> USE DEF FilesInv
<1> DEFINE late == Alarming(RefreshFails, Len(EodWatchlist))
           more == IF late THEN eod.alerts \cup {"live snapshot"} ELSE eod.alerts
<1>1. /\ eod.phase = "check"
      /\ eod' = [eod EXCEPT !.phase = Pass("batch", "alert"), !.alerts = more]
      /\ UNCHANGED <<cacheVars, recorded, outcomes, rows, log>>
  BY DEF CheckRefresh, FilesTypeOK, EodRuns
<1>2. /\ CacheTypeOK' /\ CacheOK' /\ fetch' \in [Procs -> Fetches] /\ today' = today
      /\ fetch'[Eod].step = "none"
  BY <1>1, NoFetchRuns
<1>3. eod \in EodRuns /\ eod.alerts \in SUBSET {"live snapshot", "batch"}
  BY DEF FilesTypeOK, EodRuns
<1>4. more \in SUBSET {"live snapshot", "batch"} /\ (late => "live snapshot" \in more)
  BY <1>3
<1> HIDE DEF late, more
<1>5. /\ Pass("batch", "alert") \in {"batch", "alert"}
      /\ (Pass("batch", "alert") = "batch" => EodWatchlist # <<>>)
  BY DEF Pass
<1>6. /\ eod' \in EodRuns /\ eod'.phase = Pass("batch", "alert") /\ eod'.alerts = more
      /\ eod'.live = eod.live /\ eod'.date = eod.date /\ eod'.at = eod.at
  BY <1>1, <1>3, <1>4, <1>5 DEF EodRuns
<1>7. eod'.phase = "batch" => eod'.at \in EodEntries
  <2>1. eod'.at = 1
    BY <1>1, <1>6 DEF EodOK
  <2>2. EodWatchlist # <<>> => 1 \in EodEntries
    BY EodWatchlistAssumption DEF EodEntries
  <2>3. QED
    BY <1>5, <1>6, <2>1, <2>2
<1>8. eod'.date \in Dates /\ eod'.date <= today
  BY <1>1, <1>6 DEF EodOK
<1>9. RecordedOK'
  BY <1>1, <1>6 DEF RecordedOK
<1>10. ReportedFreshIsFresh'
  BY <1>1, <1>6 DEF ReportedFreshIsFresh
<1>11. JudgedOK'
  <2>1. late' = late
    BY <1>1 DEF late, RefreshFails
  <2>2. \A i \in EodEntries : Judged(i)'
    BY <1>1 DEF JudgedOK, Judged, EodOK
  <2>3. QED
    BY <1>4, <1>5, <1>6, <2>1, <2>2 DEF JudgedOK, late
<1>12. LogOK'
  BY <1>1, <1>5, <1>6 DEF LogOK
<1>13. /\ recorded' \in [Tickers -> FileStates] /\ outcomes' \in [EodEntries -> EodOutcomes]
       /\ rows' \in [Dates -> [BatchStatuses -> Nat]] /\ log' \in [Dates -> Logs]
  BY <1>1 DEF FilesTypeOK
<1>14. QED
  BY <1>2, <1>5, <1>6, <1>7, <1>8, <1>9, <1>10, <1>11, <1>12, <1>13, EodMoves

\* One ticker of the batch: what its file says is what the run read.
LEMMA Analyses ==
  ASSUME FilesInv, BatchTicker
  PROVE  FilesInv'
<1> USE DEF FilesInv
<1>1. PICK status \in BatchStatuses :
        /\ eod.phase = "batch"
        /\ recorded[Entry].state # "whole" => status # "PASS"
        /\ outcomes' = [outcomes EXCEPT ![eod.at].batch = status,
                                        ![eod.at].day = recorded[Entry].day]
        /\ rows' = [rows EXCEPT ![eod.date][status] = @ + 1]
        /\ eod' = Advance("batch", "alert")
        /\ UNCHANGED <<cacheVars, recorded, log>>
  <2>1. eod.at \in EodEntries
    BY DEF BatchTicker, EodOK
  <2>2. recorded[Entry].state \in {"absent", "torn", "whole"}
    BY <2>1, EodList DEF Entry, FilesTypeOK, FileStates
  <2>3. QED
    BY <2>2 DEF BatchTicker, BatchStatuses
<1>2. /\ CacheTypeOK' /\ CacheOK' /\ fetch' \in [Procs -> Fetches] /\ today' = today
      /\ fetch'[Eod].step = "none"
  BY <1>1, NoFetchRuns
<1>3. eod \in EodRuns /\ eod.at \in EodEntries /\ eod.date \in Dates
  BY <1>1 DEF EodOK, FilesTypeOK
<1>4. /\ eod' \in EodRuns
      /\ eod'.live = eod.live /\ eod'.date = eod.date /\ eod'.alerts = eod.alerts
      /\ \/ eod'.phase = "batch" /\ eod'.at \in EodEntries
         \/ eod'.phase = "alert"
  BY <1>1, <1>3, AdvanceSteps
<1>5. recorded[Entry] \in FileStates /\ Entry \in Tickers /\ recorded[Entry].day \in Nat
  BY <1>3, EodList DEF Entry, FilesTypeOK, FileStates
<1>6. /\ outcomes' \in [EodEntries -> EodOutcomes]
      /\ \A i \in EodEntries :
           /\ outcomes'[i].refresh = outcomes[i].refresh
           /\ i # eod.at => outcomes'[i] = outcomes[i]
      /\ outcomes'[eod.at].batch = status /\ outcomes'[eod.at].day = recorded[Entry].day
  <2>1. outcomes[eod.at] \in EodOutcomes
    BY <1>3 DEF FilesTypeOK
  <2> DEFINE o == [outcomes[eod.at] EXCEPT !.batch = status, !.day = recorded[Entry].day]
  <2>2. /\ o \in EodOutcomes /\ o.refresh = outcomes[eod.at].refresh /\ o.batch = status
        /\ o.day = recorded[Entry].day
    BY <1>5, <2>1 DEF EodOutcomes
  <2>3. outcomes' = [outcomes EXCEPT ![eod.at] = o]
    BY <1>1, <1>3 DEF FilesTypeOK
  <2> HIDE DEF o
  <2>4. QED
    BY <1>3, <2>2, <2>3 DEF FilesTypeOK
<1>7. rows' \in [Dates -> [BatchStatuses -> Nat]]
  <2>1. rows[eod.date] \in [BatchStatuses -> Nat]
    BY <1>3 DEF FilesTypeOK
  <2>2. rows[eod.date][status] + 1 \in Nat
    BY <2>1
  <2>3. [rows[eod.date] EXCEPT ![status] = rows[eod.date][status] + 1] \in [BatchStatuses -> Nat]
    BY <2>1, <2>2
  <2>4. rows' = [rows EXCEPT ![eod.date] =
                   [rows[eod.date] EXCEPT ![status] = rows[eod.date][status] + 1]]
    BY <1>1, <1>3 DEF FilesTypeOK
  <2>5. QED
    BY <1>3, <2>3, <2>4 DEF FilesTypeOK
<1>8. RecordedOK'
  BY <1>1, <1>4, <1>6 DEF RecordedOK
<1>9. ReportedFreshIsFresh'
  <2>1. SUFFICES ASSUME NEW i \in EodEntries, eod.live, outcomes'[i].refresh = "PASS",
                        outcomes'[i].batch = "PASS", EodWatchlist[i] \in Refreshed
                 PROVE  outcomes'[i].day >= eod.date
    BY <1>4 DEF ReportedFreshIsFresh
  <2>2. CASE i = eod.at
    BY <1>1, <1>6, <2>1, <2>2 DEF RecordedOK, Entry
  <2>3. CASE i # eod.at
    BY <1>6, <2>1, <2>3 DEF ReportedFreshIsFresh
  <2>4. QED
    BY <2>2, <2>3
<1>10. JudgedOK'
  <2>1. RefreshFails' = RefreshFails
    BY <1>6 DEF RefreshFails
  <2>2. \A i \in EodEntries : Judged(i)' = Judged(i)
    BY <1>6 DEF Judged
  <2>3. QED
    BY <1>1, <1>4, <2>1, <2>2 DEF JudgedOK
<1>11. LogOK'
  BY <1>1, <1>4 DEF LogOK
<1>12. /\ recorded' \in [Tickers -> FileStates] /\ log' \in [Dates -> Logs]
       /\ eod'.date \in Dates /\ eod'.date <= today
  BY <1>1, <1>3, <1>4 DEF FilesTypeOK, EodOK
<1>13. QED
  BY <1>2, <1>4, <1>6, <1>7, <1>8, <1>9, <1>10, <1>11, <1>12, EodMoves

\* The batch raises, or the process dies: nothing but the phase changes.
LEMMA Raises ==
  ASSUME FilesInv, BatchRaised \/ KillEod
  PROVE  FilesInv'
<1> USE DEF FilesInv
<1>1. /\ eod.phase # "idle"
      /\ eod' = [eod EXCEPT !.phase = "raised"]
      /\ UNCHANGED <<today, entry, refresh, recorded, outcomes, rows, log>>
  BY DEF BatchRaised, KillEod, Pass, cacheVars
<1>2. /\ CacheTypeOK' /\ CacheOK' /\ fetch' \in [Procs -> Fetches] /\ today' = today
      /\ fetch'[Eod].step = "none"
  <2>1. CASE BatchRaised
    BY <2>1, NoFetchRuns DEF BatchRaised, Pass
  <2>2. CASE KillEod
    BY <1>1, <2>2, TakenStep DEF KillEod, CacheKept
  <2>3. QED
    BY <2>1, <2>2
<1>3. /\ eod' \in EodRuns /\ eod'.phase = "raised"
      /\ eod'.live = eod.live /\ eod'.date = eod.date /\ eod'.alerts = eod.alerts
  BY <1>1 DEF FilesTypeOK, EodRuns
<1>4. RecordedOK' /\ ReportedFreshIsFresh' /\ JudgedOK' /\ LogOK'
  BY <1>1, <1>3 DEF RecordedOK, ReportedFreshIsFresh, JudgedOK, LogOK
<1>5. /\ recorded' \in [Tickers -> FileStates] /\ outcomes' \in [EodEntries -> EodOutcomes]
      /\ rows' \in [Dates -> [BatchStatuses -> Nat]] /\ log' \in [Dates -> Logs]
      /\ eod'.date \in Dates /\ eod'.date <= today
  BY <1>1, <1>3 DEF FilesTypeOK, EodOK
<1>6. QED
  BY <1>2, <1>3, <1>4, <1>5, EodMoves

\* The log is opened and closed.
LEMMA Logged ==
  ASSUME FilesInv, OpenLog \/ CloseLog
  PROVE  FilesInv'
<1> USE DEF FilesInv
<1>1. eod \in EodRuns /\ eod.phase \in {"alert", "logging"} /\ eod.date \in Dates
  BY DEF OpenLog, CloseLog, FilesTypeOK, EodOK
<1>2. PICK l \in Logs, alerts \in SUBSET {"live snapshot", "batch"}, phase \in {"logging", "done"} :
        /\ eod' = [eod EXCEPT !.phase = phase, !.alerts = alerts]
        /\ log' = [log EXCEPT ![eod.date] = l]
        /\ eod.alerts \subseteq alerts
        /\ phase = "done" => l = [state |-> "whole", alerts |-> alerts]
        /\ UNCHANGED <<cacheVars, recorded, outcomes, rows>>
  <2>0. eod.alerts \in SUBSET {"live snapshot", "batch"}
    BY <1>1 DEF EodRuns
  <2>1. CASE OpenLog
    <3>1. BatchAlerts(eod.alerts) \in SUBSET {"live snapshot", "batch"}
          /\ eod.alerts \subseteq BatchAlerts(eod.alerts)
      BY <2>0 DEF BatchAlerts
    <3>2. [state |-> "torn", alerts |-> {}] \in Logs
      BY DEF Logs
    <3>3. eod' = [eod EXCEPT !.phase = "logging", !.alerts = BatchAlerts(eod.alerts)]
      BY <1>1, <2>1 DEF OpenLog, EodRuns
    <3>4. QED
      BY <2>1, <3>1, <3>2, <3>3 DEF OpenLog
  <2>2. CASE CloseLog
    <3>1. [state |-> "whole", alerts |-> eod.alerts] \in Logs
      BY <2>0 DEF Logs
    <3>2. eod' = [eod EXCEPT !.phase = "done", !.alerts = eod.alerts]
      BY <1>1, <2>2 DEF CloseLog, EodRuns
    <3>3. QED
      BY <2>0, <2>2, <3>1, <3>2 DEF CloseLog
  <2>3. QED
    BY <2>1, <2>2
<1>3. /\ CacheTypeOK' /\ CacheOK' /\ fetch' \in [Procs -> Fetches] /\ today' = today
      /\ fetch'[Eod].step = "none"
  BY <1>1, <1>2, NoFetchRuns
<1>4. /\ eod'.phase = phase /\ eod'.alerts = alerts
      /\ eod'.live = eod.live /\ eod'.date = eod.date
  BY <1>1, <1>2 DEF EodRuns
<1>5. eod' \in EodRuns
  BY <1>1, <1>2 DEF EodRuns
<1>6. /\ log' \in [Dates -> Logs] /\ log'[eod.date] = l
      /\ \A d \in Dates : d # eod.date => log'[d] = log[d]
  BY <1>1, <1>2 DEF FilesTypeOK
<1>7. LogOK'
  <2>0. eod.date \in Nat
    BY <1>1, DateOrNone
  <2>1. eod.date <= eod.date
    BY <2>0, NatReflexive, Zenon
  <2>2. QED
    BY <1>2, <1>4, <1>6, <2>1 DEF LogOK
<1>8. JudgedOK'
  <2>1. RefreshFails' = RefreshFails
    BY <1>2 DEF RefreshFails
  <2>2. \A i \in EodEntries : Judged(i)' = Judged(i)
    BY <1>2 DEF Judged
  <2>3. QED
    BY <1>1, <1>2, <1>4, <2>1, <2>2 DEF JudgedOK
<1>9. RecordedOK' /\ ReportedFreshIsFresh'
  BY <1>2, <1>4 DEF RecordedOK, ReportedFreshIsFresh
<1>10. /\ recorded' \in [Tickers -> FileStates] /\ outcomes' \in [EodEntries -> EodOutcomes]
       /\ rows' \in [Dates -> [BatchStatuses -> Nat]]
       /\ eod'.date \in Dates /\ eod'.date <= today
  BY <1>1, <1>2, <1>4 DEF FilesTypeOK, EodOK
<1>11. QED
  BY <1>3, <1>4, <1>5, <1>6, <1>7, <1>8, <1>9, <1>10, EodMoves

LEMMA DayEnds ==
  ASSUME FilesInv, Midnight, UNCHANGED eodVars
  PROVE  FilesInv'
<1> USE DEF FilesInv
<1>1. /\ today \in Dates /\ today' \in Dates /\ today' = today + 1
      /\ UNCHANGED <<entry, fetch, refresh>>
  BY DEF Midnight, FilesTypeOK, CacheTypeOK
<1>2. today \in Nat /\ today' \in Nat
  BY <1>1, DateOrNone
<1>3. today <= today'
  BY <1>1, <1>2
<1>4. CacheTypeOK' /\ fetch' \in [Procs -> Fetches]
  BY <1>1 DEF CacheTypeOK, FilesTypeOK
<1>5. CacheOK'
  <2>1. ASSUME NEW p \in Procs, fetch[p].step # "none"
        PROVE  fetch[p].key \in Dates /\ fetch[p].key <= today'
    <3>1. fetch[p].key \in Dates /\ fetch[p].key <= today
      BY <2>1 DEF CacheOK
    <3>2. fetch[p].key \in Nat
      BY <3>1, DateOrNone
    <3>3. QED
      BY <1>2, <1>3, <3>1, <3>2
  <2>2. QED
    BY <1>1, <2>1 DEF CacheOK
<1>6. QED
  BY <1>1, <1>3, <1>4, <1>5, EodRests DEF EodOK

\* Every step keeps the half of the invariant that is about the files; a
\* bootstrap moves only its own fetch.
LEMMA FilesStep ==
  ASSUME StoreInv, FilesInv, [Next]_vars
  PROVE  FilesInv'
<1>0. boot.phase = "fetch" => BootTicker \in Tickers
  BY BootTickersAssumption DEF StoreInv, BootOK, BootTicker, BootEntries
<1>1. ASSUME UNCHANGED <<cacheVars, eodVars>> PROVE FilesInv'
  BY <1>1, CacheStays, EodRests, DateOrNone DEF FilesInv, FilesTypeOK, CacheTypeOK, EodOK
<1>2. CASE EodActs
  <2>1. CASE StartEod
    BY <2>1, Starts
  <2>2. CASE EodStep
    BY <2>2, EodFetches, Opens, Judges, ChecksRefresh, Analyses, Raises, Logged DEF EodStep
  <2>3. QED
    BY <1>2, <2>1, <2>2 DEF EodActs
<1>3. CASE BootActs
  <2>1. UNCHANGED eodVars
    BY <1>3 DEF BootActs
  <2>2. CASE StartBoot \/ SaveMethod \/ Saved \/ SaveRaised \/ CloseBoot
    BY <1>1, <2>1, <2>2 DEF StartBoot, SaveMethod, Saved, SaveRaised, CloseBoot
  <2>3. CASE BootFetch \/ Analysed \/ BeforeSaveRaises \/ (FetchStep(Boot) /\ UNCHANGED <<storeVars, bootVars>>)
    <3>1. CacheMove(Boot)
      BY <1>0, <2>3 DEF BootFetch, Analysed, BeforeSaveRaises, CacheMove
    <3>2. QED
      BY <2>1, <3>1, OtherMoves
  <2>4. QED
    BY <1>3, <2>2, <2>3 DEF BootActs, BootStep
<1>4. CASE KillEod
  BY <1>4, Raises
<1>5. CASE KillBoot /\ UNCHANGED eodVars
  BY <1>5, OtherMoves DEF KillBoot, CacheMove
<1>6. CASE Midnight /\ UNCHANGED <<storeVars, eodVars, bootVars>>
  BY <1>6, DayEnds DEF eodVars
<1>7. CASE UNCHANGED vars
  BY <1>1, <1>7 DEF vars
<1>8. QED
  BY <1>2, <1>3, <1>4, <1>5, <1>6, <1>7 DEF Next

-----------------------------------------------------------------------------
(* The invariant *)

LEMMA InitStoreInv == Init => StoreInv
<1> SUFFICES ASSUME Init PROVE StoreInv
  OBVIOUS
<1> USE DEF Init, BootInit, StoreInit
<1> DEFINE t0 == CHOOSE t \in Tickers : TRUE
           d0 == CHOOSE d \in Dates : TRUE
<1>1. t0 \in Tickers /\ d0 \in Dates
  BY SomeTicker DEF CacheInit
<1>2. /\ call[Boot] = NewFrame("api", "upsert_instrument", "idle", t0, d0)
      /\ call \in [Actors -> Frames]
  BY <1>1, BootConn, NewFrameType DEF Blocks, Ops, Steps
<1> HIDE DEF d0
<1>3. boot \in Boots /\ boot.phase = "idle" /\ boot.at = 1
  BY <1>1 DEF Boots, d0
<1>4. results \in [BootEntries -> Items] /\ \A i \in BootEntries : results[i].status = "none"
  <2>1. SUFFICES ASSUME NEW i \in BootEntries PROVE NoItem(i) \in Items /\ NoItem(i).status = "none"
    OBVIOUS
  <2>2. BootTickers[i] \in Tickers
    BY BootTickersAssumption DEF BootEntries
  <2>3. NewFrame("api", "upsert_instrument", "idle", BootTickers[i], d0) \in Frames
    BY <1>1, <2>2, NewFrameType DEF Blocks, Ops, Steps
  <2>4. QED
    BY <2>3 DEF NoItem, Items, d0
<1>5. BootTypeOK
  BY <1>2, <1>3, <1>4, MaxFaultsIsNat DEF BootTypeOK, StoreTypeOK
<1>6. call[Boot].step = "idle" /\ call[Boot].rid = 0
  BY <1>2 DEF NewFrame
<1>7. Written = {}
  BY BootConn DEF Written
<1>8. BootOK /\ ConnectionOK /\ BootIdsOK /\ BootProgressOK
  <2>1. BootOK
    BY <1>3, <1>6 DEF BootOK, InMethod
  <2>2. ConnectionOK
    BY <1>6 DEF ConnectionOK
  <2>3. BootIdsOK
    <3>1. call[Boot].rid < nextId
      <4>1. nextId = 1 /\ 0 < 1
        OBVIOUS
      <4>2. QED
        BY <1>6, <4>1, Zenon
    <3>2. QED
      BY <1>7, <3>1, Zenon DEF BootIdsOK
  <2>4. BootProgressOK
    BY <1>6 DEF BootProgressOK, InMethod
  <2>5. QED
    BY <2>1, <2>2, <2>3, <2>4
<1>9. BootRowsOK
  BY <1>7 DEF BootRowsOK, KeysUnique, WellReferenced, In
<1>10. SucceededIsDurable
  BY <1>4 DEF SucceededIsDurable
<1>11. QED
  BY <1>5, <1>8, <1>9, <1>10 DEF StoreInv

LEMMA InitFilesInv == Init => FilesInv
<1> SUFFICES ASSUME Init PROVE FilesInv
  OBVIOUS
<1> USE DEF Init, EodInit, CacheInit
<1>1. today \in Dates /\ today \in Nat
  BY DateOrNone
<1>2. Absent \in FileStates /\ [Absent EXCEPT !.state = "whole"] \in FileStates
      /\ Absent.state = "absent"
  BY DEF Absent, FileStates
<1>3. \A p \in Procs : fetch[p] \in Fetches /\ fetch[p].step = "none"
  BY SomeTicker DEF NoFetch, Fetches, FetchSteps
<1>4. /\ eod \in EodRuns /\ eod.phase = "idle" /\ eod.date = 0 /\ eod.live = FALSE
  BY MaxRunsIsNat DEF EodRuns
<1>5. \A i \in EodEntries : outcomes[i] \in EodOutcomes /\ outcomes[i].refresh = "none"
  BY DEF NoOutcome, EodOutcomes
<1>6. \A d \in Dates : rows[d] \in [BatchStatuses -> Nat]
  BY DEF NoRows
<1>7. \A d \in Dates : log[d] \in Logs /\ log[d].state = "absent"
  BY DEF NoLog, Logs
<1>8. FilesTypeOK
  <2>1. CacheTypeOK
    BY <1>1, <1>2, <1>3 DEF CacheTypeOK, Fetches
  <2>2. /\ fetch \in [Procs -> Fetches] /\ recorded \in [Tickers -> FileStates]
        /\ outcomes \in [EodEntries -> EodOutcomes]
        /\ rows \in [Dates -> [BatchStatuses -> Nat]] /\ log \in [Dates -> Logs]
    BY <1>2, <1>3, <1>5, <1>6, <1>7
  <2>3. QED
    BY <1>4, <2>1, <2>2 DEF FilesTypeOK
<1>9. CacheOK
  BY <1>2, <1>3 DEF CacheOK
<1>10. 0 <= today
  BY <1>1
<1>11. EodOK
  BY <1>3, <1>4, <1>10, EodIsAProcess DEF EodOK
<1>12. RecordedOK /\ ReportedFreshIsFresh /\ JudgedOK /\ LogOK
  BY <1>4, <1>5, <1>7 DEF RecordedOK, ReportedFreshIsFresh, JudgedOK, LogOK
<1>13. QED
  BY <1>8, <1>9, <1>11, <1>12 DEF FilesInv

\* The store's half and the files' half hold together in every state of a
\* refresh and a bootstrap, for every list of tickers.
THEOREM LiveInvariance == Spec => []LiveInv
<1>1. Init => LiveInv
  BY InitStoreInv, InitFilesInv DEF LiveInv
<1>2. LiveInv /\ [Next]_vars => LiveInv'
  <2> SUFFICES ASSUME StoreInv, FilesInv, [Next]_vars PROVE StoreInv' /\ FilesInv'
    BY DEF LiveInv
  <2>1. today \in Dates
    BY DEF FilesInv, FilesTypeOK, CacheTypeOK
  <2>2. QED
    BY <2>1, StoreStep, FilesStep
<1>3. QED
  BY <1>1, <1>2, PTL DEF Spec

\* What the bootstrap's summary lists as succeeded is in the database, and
\* stays there whatever happens to the connection and the process.
THEOREM SuccessIsDurable == Spec => []SucceededIsDurable
<1>1. LiveInv => SucceededIsDurable
  BY DEF LiveInv, StoreInv
<1>2. QED
  BY <1>1, LiveInvariance, PTL

\* A ticker the refresh calls refreshed and the batch calls analysed was
\* analysed from data of that run.
THEOREM FreshIsFresh == Spec => []ReportedFreshIsFresh
<1>1. LiveInv => ReportedFreshIsFresh
  BY DEF LiveInv, FilesInv
<1>2. QED
  BY <1>1, LiveInvariance, PTL

\* An entry that was analysed from an older file is one whose refresh failed,
\* so too many of them are an alert of the newest log.
LEMMA StaleIsAlerted == FilesInv => StaleAnalysesAreAlerted
<1> DEFINE stale == {i \in EodEntries : /\ EodWatchlist[i] \in Refreshed
                                        /\ outcomes[i].batch = "PASS"
                                        /\ outcomes[i].day < eod.date}
           failed == {i \in EodEntries : outcomes[i].refresh = "FAIL"}
           n == Len(EodWatchlist)
<1> SUFFICES ASSUME FilesInv, eod.phase = "done", eod.live, 5 * Cardinality(stale) > n
             PROVE  MonitorAlerts # {}
  BY DEF StaleAnalysesAreAlerted
<1>1. stale \subseteq failed
  <2>1. SUFFICES ASSUME NEW i \in stale PROVE outcomes[i].refresh = "FAIL"
    OBVIOUS
  <2>2. outcomes[i].day \in Nat /\ eod.date \in Nat
    <3>1. outcomes[i] \in EodOutcomes /\ eod.date \in Dates
      BY DEF FilesInv, FilesTypeOK, EodOK
    <3>2. QED
      BY <3>1, DateOrNone DEF EodOutcomes
  <2>3. ~(outcomes[i].day >= eod.date)
    BY <2>2
  <2>4. outcomes[i].refresh # "PASS"
    BY <2>3 DEF FilesInv, ReportedFreshIsFresh
  <2>5. QED
    BY <2>4 DEF FilesInv, JudgedOK, Judged
<1>2. /\ IsFiniteSet(failed) /\ IsFiniteSet(stale) /\ Cardinality(stale) <= Cardinality(failed)
  <2>1. n \in Nat
    BY EodList
  <2>2. IsFiniteSet(EodEntries)
    BY <2>1, FS_Interval DEF EodEntries
  <2>3. IsFiniteSet(failed)
    BY <2>2, FS_Subset
  <2>4. QED
    BY <1>1, <2>3, FS_Subset
<1>3. Cardinality(stale) \in Nat /\ Cardinality(failed) \in Nat
  BY <1>2, FS_CardinalityType
<1> HIDE DEF stale
<1>4. Alarming(RefreshFails, n)
  <2>1. RefreshFails = Cardinality(failed)
    BY DEF RefreshFails
  <2> HIDE DEF failed
  <2>2. QED
    BY <1>2, <1>3, <2>1, EodList DEF Alarming
<1>5. "live snapshot" \in eod.alerts
  BY <1>4 DEF FilesInv, JudgedOK
<1> DEFINE dates == {d \in Dates : log[d].state # "absent"}
<1>6. /\ eod.date \in dates /\ \A x \in dates : x <= eod.date
      /\ log[eod.date].state = "whole" /\ log[eod.date].alerts = eod.alerts
  BY DEF FilesInv, LogOK, EodOK
<1>7. \A d \in dates : (\A x \in dates : x <= d) => d = eod.date
  <2>1. SUFFICES ASSUME NEW d \in dates, \A x \in dates : x <= d PROVE d = eod.date
    OBVIOUS
  <2>2. d \in Nat /\ eod.date \in Nat
    BY <1>6, DateOrNone
  <2>3. d <= eod.date /\ eod.date <= d
    BY <1>6, <2>1
  <2>4. QED
    BY <2>2, <2>3
<1>8. (CHOOSE d \in dates : \A x \in dates : x <= d) = eod.date
  BY <1>6, <1>7
<1>9. MonitorAlerts = eod.alerts
  BY <1>6, <1>8 DEF MonitorAlerts
<1>10. QED
  BY <1>5, <1>9

\* When more than a fifth of the list was analysed from older files, the
\* monitor has an alert once the refresh has finished.
THEOREM StaleIsNotSilent == Spec => []StaleAnalysesAreAlerted
<1>1. LiveInv => StaleAnalysesAreAlerted
  BY StaleIsAlerted DEF LiveInv
<1>2. QED
  BY <1>1, LiveInvariance, PTL

LEMMA CommittedGrows ==
  ASSUME [Next]_vars
  PROVE  committed \subseteq committed'
<1> USE DEF storeVars, bootVars
<1>1. CASE EodActs \/ (KillEod /\ UNCHANGED <<storeVars, bootVars>>)
             \/ (Midnight /\ UNCHANGED <<storeVars, eodVars, bootVars>>) \/ UNCHANGED vars
  BY <1>1 DEF EodActs, vars
<1>2. CASE BootActs
  <2>1. CASE SaveMethod
    BY <2>1 DEF SaveMethod, Insert, Write, CommitAndCallOn, CommitTxn
  <2>2. CASE Saved
    BY <2>2 DEF Saved, CommitLast, CommitTxn
  <2>3. CASE SaveRaised
    BY <2>3 DEF SaveRaised, MethodRaises, Busy, Fault, HalfOutput, Write, Rollback
  <2>4. CASE CloseBoot
    BY <2>4 DEF CloseBoot, Rollback
  <2>5. CASE \/ StartBoot \/ BootFetch \/ Analysed \/ BeforeSaveRaises
             \/ FetchStep(Boot) /\ UNCHANGED <<storeVars, bootVars>>
    BY <2>5 DEF StartBoot, BootFetch, Analysed, BeforeSaveRaises
  <2>6. QED
    BY <1>2, <2>1, <2>2, <2>3, <2>4, <2>5 DEF BootActs, BootStep
<1>3. CASE KillBoot /\ UNCHANGED eodVars
  BY <1>3 DEF KillBoot, Rollback
<1>4. QED
  BY <1>1, <1>2, <1>3 DEF Next

\* The bootstrap never rolls a failed ticker back, and what that leaves for the
\* next commit still extends the database as its readers were promised.
THEOREM BootstrapImplementsLedger == Spec => BootstrapKeepsLedger
<1>1. Init => L!LedgerInit
  BY DEF Init, StoreInit, L!LedgerInit
<1>2. LiveInv /\ LiveInv' /\ [Next]_vars => [L!Publish]_committed
  <2> SUFFICES ASSUME LiveInv, LiveInv', [Next]_vars PROVE L!Publish
    OBVIOUS
  <2>1. committed \subseteq committed'
    BY CommittedGrows
  <2>2. KeysUnique(committed')
    <3>1. KeysUnique(Written') /\ committed' \subseteq Written'
      BY DEF LiveInv, StoreInv, BootRowsOK, Written, KeysUnique
    <3>2. QED
      BY <3>1, FewerRows
  <2>3. WellReferenced(committed')
    BY DEF LiveInv, StoreInv, BootRowsOK, WellReferenced, In
  <2>4. L!KeysUnique(committed') /\ L!WellReferenced(committed')
    BY <2>2, <2>3 DEF KeysUnique, L!KeysUnique, WellReferenced, L!WellReferenced, In, L!In,
                      ChecksRow, L!ChecksRow, SnapshotRow, L!SnapshotRow,
                      InstrumentRow, L!InstrumentRow
  <2>5. QED
    BY <2>1, <2>4 DEF L!Publish
<1>3. QED
  BY <1>1, <1>2, LiveInvariance, PTL DEF Spec, BootstrapKeepsLedger, L!LedgerSpec
=============================================================================
