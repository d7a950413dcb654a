------------------------- MODULE Persistence_proofs -------------------------
(***************************************************************************)
(* Machine-checked proofs about Persistence, for any number of threads,    *)
(* requests, tickers, dates, watchlist entries, failures and batches.      *)
(***************************************************************************)
EXTENDS PersistenceInv, Store_proofs

LEMMA FirstFrameType == FirstFrame \in Frames
<1>1. (CHOOSE t \in Tickers : TRUE) \in Tickers
  BY SomeTicker
<1>2. QED
  BY <1>1, WatchlistAssumption, NewFrameType DEF FirstFrame, Blocks, Ops, Steps

-----------------------------------------------------------------------------
(* Type correctness *)

LEMMA InitType == Init => TypeOK
<1> SUFFICES ASSUME Init PROVE TypeOK
  OBVIOUS
<1>1. StoreTypeOK
  <2>1. call \in [Actors -> Frames]
    <3>1. (CHOOSE t \in Tickers : TRUE) \in Tickers
      BY SomeTicker
    <3>2. \A a \in Actors :
            NewFrame(IF a \in Requests THEN "api" ELSE "try", "upsert_instrument", "idle",
                     CHOOSE t \in Tickers : TRUE, BatchDate) \in Frames
      BY <3>1, WatchlistAssumption, NewFrameType DEF Blocks, Ops, Steps
    <3>3. QED
      BY <3>2, FirstFrameType DEF Init
  <2>2. QED
    BY <2>1, MaxFaultsIsNat DEF Init, StoreInit, StoreTypeOK
<1>2. BatchTypeOK
  BY DEF Init, BatchInit, BatchTypeOK, Phases, NoOutcome, Outcomes
<1>3. ApiTypeOK
  BY DEF Init, ApiTypeOK, Responses
<1>4. QED
  BY <1>1, <1>2, <1>3 DEF TypeOK

\* The steps of a method keep the types of the store.
LEMMA MethodTypes ==
  ASSUME StoreTypeOK, FramesOK, NEW a \in Actors
  PROVE  /\ Insert(a) => StoreTypeOK'
         /\ CommitAndCallOn(a) => StoreTypeOK'
         /\ CommitLast(a) => TablesOK'
         /\ MethodRaises(a) => TablesOK'
BY BlockMethodTypes DEF FramesOK, FrameOK

\* The steps of the batch keep every type.
LEMMA BatchStepType ==
  ASSUME TypeOK, FramesOK, BatchNext, UNCHANGED response
  PROVE  TypeOK'
<1> USE DEF StoreTypeOK, BatchTypeOK, TypeOK, TablesOK
<1>0. /\ Batch \in Actors /\ Batch \in Conns
      /\ \A w \in Workers : w \in Actors
      /\ ApiTypeOK'
  BY DEF Actors, Conns, ApiTypeOK
<1>a. \A a \in Actors : \A s \in Steps : [call[a] EXCEPT !.step = s] \in Frames
  BY DEF Frames
<1>b. \A a \in Actors : IdleFrame(a) \in Frames
  BY <1>a DEF IdleFrame, Steps
<1>c. \A w \in Workers : HandlerFrame(w) \in Frames
  <2>1. \A w \in Workers : call[w].ticker \in Tickers /\ call[w].date \in Dates
    BY <1>0 DEF Frames
  <2>2. QED
    BY <2>1, NewFrameType DEF HandlerFrame, Blocks, Ops, Steps
<1>d. \A b \in Blocks : Verdict(b) \in Statuses
  BY DEF Verdict, Statuses
<1>e. Raised \in Outcomes /\ NoOutcome \in Outcomes
  BY DEF Raised, NoOutcome, Outcomes
<1>1. ASSUME NEW a \in Actors, InsertInBatch(a) PROVE TypeOK'
  BY <1>0, <1>1, MethodTypes DEF InsertInBatch, batchVars
<1>2. ASSUME NEW a \in Actors, CallOnInBatch(a) PROVE TypeOK'
  BY <1>0, <1>2, MethodTypes DEF CallOnInBatch, batchVars
<1>3. CASE AveragesSaved
  BY <1>0, <1>b, <1>3, MethodTypes DEF AveragesSaved, Phases
<1>4. CASE AveragesRaise
  BY <1>0, <1>b, <1>4, MethodTypes DEF AveragesRaise, batchVars
<1>5. CASE ReportBatch
  <2>1. report' \subseteq AllRows
    BY <1>0, <1>5 DEF ReportBatch, BatchReport, View, In
  <2>2. QED
    BY <1>0, <1>5, <2>1, TransactionTypes DEF ReportBatch, Phases
<1>6. CASE BatchRaises
  BY <1>0, <1>6, TransactionTypes DEF BatchRaises, Phases
<1>7. CASE KillBatch
  BY <1>0, <1>b, <1>7, TransactionTypes DEF KillBatch, Phases
<1>8. CASE StartBatch
  <2>1. outcome' \in [Entries -> Outcomes]
    BY <1>e, <1>8 DEF StartBatch
  <2>2. QED
    BY <1>0, <1>8, <2>1, FirstFrameType DEF StartBatch, Phases
<1>9. ASSUME NEW w \in Workers, StartTask(w) PROVE TypeOK'
  <2>1. /\ next \in 1..Len(Watchlist)
        /\ next' \in 1..Len(Watchlist) + 1
        /\ Watchlist[next] \in Tickers
    BY <1>9, WatchlistAssumption DEF StartTask
  <2>2. call' \in [Actors -> Frames]
    <3>1. /\ NewFrame("skip", "create_run", "lock", Watchlist[next], BatchDate) \in Frames
          /\ NewFrame("try", "upsert_instrument", "build", Watchlist[next], BatchDate) \in Frames
      BY <2>1, WatchlistAssumption, NewFrameType DEF Blocks, Ops, Steps
    <3>2. QED
      BY <1>0, <1>9, <3>1 DEF StartTask
  <2>3. task' \in [Workers -> Nat]
    BY <1>9, <2>1 DEF StartTask
  <2>4. QED
    BY <1>0, <1>9, <2>1, <2>2, <2>3 DEF StartTask
<1>10. ASSUME NEW w \in Workers, BuildPayload(w) PROVE TypeOK'
  BY <1>0, <1>a, <1>c, <1>10 DEF BuildPayload, batchVars, Steps
<1>11. ASSUME NEW w \in Workers, AcquireLock(w) PROVE TypeOK'
  BY <1>0, <1>a, <1>11 DEF AcquireLock, Steps
<1>12. ASSUME NEW w \in Workers, TaskReturns(w) PROVE TypeOK'
  <2>1. [status |-> Verdict(call[w].block), rid |-> call[w].rid, sid |-> call[w].sid]
          \in Outcomes
    BY <1>0, <1>d DEF Outcomes, Frames
  <2>2. QED
    BY <1>0, <1>b, <1>12, <2>1, MethodTypes DEF TaskReturns
<1>13. ASSUME NEW w \in Workers, TryRaises(w) PROVE TypeOK'
  BY <1>0, <1>c, <1>13, MethodTypes DEF TryRaises
<1>14. ASSUME NEW w \in Workers, HandlerRaises(w) PROVE TypeOK'
  BY <1>0, <1>b, <1>e, <1>14, MethodTypes DEF HandlerRaises
<1>15. QED
  BY <1>0, <1>1, <1>2, <1>3, <1>4, <1>5, <1>6, <1>7, <1>8, <1>9, <1>10, <1>11,
     <1>12, <1>13, <1>14 DEF BatchNext, MainStep, WorkerStep

\* The steps of the requests and of the server keep every type.
LEMMA RequestStepType ==
  ASSUME TypeOK, FramesOK, (\E r \in Requests : Request(r)) \/ ServerDies
  PROVE  TypeOK'
<1> USE DEF StoreTypeOK, TypeOK, TablesOK
<1>0. \A r \in Requests : r \in Actors /\ r \in Conns /\ ConnOf(r) = r
  BY DEF Actors, Conns, ConnOf
<1>a. \A a \in Actors : \A s \in Steps : [call[a] EXCEPT !.step = s] \in Frames
  BY DEF Frames
<1>b. UNCHANGED batchVars => BatchTypeOK'
  BY DEF batchVars, BatchTypeOK
<1>1. ASSUME NEW r \in Requests, BeginSave(r), UNCHANGED batchVars PROVE TypeOK'
  <2>1. \A t \in Tickers, d \in Dates :
          NewFrame("api", "upsert_instrument", "insert", t, d) \in Frames
    BY NewFrameType DEF Blocks, Ops, Steps
  <2>2. QED
    BY <1>0, <1>b, <1>1, <2>1 DEF BeginSave, ApiTypeOK
<1>2. ASSUME NEW r \in Requests, RequestStep(r), UNCHANGED batchVars PROVE TypeOK'
  <2>1. CASE Insert(r) /\ UNCHANGED response
    BY <1>0, <1>b, <1>2, <2>1, MethodTypes DEF ApiTypeOK
  <2>2. CASE CommitAndCallOn(r) /\ UNCHANGED response
    BY <1>0, <1>b, <1>2, <2>2, MethodTypes DEF ApiTypeOK
  <2>3. CASE SaveReturns(r)
    BY <1>0, <1>a, <1>b, <1>2, <2>3, MethodTypes DEF SaveReturns, ApiTypeOK, Responses, Steps
  <2>4. CASE SaveRaises(r)
    BY <1>0, <1>a, <1>b, <1>2, <2>4, MethodTypes DEF SaveRaises, ApiTypeOK, Responses, Steps
  <2>5. CASE CloseAdapter(r)
    BY <1>0, <1>a, <1>b, <1>2, <2>5, TransactionTypes DEF CloseAdapter, ApiTypeOK, Steps
  <2>6. QED
    BY <1>2, <2>1, <2>2, <2>3, <2>4, <2>5 DEF RequestStep
<1>3. CASE ServerDies
  <2>1. call' \in [Actors -> Frames]
    BY <1>a, <1>3 DEF ServerDies, KillServer, Steps
  <2>2. BatchTypeOK' /\ ApiTypeOK'
    BY <1>3 DEF ServerDies, KillServer, BatchTypeOK, ApiTypeOK
  <2>3. QED
    BY <1>3, <2>1, <2>2 DEF ServerDies, KillServer
<1>4. QED
  BY <1>1, <1>2, <1>3 DEF Request

-----------------------------------------------------------------------------
(* Blocks and methods *)

LEMMA InitFrames == Init => FramesOK
<1> SUFFICES ASSUME Init, NEW a \in Actors PROVE FrameOK(a)
  BY DEF FramesOK
<1>1. CASE a = Batch
  BY <1>1, ActorsAreDistinct DEF Init, FrameOK, FirstFrame, NewFrame, PersistsResult
<1>2. CASE a # Batch
  BY <1>2, ActorsAreDistinct DEF Init, FrameOK, NewFrame, PersistsResult, Actors
<1>3. QED
  BY <1>1, <1>2

\* A step of one actor that leaves its frame well formed leaves all well formed.
LEMMA OneFrame ==
  ASSUME TypeOK, FramesOK, NEW a \in Actors, NEW k \in Frames,
         call' = [call EXCEPT ![a] = k], FrameOK(a)'
  PROVE  FramesOK'
BY DEF FramesOK, FrameOK, TypeOK, StoreTypeOK

\* Every step keeps blocks and methods together.
LEMMA FramesStep ==
  ASSUME TypeOK, FramesOK, Next
  PROVE  FramesOK'
<1> USE DEF TypeOK, StoreTypeOK
<1>0. /\ \A w \in Workers : w \in Actors /\ w # Batch /\ w \notin Requests
      /\ \A r \in Requests : r \in Actors /\ r # Batch /\ r \notin Workers
      /\ Batch \in Actors /\ Batch \notin Workers /\ Batch \notin Requests
  BY ActorsAreDistinct DEF Actors
<1>a. \A a \in Actors : FrameOK(a) /\ call[a] \in Frames
  BY DEF FramesOK
<1>b. UNCHANGED call => FramesOK'
  BY DEF FramesOK, FrameOK
<1>c. \A k \in Frames : \A s \in Steps :
        [k EXCEPT !.step = s] = [block |-> k.block, op |-> k.op, step |-> s,
          ticker |-> k.ticker, date |-> k.date, sid |-> k.sid, rid |-> k.rid,
          rowid |-> k.rowid]
  BY DEF Frames
<1>1. ASSUME NEW a \in Actors, Insert(a) PROVE FramesOK'
  <2>1. WithId(call[a]) \in Frames
    BY <1>a, WithIdFields
  <2>2. [WithId(call[a]) EXCEPT !.step = "commit"] \in Frames
    BY <2>1 DEF Frames, Steps
  <2>3. FrameOK(a)'
    BY <1>1, <1>a, <2>1, <2>2, WithIdFields DEF Insert, FrameOK, Frames
  <2>4. QED
    BY <1>1, <2>2, <2>3, OneFrame DEF Insert
<1>2. ASSUME NEW a \in Actors, CommitAndCallOn(a) PROVE FramesOK'
  <2> DEFINE k == [call[a] EXCEPT !.op = NextOp(@), !.step = "insert"]
  <2>1. /\ NextOp(call[a].op) \in Ops
        /\ NextOp(call[a].op) # "save_averages_snapshot"
    BY <1>a, <1>2 DEF CommitAndCallOn, CallsOn, FrameOK, NextOp, Frames, Ops
  <2>2. k \in Frames /\ call' = [call EXCEPT ![a] = k]
    BY <1>a, <1>2, <2>1 DEF CommitAndCallOn, Frames, Steps
  <2>3. FrameOK(a)'
    BY <1>2, <1>a, <2>1, <2>2 DEF CommitAndCallOn, CallsOn, PersistsResult, FrameOK, Frames
  <2>4. QED
    BY <2>2, <2>3, OneFrame
<1>3. ASSUME NEW a \in Actors, NEW s \in {"idle", "insert", "commit"},
             call' = [call EXCEPT ![a] = [call[a] EXCEPT !.step = s]]
      PROVE  FramesOK'
  <2>1. [call[a] EXCEPT !.step = s] \in Frames
    BY <1>a DEF Frames, Steps
  <2>2. FrameOK(a)'
    BY <1>0, <1>3, <1>a, <2>1 DEF FrameOK, Frames, Actors
  <2>3. QED
    BY <1>3, <2>1, <2>2, OneFrame
<1>d. ASSUME NEW r \in Requests, NEW s \in {"close", "done"},
             call' = [call EXCEPT ![r] = [call[r] EXCEPT !.step = s]]
      PROVE  FramesOK'
  <2>1. [call[r] EXCEPT !.step = s] \in Frames
    BY <1>0, <1>a DEF Frames, Steps
  <2>2. FrameOK(r)'
    BY <1>0, <1>d, <1>a, <2>1 DEF FrameOK, Frames
  <2>3. QED
    BY <1>0, <1>d, <2>1, <2>2, OneFrame
<1>4. ASSUME NEW w \in Workers, call' = [call EXCEPT ![w] = HandlerFrame(w)] PROVE FramesOK'
  <2>1. HandlerFrame(w) \in Frames
    <3>1. call[w].ticker \in Tickers /\ call[w].date \in Dates
      BY <1>0, <1>a DEF Frames
    <3>2. QED
      BY <3>1, NewFrameType DEF HandlerFrame, Blocks, Ops, Steps
  <2>2. FrameOK(w)'
    BY <1>0, <1>4, <2>1 DEF FrameOK, HandlerFrame, NewFrame, PersistsResult
  <2>3. QED
    BY <1>0, <1>4, <2>1, <2>2, OneFrame
<1>5. CASE AveragesSaved \/ AveragesRaise
  BY <1>0, <1>3, <1>5 DEF AveragesSaved, AveragesRaise, IdleFrame
<1>6. CASE ReportBatch \/ BatchRaises
  BY <1>b, <1>6 DEF ReportBatch, BatchRaises
<1>7. CASE KillBatch
  <2> SUFFICES ASSUME NEW a \in Actors PROVE FrameOK(a)'
    BY DEF FramesOK
  <2>1. CASE a \in Requests
    BY <1>7, <1>a, <2>1 DEF KillBatch, FrameOK
  <2>2. CASE a \notin Requests
    <3>1. call'[a] = [call[a] EXCEPT !.step = "idle"]
      BY <1>7, <2>2 DEF KillBatch, IdleFrame
    <3>2. QED
      BY <1>a, <2>2, <3>1 DEF FrameOK, Frames
  <2>3. QED
    BY <2>1, <2>2
<1>8. CASE StartBatch
  <2>1. call' = [call EXCEPT ![Batch] = FirstFrame]
    BY <1>8 DEF StartBatch
  <2>2. FrameOK(Batch)'
    BY <1>0, <2>1, FirstFrameType DEF FrameOK, FirstFrame, NewFrame, PersistsResult
  <2>3. QED
    BY <1>0, <2>1, <2>2, FirstFrameType, OneFrame
<1>9. ASSUME NEW w \in Workers, StartTask(w) PROVE FramesOK'
  <2> DEFINE k(b, o, s) == NewFrame(b, o, s, Watchlist[next], BatchDate)
  <2>1. Watchlist[next] \in Tickers
    BY <1>9, WatchlistAssumption DEF StartTask, BatchTypeOK
  <2>2. k("skip", "create_run", "lock") \in Frames /\ k("try", "upsert_instrument", "build") \in Frames
    BY <2>1, WatchlistAssumption, NewFrameType DEF Blocks, Ops, Steps
  <2>3. CASE call' = [call EXCEPT ![w] = k("skip", "create_run", "lock")]
    <3>1. FrameOK(w)'
      BY <1>0, <2>2, <2>3 DEF FrameOK, NewFrame, PersistsResult
    <3>2. QED
      BY <1>0, <2>2, <2>3, <3>1, OneFrame
  <2>4. CASE call' = [call EXCEPT ![w] = k("try", "upsert_instrument", "build")]
    <3>1. FrameOK(w)'
      BY <1>0, <2>2, <2>4 DEF FrameOK, NewFrame, PersistsResult
    <3>2. QED
      BY <1>0, <2>2, <2>4, <3>1, OneFrame
  <2>5. QED
    BY <1>9, <2>3, <2>4 DEF StartTask
<1>10. ASSUME NEW w \in Workers, BuildPayload(w) PROVE FramesOK'
  <2>1. CASE call' = [call EXCEPT ![w].step = "lock"]
    <3>1. [call[w] EXCEPT !.step = "lock"] \in Frames
      BY <1>0, <1>a DEF Frames, Steps
    <3>2. FrameOK(w)'
      BY <1>0, <1>10, <1>a, <2>1 DEF BuildPayload, FrameOK, Frames
    <3>3. QED
      BY <1>0, <2>1, <3>1, <3>2, OneFrame
  <2>2. QED
    BY <1>4, <1>10, <2>1 DEF BuildPayload
<1>11. ASSUME NEW w \in Workers, AcquireLock(w) PROVE FramesOK'
  <2>1. call' = [call EXCEPT ![w] = [call[w] EXCEPT !.step = "insert"]]
    BY <1>11 DEF AcquireLock
  <2>2. QED
    BY <1>0, <1>3, <2>1
<1>12. ASSUME NEW w \in Workers, TaskReturns(w) \/ HandlerRaises(w) PROVE FramesOK'
  <2>1. call' = [call EXCEPT ![w] = [call[w] EXCEPT !.step = "idle"]]
    BY <1>12 DEF TaskReturns, HandlerRaises, IdleFrame
  <2>2. QED
    BY <1>0, <1>3, <2>1
<1>13. ASSUME NEW w \in Workers, TryRaises(w) PROVE FramesOK'
  BY <1>4, <1>13 DEF TryRaises
<1>14. CASE BatchNext
  BY <1>0, <1>1, <1>2, <1>5, <1>6, <1>7, <1>8, <1>9, <1>10, <1>11, <1>12, <1>13, <1>14
     DEF BatchNext, MainStep, WorkerStep, InsertInBatch, CallOnInBatch
<1>15. ASSUME NEW r \in Requests, BeginSave(r) PROVE FramesOK'
  <2>1. PICK t \in Tickers, d \in Dates :
          call' = [call EXCEPT ![r] = NewFrame("api", "upsert_instrument", "insert", t, d)]
    BY <1>15 DEF BeginSave
  <2>2. NewFrame("api", "upsert_instrument", "insert", t, d) \in Frames
    BY NewFrameType DEF Blocks, Ops, Steps
  <2>3. FrameOK(r)'
    BY <1>0, <2>1, <2>2 DEF FrameOK, NewFrame, PersistsResult
  <2>4. QED
    BY <1>0, <2>1, <2>2, <2>3, OneFrame
<1>16. ASSUME NEW r \in Requests, RequestStep(r) PROVE FramesOK'
  <2>1. CASE SaveReturns(r) \/ SaveRaises(r) \/ CloseAdapter(r)
    BY <1>0, <1>d, <2>1 DEF SaveReturns, SaveRaises, CloseAdapter
  <2>2. QED
    BY <1>0, <1>1, <1>2, <1>16, <2>1 DEF RequestStep
<1>17. CASE ServerDies
  <2> SUFFICES ASSUME NEW a \in Actors PROVE FrameOK(a)'
    BY DEF FramesOK
  <2>1. CASE a \in InFlight
    <3>1. call'[a] = [call[a] EXCEPT !.step = "done"] /\ a \in Requests
      BY <1>17, <2>1 DEF ServerDies, KillServer, InFlight
    <3>2. QED
      BY <1>0, <1>a, <3>1 DEF FrameOK, Frames
  <2>2. CASE a \notin InFlight
    BY <1>17, <1>a, <2>2 DEF ServerDies, KillServer, FrameOK
  <2>3. QED
    BY <2>1, <2>2
<1>18. CASE Quiescent
  BY <1>18, <1>b DEF Quiescent, vars, storeVars
<1>19. QED
  BY <1>14, <1>15, <1>16, <1>17, <1>18 DEF Next, Request

\* Type correctness: whatever the interleaving and the failures, the tables
\* hold rows of the schema, frames and outcomes are well formed, and the
\* status of a runs row is one batch_report has a list for.
THEOREM TypeCorrect == Spec => []TypeOK
<1>1. Init => TypeOK /\ FramesOK
  BY InitType, InitFrames
<1>2. TypeOK /\ FramesOK /\ [Next]_vars => (TypeOK /\ FramesOK)'
  <2> SUFFICES ASSUME TypeOK, FramesOK, [Next]_vars PROVE TypeOK' /\ FramesOK'
    OBVIOUS
  <2>1. CASE Next
    <3>1. TypeOK'
      <4>1. CASE BatchNext /\ UNCHANGED response
        BY <4>1, BatchStepType
      <4>2. CASE (\E r \in Requests : Request(r)) \/ ServerDies
        BY <4>2, RequestStepType
      <4>3. CASE Quiescent
        BY <4>3 DEF Quiescent, vars, storeVars, batchVars, TypeOK, StoreTypeOK,
                    BatchTypeOK, ApiTypeOK
      <4>4. QED
        BY <2>1, <4>1, <4>2, <4>3 DEF Next
    <3>2. QED
      BY <2>1, <3>1, FramesStep
  <2>2. CASE UNCHANGED vars
    BY <2>2 DEF vars, storeVars, batchVars, TypeOK, StoreTypeOK, BatchTypeOK, ApiTypeOK,
                FramesOK, FrameOK
  <2>3. QED
    BY <2>1, <2>2
<1>3. QED
  BY <1>1, <1>2, PTL DEF Spec

-----------------------------------------------------------------------------
(* The two locks *)

\* The threading.Lock covers the method calls of the pool, and each working
\* thread has an unsettled entry of its own.
LEMMA LockStep ==
  ASSUME TypeOK, FramesOK, LockOK, TasksOK, Next
  PROVE  LockOK' /\ TasksOK'
<1> USE DEF TypeOK, StoreTypeOK, BatchTypeOK, LockOK, InMethod, TasksOK, Working, Settled
<1>0. /\ \A w \in Workers : w \in Actors /\ w # Batch /\ w \notin Requests /\ w # NoWorker
      /\ \A r \in Requests : r \in Actors /\ r # Batch /\ r \notin Workers
      /\ Batch \in Actors /\ Batch \notin Workers /\ Batch \notin Requests
  BY ActorsAreDistinct, WatchlistAssumption DEF Actors
<1>a. \A a \in Actors : FrameOK(a) /\ call[a] \in Frames
  BY DEF FramesOK
<1>b. \A a \in Actors : \A s :
        /\ [call[a] EXCEPT !.step = s].step = s
        /\ [call[a] EXCEPT !.step = s].ticker = call[a].ticker
        /\ [call[a] EXCEPT !.step = s].date = call[a].date
  BY <1>a DEF Frames
<1>c. \A a \in Actors : IdleFrame(a).step = "idle"
  BY <1>b DEF IdleFrame
<1>d. \A w \in Workers : /\ HandlerFrame(w).step = "lock"
                         /\ HandlerFrame(w).ticker = call[w].ticker
                         /\ HandlerFrame(w).date = call[w].date
  BY DEF HandlerFrame, NewFrame
<1>1. ASSUME NEW a \in Actors, Insert(a) \/ CommitAndCallOn(a), UNCHANGED batchVars
      PROVE  LockOK' /\ TasksOK'
  <2>1. /\ call'[a].ticker = call[a].ticker /\ call'[a].date = call[a].date
        /\ InMethod(call[a]) /\ InMethod(call'[a])
        /\ \A b \in Actors : b # a => call'[b] = call[b]
    BY <1>1, MethodFrames
  <2>2. \A b \in Actors : /\ call'[b].ticker = call[b].ticker /\ call'[b].date = call[b].date
                          /\ InMethod(call'[b]) <=> InMethod(call[b])
                          /\ call'[b].step = "idle" <=> call[b].step = "idle"
    BY <2>1
  <2>3. QED
    BY <1>0, <1>1, <2>2 DEF batchVars
<1>2. CASE AveragesSaved \/ AveragesRaise
  BY <1>0, <1>c, <1>2 DEF AveragesSaved, AveragesRaise, batchVars
<1>3. CASE ReportBatch \/ BatchRaises
  BY <1>0, <1>3 DEF ReportBatch, BatchRaises, AllSettled
<1>4. CASE KillBatch
  BY <1>0, <1>c, <1>4 DEF KillBatch
<1>5. CASE StartBatch
  BY <1>0, <1>5 DEF StartBatch, FirstFrame, NewFrame, Ended, NoOutcome
<1>6. ASSUME NEW w \in Workers, StartTask(w) PROVE LockOK' /\ TasksOK'
  <2>1. /\ call'[w].step \in {"lock", "build"}
        /\ call'[w].ticker = Watchlist[next] /\ call'[w].date = BatchDate
        /\ \A b \in Actors : b # w => call'[b] = call[b]
    BY <1>0, <1>6 DEF StartTask, NewFrame
  <2>2. /\ next \in Entries /\ next' = next + 1
        /\ phase = "pool" /\ lock # w
    BY <1>0, <1>6, WatchlistAssumption DEF StartTask, Entries
  <2>3. LockOK'
    BY <1>0, <1>6, <2>1, <2>2 DEF StartTask
  <2>4. TasksOK'
    BY <1>0, <1>6, <2>1, <2>2 DEF StartTask, Entries
  <2>5. QED
    BY <2>3, <2>4
<1>7. ASSUME NEW w \in Workers, BuildPayload(w) PROVE LockOK' /\ TasksOK'
  <2>1. /\ call[w].step = "build" /\ call'[w].step = "lock"
        /\ call'[w].ticker = call[w].ticker /\ call'[w].date = call[w].date
        /\ \A b \in Actors : b # w => call'[b] = call[b]
    <3>1. CASE call' = [call EXCEPT ![w].step = "lock"]
      BY <1>0, <1>a, <1>7, <3>1, SetStep DEF BuildPayload
    <3>2. CASE call' = [call EXCEPT ![w] = HandlerFrame(w)]
      BY <1>0, <1>d, <1>7, <3>2 DEF BuildPayload
    <3>3. QED
      BY <1>7, <3>1, <3>2 DEF BuildPayload
  <2>2. QED
    BY <1>0, <1>7, <2>1 DEF BuildPayload, batchVars
<1>8. ASSUME NEW w \in Workers, AcquireLock(w) PROVE LockOK' /\ TasksOK'
  BY <1>0, <1>b, <1>8 DEF AcquireLock
<1>9. ASSUME NEW w \in Workers, TaskReturns(w) \/ HandlerRaises(w) PROVE LockOK' /\ TasksOK'
  <2>1. /\ InMethod(call[w]) /\ lock' = NoWorker
        /\ call' = [call EXCEPT ![w] = IdleFrame(w)]
        /\ \A e \in Entries : e # task[w] => outcome'[e] = outcome[e]
        /\ UNCHANGED <<phase, next, task>>
    BY <1>9 DEF TaskReturns, HandlerRaises, CommitLast, MethodRaises, Busy, Fault, HalfOutput
  <2>2. QED
    BY <1>0, <1>c, <2>1
<1>10. ASSUME NEW w \in Workers, TryRaises(w) PROVE LockOK' /\ TasksOK'
  <2>1. InMethod(call[w])
    BY <1>10 DEF TryRaises, MethodRaises, Busy, Fault, HalfOutput
  <2>2. QED
    BY <1>0, <1>d, <1>10, <2>1 DEF TryRaises
<1>11. ASSUME \A w \in Workers \cup {Batch} : call'[w] = call[w],
              UNCHANGED <<phase, next, task, lock, outcome>>
       PROVE  LockOK' /\ TasksOK'
  BY <1>0, <1>11
<1>12. ASSUME NEW r \in Requests, NEW k, call' = [call EXCEPT ![r] = k], UNCHANGED batchVars
       PROVE  LockOK' /\ TasksOK'
  BY <1>0, <1>11, <1>12 DEF batchVars
<1>13. CASE BatchNext
  BY <1>0, <1>1, <1>2, <1>3, <1>4, <1>5, <1>6, <1>7, <1>8, <1>9, <1>10, <1>13
     DEF BatchNext, MainStep, WorkerStep, InsertInBatch, CallOnInBatch
<1>14. ASSUME NEW r \in Requests, Request(r) PROVE LockOK' /\ TasksOK'
  <2>1. CASE BeginSave(r) \/ SaveReturns(r) \/ SaveRaises(r) \/ CloseAdapter(r)
    BY <1>12, <1>14, <2>1 DEF Request, BeginSave, SaveReturns, SaveRaises, CloseAdapter
  <2>2. QED
    BY <1>0, <1>1, <1>14, <2>1 DEF Request, RequestStep
<1>15. CASE ServerDies
  BY <1>0, <1>11, <1>15 DEF ServerDies, KillServer, InFlight
<1>16. CASE Quiescent
  BY <1>0, <1>11, <1>16 DEF Quiescent, vars, storeVars, batchVars
<1>17. QED
  BY <1>13, <1>14, <1>15, <1>16 DEF Next

\* Two actors that are inside a method are on different connections.
LEMMA MethodsExclusive ==
  ASSUME TypeOK, FramesOK, LockOK
  PROVE  \A a, b \in Actors :
           InMethod(call[a]) /\ InMethod(call[b]) /\ a # b => ConnOf(a) # ConnOf(b)
BY ActorsAreDistinct, WatchlistAssumption
   DEF LockOK, InMethod, ConnOf, Actors

-----------------------------------------------------------------------------
(* Transactions *)

\* The actor leaves its method or goes on to the next one.
LEMMA TransactionEnds ==
  ASSUME TypeOK, FramesOK, LockOK, TransactionsOK,
         NEW a \in Actors, InMethod(call[a]), call'[a].step # "commit",
         a \in Requests => call'[a].step \in {"insert", "close"},
         \A b \in Actors : b # a => call'[b] = call[b],
         \/ CommitTxn(ConnOf(a)) \/ Rollback(ConnOf(a)) \/ \E rows : Write(ConnOf(a), rows)
         \/ UNCHANGED <<committed, pending, writer>>
  PROVE  TransactionsOK'
<1> USE DEF TypeOK, StoreTypeOK, TransactionsOK
<1>1. /\ ConnOf(a) \in Conns
      /\ \A c \in Conns : c # ConnOf(a) =>
            pending'[c] = pending[c] /\ (writer = c => writer' = c)
      /\ pending'[ConnOf(a)] # {} => writer' = ConnOf(a)
  <2>0. ConnOf(a) \in Conns /\ NoConn \notin Conns
    BY ConnOfType, ActorsAreDistinct DEF Conns
  <2>1. CASE \E rows : Write(ConnOf(a), rows)
    BY <2>0, <2>1 DEF Write, CanWrite
  <2>2. CASE CommitTxn(ConnOf(a)) \/ Rollback(ConnOf(a))
    BY <2>0, <2>2 DEF CommitTxn, Rollback, Unlock
  <2>3. CASE UNCHANGED <<committed, pending, writer>>
    BY <2>0, <2>3 DEF OneOpenTransaction
  <2>4. QED
    BY <2>1, <2>2, <2>3
<1>2. \A b \in Actors : call'[b].step = "commit" =>
        /\ call'[b] = call[b]
        /\ ConnOf(b) # ConnOf(a)
        /\ ConnOf(b) \in Conns
        /\ InMethod(call[b])
  BY MethodsExclusive, ConnOfType DEF InMethod
<1>3. OneOpenTransaction'
  BY <1>1 DEF OneOpenTransaction
<1>4. InFlightRowsArePrivate'
  <2> SUFFICES ASSUME NEW b \in Actors, call'[b].step = "commit"
               PROVE  RowsOf(call'[b]) \subseteq pending'[ConnOf(b)]
    BY DEF InFlightRowsArePrivate
  <2>1. RowsOf(call[b]) \subseteq pending[ConnOf(b)]
    BY <1>2 DEF InFlightRowsArePrivate
  <2>2. QED
    BY <1>1, <1>2, <2>1
<1>5. \A b \in Actors : call'[b].step = "commit" => writer' = ConnOf(b)
  BY <1>1, <1>2
<1>6. \A r \in Requests : call'[r].step \in {"idle", "done"} => pending'[r] = {}
  <2> SUFFICES ASSUME NEW r \in Requests, call'[r].step \in {"idle", "done"}
               PROVE  pending'[r] = {}
    OBVIOUS
  <2>1. r \in Actors /\ r # a /\ r \in Conns
    BY DEF Actors, Conns
  <2>2. CASE ConnOf(a) # r
    BY <1>1, <2>1, <2>2
  <2>3. CASE ConnOf(a) = r
    BY <2>1, <2>3, ActorsAreDistinct DEF ConnOf
  <2>4. QED
    BY <2>2, <2>3
<1>7. QED
  BY <1>3, <1>4, <1>5, <1>6

\* The actor's INSERTs.
LEMMA TransactionGrows ==
  ASSUME TypeOK, FramesOK, LockOK, TransactionsOK, NEW a \in Actors, Insert(a)
  PROVE  TransactionsOK'
<1> USE DEF TypeOK, StoreTypeOK, TransactionsOK
<1> DEFINE c == ConnOf(a)
           rows == RowsOf(WithId(call[a]))
<1>1. /\ c \in Conns
      /\ writer \in {NoConn, c} /\ writer' = c
      /\ pending' = [pending EXCEPT ![c] = @ \cup rows]
  BY ConnOfType DEF Insert, Write, CanWrite
<1>2. NoConn \notin Conns
  BY ActorsAreDistinct DEF Conns
<1>3. /\ call[a].step = "insert" /\ call'[a].step = "commit"
      /\ \A b \in Actors : b # a => call'[b] = call[b]
  BY MethodFrames
<1>4. RowsOf(call'[a]) = rows
  BY WithIdFields, MethodFrames, RowsOfStep
<1>5. \A b \in Actors : call'[b].step = "commit" => b = a
  <2> SUFFICES ASSUME NEW b \in Actors, call'[b].step = "commit", b # a PROVE FALSE
    OBVIOUS
  <2>1. call[b].step = "commit" /\ writer = ConnOf(b)
    BY <1>3
  <2>2. ConnOf(b) # c /\ ConnOf(b) \in Conns
    BY <1>3, <2>1, MethodsExclusive, ConnOfType DEF InMethod
  <2>3. QED
    BY <1>1, <1>2, <2>1, <2>2
<1>6. OneOpenTransaction'
  BY <1>1, <1>2 DEF OneOpenTransaction
<1>7. InFlightRowsArePrivate'
  <2>1. RowsOf(call'[a]) \subseteq pending'[c]
    BY <1>1, <1>4
  <2>2. QED
    BY <1>5, <2>1 DEF InFlightRowsArePrivate
<1>8. \A r \in Requests : call'[r].step \in {"idle", "done"} => pending'[r] = {}
  BY <1>1, <1>3, ActorsAreDistinct DEF ConnOf, Actors, Conns
<1>9. QED
  BY <1>1, <1>5, <1>6, <1>7, <1>8

\* Nobody enters or leaves a method and no transaction moves.
LEMMA TransactionsRest ==
  ASSUME TransactionsOK, UNCHANGED <<pending, writer>>,
         \A a \in Actors : call'[a].step = "commit" => call'[a] = call[a],
         \A r \in Requests : call'[r].step \in {"idle", "done"} => call'[r] = call[r]
  PROVE  TransactionsOK'
BY DEF TransactionsOK, OneOpenTransaction, InFlightRowsArePrivate

\* The transaction of a connection that no actor is about to commit goes.
LEMMA TransactionDropped ==
  ASSUME TypeOK, TransactionsOK, NEW c \in Conns, Rollback(c),
         \A a \in Actors : call'[a].step = "commit" => call'[a] = call[a] /\ ConnOf(a) # c,
         \A r \in Requests : call'[r].step \in {"idle", "done"} => call'[r] = call[r] \/ r = c
  PROVE  TransactionsOK'
<1> USE DEF TypeOK, StoreTypeOK, TransactionsOK
<1>1. /\ pending'[c] = {}
      /\ \A d \in Conns : d # c => pending'[d] = pending[d] /\ (writer = d => writer' = d)
  BY DEF Rollback, Unlock
<1>2. OneOpenTransaction'
  BY <1>1 DEF OneOpenTransaction
<1>3. InFlightRowsArePrivate'
  BY <1>1, ConnOfType DEF InFlightRowsArePrivate
<1>4. \A a \in Actors : call'[a].step = "commit" => writer' = ConnOf(a)
  BY <1>1, ConnOfType
<1>5. \A r \in Requests : call'[r].step \in {"idle", "done"} => pending'[r] = {}
  BY <1>1 DEF Conns
<1>6. QED
  BY <1>2, <1>3, <1>4, <1>5

\* The transactions stay apart, one open at a time.
LEMMA TransactionsStep ==
  ASSUME TypeOK, FramesOK, LockOK, TasksOK, TransactionsOK, Next
  PROVE  TransactionsOK'
<1> USE DEF TypeOK, StoreTypeOK
<1>0. /\ \A w \in Workers : w \in Actors /\ w # Batch /\ w \notin Requests /\ ConnOf(w) = Batch
      /\ \A r \in Requests : r \in Actors /\ r # Batch /\ r \notin Workers /\ ConnOf(r) = r
      /\ Batch \in Actors /\ Batch \notin Workers /\ Batch \notin Requests
      /\ ConnOf(Batch) = Batch
      /\ Conns = Requests \cup {Batch}
  BY ActorsAreDistinct DEF Actors, Conns, ConnOf
<1>a. \A a \in Actors : FrameOK(a) /\ call[a] \in Frames
  BY DEF FramesOK
<1>b. \A a \in Actors : \A s : [call[a] EXCEPT !.step = s].step = s
  BY <1>a DEF Frames
<1>c. \A a \in Actors : IdleFrame(a).step = "idle"
  BY <1>b DEF IdleFrame
<1>d. \A w \in Workers : HandlerFrame(w).step = "lock"
  BY DEF HandlerFrame, NewFrame
<1>1. ASSUME NEW a \in Actors, CommitAndCallOn(a) PROVE TransactionsOK'
  <2>1. /\ InMethod(call[a]) /\ call'[a].step = "insert"
        /\ \A b \in Actors : b # a => call'[b] = call[b]
    BY <1>1, MethodFrames DEF InMethod
  <2>2. QED
    BY <1>1, <2>1, TransactionEnds DEF CommitAndCallOn
<1>2. ASSUME NEW a \in Actors, NEW k, CommitLast(a) \/ MethodRaises(a),
             call' = [call EXCEPT ![a] = k], k.step \in {"idle", "lock", "close"},
             a \in Requests => k.step = "close"
      PROVE  TransactionsOK'
  <2>1. InMethod(call[a])
    BY <1>2 DEF CommitLast, MethodRaises, Busy, Fault, HalfOutput, InMethod
  <2>2. \/ CommitTxn(ConnOf(a)) \/ Rollback(ConnOf(a)) \/ \E rows : Write(ConnOf(a), rows)
        \/ UNCHANGED <<committed, pending, writer>>
    BY <1>2 DEF CommitLast, MethodRaises, Busy, Fault, HalfOutput
  <2>3. /\ call'[a].step # "commit"
        /\ a \in Requests => call'[a].step \in {"insert", "close"}
        /\ \A b \in Actors : b # a => call'[b] = call[b]
    BY <1>2
  <2>4. QED
    BY <2>1, <2>2, <2>3, TransactionEnds
<1>3. CASE AveragesSaved \/ AveragesRaise
  BY <1>0, <1>2, <1>3, <1>c DEF AveragesSaved, AveragesRaise
<1>4. CASE ReportBatch \/ BatchRaises
  <2>1. \A a \in Actors \ Requests : ~InMethod(call[a])
    BY <1>0, <1>4 DEF ReportBatch, BatchRaises, LockOK, TasksOK, Working, Settled, AllSettled,
                      InMethod, Actors
  <2>2. Rollback(Batch) /\ UNCHANGED call
    BY <1>4 DEF ReportBatch, BatchRaises
  <2>3. QED
    BY <1>0, <2>1, <2>2, TransactionDropped DEF InMethod, ConnOf
<1>5. CASE KillBatch
  <2>1. \A a \in Actors : call'[a] = IF a \in Requests THEN call[a] ELSE IdleFrame(a)
    BY <1>5 DEF KillBatch
  <2>2. QED
    BY <1>0, <1>5, <1>c, <2>1, TransactionDropped DEF KillBatch
<1>6. CASE StartBatch
  BY <1>0, <1>6, TransactionsRest DEF StartBatch, FirstFrame, NewFrame
<1>7. ASSUME NEW w \in Workers, StartTask(w) \/ BuildPayload(w) \/ AcquireLock(w)
      PROVE  TransactionsOK'
  <2>1. /\ call'[w].step # "commit"
        /\ \A b \in Actors : b # w => call'[b] = call[b]
    <3>1. CASE StartTask(w)
      BY <1>0, <3>1 DEF StartTask, NewFrame
    <3>2. CASE BuildPayload(w)
      <4>1. CASE call' = [call EXCEPT ![w] = [call[w] EXCEPT !.step = "lock"]]
        BY <1>0, <1>b, <4>1
      <4>2. CASE call' = [call EXCEPT ![w] = HandlerFrame(w)]
        BY <1>0, <1>d, <4>2
      <4>3. QED
        BY <3>2, <4>1, <4>2 DEF BuildPayload
    <3>3. CASE AcquireLock(w)
      <4>1. call' = [call EXCEPT ![w] = [call[w] EXCEPT !.step = "insert"]]
        BY <3>3 DEF AcquireLock
      <4>2. QED
        BY <1>0, <1>b, <4>1
    <3>4. QED
      BY <1>7, <3>1, <3>2, <3>3
  <2>2. QED
    BY <1>0, <1>7, <2>1, TransactionsRest DEF StartTask, BuildPayload, AcquireLock
<1>8. ASSUME NEW w \in Workers, TaskReturns(w) \/ TryRaises(w) \/ HandlerRaises(w)
      PROVE  TransactionsOK'
  BY <1>0, <1>2, <1>8, <1>c, <1>d DEF TaskReturns, TryRaises, HandlerRaises
<1>9. CASE BatchNext
  BY <1>0, <1>1, <1>3, <1>4, <1>5, <1>6, <1>7, <1>8, <1>9, TransactionGrows
     DEF BatchNext, MainStep, WorkerStep, InsertInBatch, CallOnInBatch
<1>10. ASSUME NEW r \in Requests, Request(r) PROVE TransactionsOK'
  <2>1. CASE BeginSave(r)
    BY <1>0, <2>1, TransactionsRest DEF BeginSave, NewFrame
  <2>2. CASE SaveReturns(r) \/ SaveRaises(r)
    <3>1. call' = [call EXCEPT ![r] = [call[r] EXCEPT !.step = "close"]]
      BY <2>2 DEF SaveReturns, SaveRaises
    <3>2. [call[r] EXCEPT !.step = "close"].step = "close"
      BY <1>0, <1>b
    <3>3. QED
      BY <1>0, <1>2, <2>2, <3>1, <3>2 DEF SaveReturns, SaveRaises
  <2>3. CASE CloseAdapter(r)
    BY <1>0, <1>b, <2>3, TransactionDropped DEF CloseAdapter, ConnOf
  <2>4. QED
    BY <1>0, <1>1, <1>10, <2>1, <2>2, <2>3, TransactionGrows DEF Request, RequestStep
<1>11. CASE ServerDies
  <2>1. \A a \in Actors : IF a \in InFlight THEN call'[a].step = "done" ELSE call'[a] = call[a]
    BY <1>11, <1>b DEF ServerDies, KillServer
  <2>2. /\ \A c \in Conns : pending'[c] = IF c \in InFlight THEN {} ELSE pending[c]
        /\ writer' = IF writer \in InFlight THEN NoConn ELSE writer
    BY <1>11 DEF ServerDies, KillServer
  <2>3. OneOpenTransaction'
    BY <2>2 DEF OneOpenTransaction, TransactionsOK
  <2>4. \A a \in Actors : call'[a].step = "commit" =>
          call'[a] = call[a] /\ a \notin InFlight /\ ConnOf(a) \notin InFlight
    BY <1>0, <2>1 DEF InFlight, ConnOf
  <2>5. InFlightRowsArePrivate' /\ \A a \in Actors : call'[a].step = "commit" => writer' = ConnOf(a)
    BY <2>2, <2>4, ConnOfType DEF InFlightRowsArePrivate, TransactionsOK
  <2>6. \A r \in Requests : call'[r].step \in {"idle", "done"} => pending'[r] = {}
    BY <1>0, <2>1, <2>2 DEF TransactionsOK
  <2>7. QED
    BY <2>3, <2>5, <2>6 DEF TransactionsOK
<1>12. CASE Quiescent
  BY <1>12, TransactionsRest DEF Quiescent, vars, storeVars
<1>13. QED
  BY <1>9, <1>10, <1>11, <1>12 DEF Next

-----------------------------------------------------------------------------
(* Every step seen from the database and from the frames *)

\* Nothing is inserted: a transaction is committed, or some are dropped.
Commits == \E c \in Conns : CommitTxn(c)
Drops == /\ committed' = committed
         /\ \A c \in Conns : pending'[c] \in {{}, pending[c]}

Quiet == (Commits \/ Drops) /\ nextId' = nextId

\* Half an output is inserted, and its method has raised.
HalfStep(a) == HalfOutput(a) /\ ~InMethod(call'[a])

\* Every step inserts, commits one transaction, or drops transactions; ids are
\* only drawn by INSERTs.
LEMMA StoreSteps ==
  ASSUME TypeOK, FramesOK, Next
  PROVE  (\E a \in Actors : Insert(a) \/ HalfStep(a)) \/ Quiet
<1> USE DEF TypeOK, StoreTypeOK, Quiet
<1>0. /\ \A w \in Workers : w \in Actors
      /\ \A r \in Requests : r \in Actors /\ r \in Conns
      /\ Batch \in Actors /\ Batch \in Conns
      /\ \A a \in Actors : ConnOf(a) \in Conns
  BY ConnOfType DEF Actors, Conns
<1>a. UNCHANGED <<committed, pending>> => Drops
  BY DEF Drops
<1>b. \A c \in Conns : Rollback(c) => Drops
  BY DEF Drops, Rollback
<1>c. \A a \in Actors :
        /\ call'[a] = IdleFrame(a) \/ call'[a] = [call[a] EXCEPT !.step = "close"]
             => ~InMethod(call'[a])
        /\ call'[a] = HandlerFrame(a) => ~InMethod(call'[a])
  <2>1. \A a \in Actors : \A t : [call[a] EXCEPT !.step = t].step = t
    BY DEF Frames
  <2>2. \A a \in Actors : HandlerFrame(a).step = "lock"
    BY DEF HandlerFrame, NewFrame
  <2>3. QED
    BY <2>1, <2>2 DEF IdleFrame, InMethod
<1>1. \A a \in Actors : CommitLast(a) => Commits /\ nextId' = nextId
  BY <1>0 DEF CommitLast, Commits
<1>2. \A a \in Actors : CommitAndCallOn(a) => Commits /\ nextId' = nextId
  BY <1>0 DEF CommitAndCallOn, Commits
<1>3. \A a \in Actors : MethodRaises(a) /\ ~InMethod(call'[a]) => HalfStep(a) \/ Quiet
  BY <1>0, <1>a, <1>b DEF MethodRaises, Busy, Fault, HalfStep
<1>4. CASE MainStep
  BY <1>0, <1>b, <1>c, <1>1, <1>3, <1>4
     DEF MainStep, InsertInBatch, AveragesSaved, AveragesRaise, ReportBatch, BatchRaises
<1>5. CASE KillBatch \/ StartBatch
  BY <1>0, <1>a, <1>b, <1>5 DEF KillBatch, StartBatch
<1>6. ASSUME NEW w \in Workers, WorkerStep(w)
      PROVE  Insert(w) \/ HalfStep(w) \/ Quiet
  <2>1. CASE StartTask(w) \/ BuildPayload(w) \/ AcquireLock(w)
    BY <1>a, <2>1 DEF StartTask, BuildPayload, AcquireLock
  <2>2. CASE ~(StartTask(w) \/ BuildPayload(w) \/ AcquireLock(w))
    BY <1>0, <1>c, <1>1, <1>2, <1>3, <1>6, <2>2
       DEF WorkerStep, InsertInBatch, CallOnInBatch, TaskReturns, TryRaises, HandlerRaises
  <2>3. QED
    BY <2>1, <2>2
<1>7. ASSUME NEW r \in Requests, Request(r)
      PROVE  Insert(r) \/ HalfStep(r) \/ Quiet
  BY <1>0, <1>a, <1>b, <1>c, <1>1, <1>2, <1>3, <1>7
     DEF Request, BeginSave, RequestStep, SaveReturns, SaveRaises, CloseAdapter
<1>8. CASE ServerDies
  BY <1>8 DEF ServerDies, KillServer, Drops
<1>9. CASE Quiescent
  BY <1>9, <1>a DEF Quiescent, vars, storeVars
<1>10. QED
  BY <1>0, <1>4, <1>5, <1>6, <1>7, <1>8, <1>9 DEF Next, BatchNext

\* What a step that inserts nothing may do to a frame: keep its ids or reset
\* them; keep it in its method, begin the sequence of calls, or call on.
QuietFrame(a) ==
  LET k == call[a]
      j == call'[a]
  IN  /\ \/ j.sid = k.sid /\ j.rid = k.rid /\ j.rowid = k.rowid
         \/ j.sid = 0 /\ j.rid = 0 /\ j.rowid = 0
      /\ \/ j = k
         \/ ~InMethod(j)
         \/ j.step = "insert" /\ j.op \notin {"save_input_snapshot", "save_output"}
              /\ (PersistsResult(j.block) => j.op = "upsert_instrument")
         \/ CommitAndCallOn(a)

LEMMA QuietFrames ==
  ASSUME TypeOK, FramesOK, Next, ~ \E a \in Actors : Insert(a)
  PROVE  \A a \in Actors : QuietFrame(a)
<1> USE DEF TypeOK, StoreTypeOK
<1>0. /\ \A w \in Workers : w \in Actors
      /\ \A r \in Requests : r \in Actors
      /\ Batch \in Actors
  BY DEF Actors
<1>a. \A a \in Actors : FrameOK(a) /\ call[a] \in Frames
  BY DEF FramesOK
<1>b. \A a \in Actors : call'[a] = call[a] => QuietFrame(a)
  BY DEF QuietFrame
<1>c. \A a \in Actors : \A s \in {"idle", "lock", "close", "done"} :
        call'[a] = [call[a] EXCEPT !.step = s] => QuietFrame(a)
  BY <1>a DEF QuietFrame, InMethod, Frames
<1>d. \A a \in Actors : call'[a] = IdleFrame(a) => QuietFrame(a)
  BY <1>c DEF IdleFrame
<1>e. \A w \in Workers : call'[w] = HandlerFrame(w) => QuietFrame(w)
  BY DEF HandlerFrame, NewFrame, QuietFrame, InMethod
<1>f. \A a \in Actors : CommitAndCallOn(a) => QuietFrame(a)
  BY MethodFrames DEF QuietFrame
<1> SUFFICES ASSUME NEW a \in Actors PROVE QuietFrame(a)
  OBVIOUS
<1>1. CASE \E b \in Actors : CommitAndCallOn(b)
  BY <1>1, <1>b, <1>f, MethodFrames
<1>2. CASE AveragesSaved \/ AveragesRaise
  BY <1>0, <1>2, <1>b, <1>d DEF AveragesSaved, AveragesRaise
<1>3. CASE ReportBatch \/ BatchRaises
  BY <1>3, <1>b DEF ReportBatch, BatchRaises
<1>4. CASE KillBatch
  BY <1>4, <1>b, <1>d DEF KillBatch
<1>5. CASE StartBatch
  <2>1. call' = [call EXCEPT ![Batch] = FirstFrame]
    BY <1>5 DEF StartBatch
  <2>2. QuietFrame(Batch)
    BY <1>0, <2>1 DEF FirstFrame, NewFrame, QuietFrame, PersistsResult
  <2>3. QED
    BY <1>b, <2>1, <2>2
<1>6. ASSUME NEW w \in Workers, WorkerStep(w) PROVE QuietFrame(a)
  <2>1. CASE StartTask(w)
    <3>1. QuietFrame(w)
      BY <1>0, <2>1 DEF StartTask, NewFrame, QuietFrame, InMethod
    <3>2. QED
      BY <1>b, <2>1, <3>1 DEF StartTask
  <2>2. CASE BuildPayload(w)
    BY <1>0, <1>b, <1>c, <1>e, <2>2 DEF BuildPayload
  <2>3. CASE AcquireLock(w)
    <3>1. call' = [call EXCEPT ![w] = [call[w] EXCEPT !.step = "insert"]] /\ call[w].step = "lock"
      BY <2>3 DEF AcquireLock
    <3>2. call'[w] = [call[w] EXCEPT !.step = "insert"]
      BY <1>0, <3>1
    <3>3. QuietFrame(w)
      <4>1. /\ call[w].op \notin {"save_input_snapshot", "save_output"}
            /\ PersistsResult(call[w].block) => call[w].op = "upsert_instrument"
        BY <1>0, <1>a, <3>1, ActorsAreDistinct DEF FrameOK, PersistsResult
      <4>2. QED
        BY <1>0, <1>a, <3>2, <4>1 DEF QuietFrame, InMethod, Frames
    <3>4. QED
      BY <1>b, <3>1, <3>3
  <2>4. CASE TaskReturns(w) \/ TryRaises(w) \/ HandlerRaises(w)
    BY <1>0, <1>b, <1>d, <1>e, <2>4 DEF TaskReturns, TryRaises, HandlerRaises
  <2>5. QED
    BY <1>0, <1>1, <1>6, <2>1, <2>2, <2>3, <2>4 DEF WorkerStep, InsertInBatch, CallOnInBatch
<1>7. ASSUME NEW r \in Requests, Request(r) PROVE QuietFrame(a)
  <2>1. CASE BeginSave(r)
    <3>1. QuietFrame(r)
      BY <1>0, <2>1 DEF BeginSave, NewFrame, QuietFrame, InMethod
    <3>2. QED
      BY <1>b, <2>1, <3>1 DEF BeginSave
  <2>2. CASE SaveReturns(r) \/ SaveRaises(r) \/ CloseAdapter(r)
    BY <1>0, <1>b, <1>c, <2>2 DEF SaveReturns, SaveRaises, CloseAdapter
  <2>3. QED
    BY <1>0, <1>1, <1>7, <2>1, <2>2 DEF Request, RequestStep
<1>8. CASE ServerDies
  BY <1>8, <1>b, <1>c DEF ServerDies, KillServer, InFlight
<1>9. CASE Quiescent
  BY <1>9, <1>b DEF Quiescent, vars, storeVars
<1>10. QED
  BY <1>0, <1>1, <1>2, <1>3, <1>4, <1>5, <1>6, <1>7, <1>8, <1>9
     DEF Next, BatchNext, MainStep, InsertInBatch

\* An INSERT adds the rows of its frame to those written, nothing else does.
LEMMA RowsWrittenStep ==
  ASSUME TypeOK, FramesOK
  PROVE  /\ \A a \in Actors : Insert(a) =>
              /\ committed' = committed
              /\ RowsWritten' = RowsWritten \cup RowsOf(WithId(call[a]))
              /\ nextId' = IF DrawsId(call[a].op) THEN nextId + 1 ELSE nextId
         /\ \A a \in Actors : HalfOutput(a) =>
              /\ committed' = committed
              /\ RowsWritten' = RowsWritten \cup HalfRow(call[a])
         /\ Commits \/ Drops => RowsWritten' \subseteq RowsWritten
<1> USE DEF TypeOK, StoreTypeOK
<1>1. ASSUME NEW a \in Actors, Insert(a)
      PROVE  RowsWritten' = RowsWritten \cup RowsOf(WithId(call[a]))
  <2>1. /\ ConnOf(a) \in Conns /\ committed' = committed
        /\ pending' = [pending EXCEPT ![ConnOf(a)] = @ \cup RowsOf(WithId(call[a]))]
    BY <1>1, ConnOfType DEF Insert, Write
  <2>2. QED
    BY <2>1 DEF RowsWritten
<1>2. ASSUME Commits PROVE RowsWritten' \subseteq RowsWritten
  <2>1. PICK c \in Conns : CommitTxn(c)
    BY <1>2 DEF Commits
  <2>2. /\ committed' = committed \cup pending[c]
        /\ \A d \in Conns : pending'[d] \subseteq pending[d]
    BY <2>1 DEF CommitTxn
  <2>3. QED
    BY <2>2 DEF RowsWritten
<1>3. ASSUME Drops PROVE RowsWritten' \subseteq RowsWritten
  BY <1>3 DEF Drops, RowsWritten
<1>4. \A a \in Actors : Insert(a) => committed' = committed
  BY DEF Insert, Write
<1>5. \A a \in Actors : Insert(a) =>
        nextId' = IF DrawsId(call[a].op) THEN nextId + 1 ELSE nextId
  BY DEF Insert
<1>6. ASSUME NEW a \in Actors, HalfOutput(a)
      PROVE  committed' = committed /\ RowsWritten' = RowsWritten \cup HalfRow(call[a])
  <2>1. /\ ConnOf(a) \in Conns /\ committed' = committed
        /\ pending' = [pending EXCEPT ![ConnOf(a)] = @ \cup HalfRow(call[a])]
    BY <1>6, ConnOfType DEF HalfOutput, Write, HalfRow
  <2>2. QED
    BY <2>1 DEF RowsWritten
<1>7. QED
  BY <1>1, <1>2, <1>3, <1>4, <1>5, <1>6

\* A frame that is about to give its runs row an output.
AwaitsOutput(k) == \/ k.op = "save_output" /\ k.step = "insert"
                   \/ k.op = "create_run" /\ k.step = "commit"

\* Ids and rowids are drawn in order and never twice.
LEMMA IdsStep ==
  ASSUME TypeOK, FramesOK, LockOK, TransactionsOK, IdsOK, Next
  PROVE  IdsOK'
<1> USE DEF TypeOK, StoreTypeOK
<1>0. \A a \in Actors : call[a] \in Frames
  OBVIOUS
<1>a. /\ \A x \in RowsWritten :
           /\ x.table \in {"input_snapshots", "runs", "outputs", "checks"} => x.id < nextId
           /\ x.table = "outputs" => x.rowid < nextId
      /\ \A a \in Actors : call[a].sid < nextId /\ call[a].rid < nextId /\ call[a].rowid < nextId
      /\ \A a, b \in Actors : a # b /\ call[a].rid = call[b].rid => call[a].rid = 0
      /\ \A a \in Actors : AwaitsOutput(call[a]) =>
            /\ call[a].rid # 0
            /\ \A x \in RowsWritten : x.table \in {"outputs", "checks"} => x.id # call[a].rid
  BY DEF IdsOK, AwaitsOutput
<1>1. ASSUME NEW a \in Actors, Insert(a) PROVE IdsOK'
  <2> DEFINE k == call[a]
  <2>1. k \in Frames /\ k.op \in Ops /\ k.step = "insert"
        /\ k.sid \in Nat /\ k.rid \in Nat /\ k.rowid \in Nat
    BY <1>1, <1>0 DEF Insert, Frames
  <2>2. /\ RowsWritten' = RowsWritten \cup RowsOf(WithId(k))
        /\ nextId' = IF DrawsId(k.op) THEN nextId + 1 ELSE nextId
    BY <1>1, RowsWrittenStep
  <2>3. /\ call'[a].step = "commit" /\ call'[a].op = k.op
        /\ call'[a].sid = WithId(k).sid /\ call'[a].rid = WithId(k).rid
        /\ call'[a].rowid = WithId(k).rowid
        /\ \A b \in Actors : b # a => call'[b] = call[b]
    BY <1>1, MethodFrames
  <2>4. \A b \in Actors : call[b].sid \in Nat /\ call[b].rid \in Nat /\ call[b].rowid \in Nat
    BY <1>0 DEF Frames
  <2>5. \A x \in RowsWritten :
           /\ x.table \in {"input_snapshots", "runs", "outputs", "checks"} => x.id \in Nat
           /\ x.table = "outputs" => x.rowid \in Nat
    <3>1. RowsWritten \subseteq AllRows
      BY DEF RowsWritten
    <3>2. QED
      BY <3>1 DEF AllRows, Instruments, Snapshots, Runs, Outputs, Checks, Averages
  <2>6. CASE k.op = "save_averages_snapshot" \/ k.op = "upsert_instrument"
    BY <1>a, <2>1, <2>2, <2>3, <2>6, InsertedRows
       DEF IdsOK, AwaitsOutput, AveragesRow, InstrumentRow, DrawsId
  <2>7. CASE k.op = "save_input_snapshot"
    BY <1>a, <2>1, <2>2, <2>3, <2>4, <2>5, <2>7, InsertedRows
       DEF IdsOK, AwaitsOutput, SnapshotRow, DrawsId
  <2>8. CASE k.op = "create_run"
    BY <1>a, <2>1, <2>2, <2>3, <2>4, <2>5, <2>8, InsertedRows
       DEF IdsOK, AwaitsOutput, RunRow, DrawsId
  <2>9. CASE k.op = "save_output"
    BY <1>a, <2>1, <2>2, <2>3, <2>4, <2>5, <2>9, InsertedRows
       DEF IdsOK, AwaitsOutput, OutputRow, ChecksRow, DrawsId
  <2>10. QED
    BY <2>1, <2>6, <2>7, <2>8, <2>9 DEF Ops
<1>2. CASE ~ \E a \in Actors : Insert(a)
  <2>1. /\ \A x \in RowsWritten' :
             /\ x.table \in {"input_snapshots", "runs", "outputs", "checks"} => x.id < nextId'
             /\ x.table = "outputs" => x.rowid < nextId'
        /\ nextId' \in Nat /\ nextId <= nextId'
        /\ \A a \in Actors : AwaitsOutput(call'[a]) /\ call'[a].rid = call[a].rid =>
              \A x \in RowsWritten' : x.table \in {"outputs", "checks"} =>
                 x \in RowsWritten \/ x.id # call'[a].rid
    <3>1. CASE Quiet
      BY <1>a, <3>1, RowsWrittenStep DEF Quiet
    <3>2. ASSUME NEW b \in Actors, HalfOutput(b)
          PROVE  /\ \A x \in RowsWritten' :
                      /\ x.table \in {"input_snapshots", "runs", "outputs", "checks"} => x.id < nextId'
                      /\ x.table = "outputs" => x.rowid < nextId'
                 /\ \A x \in RowsWritten' : x \in RowsWritten \/ x.id = call[b].rid
                 /\ nextId' = nextId + 1
      <4>1. RowsWritten' = RowsWritten \cup HalfRow(call[b]) /\ nextId' = nextId + 1
        BY <3>2, RowsWrittenStep DEF HalfOutput
      <4>2. call[b].rid \in Nat /\ call[b].rid < nextId
        BY <1>0, <1>a DEF Frames
      <4>3. \A x \in RowsWritten :
              /\ x.table \in {"input_snapshots", "runs", "outputs", "checks"} => x.id \in Nat
              /\ x.table = "outputs" => x.rowid \in Nat
        <5>1. RowsWritten \subseteq AllRows
          BY DEF RowsWritten
        <5>2. QED
          BY <5>1 DEF AllRows, Instruments, Snapshots, Runs, Outputs, Checks, Averages
      <4>4. QED
        BY <1>a, <4>1, <4>2, <4>3 DEF HalfRow, OutputRow
    <3>3. ASSUME NEW b \in Actors, HalfStep(b), NEW a \in Actors, AwaitsOutput(call'[a]),
                 call'[a].rid = call[a].rid
          PROVE  call'[a].rid # call[b].rid
      <4>1. AwaitsOutput(call[b]) /\ call[b].rid # 0
        BY <1>a, <3>3 DEF HalfStep, HalfOutput, AwaitsOutput
      <4>2. ~AwaitsOutput(call'[b])
        BY <3>3 DEF HalfStep, InMethod, AwaitsOutput
      <4>3. QED
        BY <1>a, <3>3, <4>1, <4>2
    <3>4. QED
      BY <1>2, <3>1, <3>2, <3>3, StoreSteps DEF HalfStep
  <2>2. \A a \in Actors : QuietFrame(a)
    BY <1>2, QuietFrames
  <2>3. \A a \in Actors :
          \/ call'[a].sid = call[a].sid /\ call'[a].rid = call[a].rid /\ call'[a].rowid = call[a].rowid
          \/ call'[a].sid = 0 /\ call'[a].rid = 0 /\ call'[a].rowid = 0
    BY <2>2 DEF QuietFrame
  <2>4. \A a \in Actors : AwaitsOutput(call'[a]) =>
          AwaitsOutput(call[a]) /\ call'[a].rid = call[a].rid
    <3> SUFFICES ASSUME NEW a \in Actors, AwaitsOutput(call'[a])
                 PROVE  AwaitsOutput(call[a]) /\ call'[a].rid = call[a].rid
      OBVIOUS
    <3>1. CASE CommitAndCallOn(a)
      <4>1. /\ call'[a].step = "insert" /\ call'[a].op = NextOp(call[a].op)
            /\ call'[a].rid = call[a].rid /\ call[a].step = "commit"
        BY <3>1, MethodFrames
      <4>2. call[a].op \in {"upsert_instrument", "save_input_snapshot", "create_run"}
        BY <3>1, <1>0 DEF CommitAndCallOn, CallsOn, FramesOK, FrameOK, Frames, Ops
      <4>3. NextOp(call[a].op) = "save_output" => call[a].op = "create_run"
        BY <4>2 DEF NextOp
      <4>4. QED
        BY <4>1, <4>3 DEF AwaitsOutput
    <3>2. QED
      BY <2>2, <3>1 DEF QuietFrame, AwaitsOutput, InMethod
  <2>5. \A a \in Actors : call'[a].sid < nextId' /\ call'[a].rid < nextId' /\ call'[a].rowid < nextId'
    BY <1>0, <1>a, <2>1, <2>3 DEF Frames
  <2>6. \A a, b \in Actors : a # b /\ call'[a].rid = call'[b].rid => call'[a].rid = 0
    BY <1>a, <2>3
  <2>7. QED
    BY <1>a, <2>1, <2>4, <2>5, <2>6 DEF IdsOK, AwaitsOutput
<1>3. QED
  BY <1>1, <1>2

\* Nothing ever leaves the database.
LEMMA CommittedGrows ==
  ASSUME TypeOK, FramesOK, Next
  PROVE  committed \subseteq committed'
BY StoreSteps, RowsWrittenStep DEF HalfStep, Quiet, Commits, Drops, CommitTxn

\* What a method commits, the next one counts on.
LEMMA ProgressStep ==
  ASSUME TypeOK, FramesOK, LockOK, TransactionsOK, ProgressOK, Next
  PROVE  ProgressOK'
<1> USE DEF TypeOK, StoreTypeOK
<1> DEFINE Kept(k) == PersistsResult(k.block) /\ InMethod(k) =>
             /\ k.op # "upsert_instrument" => InstrumentRow(k.ticker) \in committed
             /\ k.op \in {"create_run", "save_output"} => SnapshotRow(k.sid, k.ticker) \in committed
             /\ k.op = "save_output" => RunRow(k.rid, k.ticker, k.date, k.sid, "PASS") \in committed
           KeptNext(k) == PersistsResult(k.block) /\ InMethod(k) =>
             /\ k.op # "upsert_instrument" => InstrumentRow(k.ticker) \in committed'
             /\ k.op \in {"create_run", "save_output"} => SnapshotRow(k.sid, k.ticker) \in committed'
             /\ k.op = "save_output" => RunRow(k.rid, k.ticker, k.date, k.sid, "PASS") \in committed'
<1>0. \A a \in Actors : call[a] \in Frames /\ Kept(call[a])
  BY DEF ProgressOK
<1>1. \A a \in Actors : KeptNext(call[a])
  BY <1>0, CommittedGrows
<1> SUFFICES ASSUME NEW a \in Actors PROVE KeptNext(call'[a])
  BY DEF ProgressOK
<1>2. CASE Insert(a)
  <2> DEFINE k == call[a]
             j == call'[a]
  <2>1. /\ k \in Frames /\ InMethod(k) /\ k.op \in Ops
        /\ j.block = k.block /\ j.op = k.op /\ j.ticker = k.ticker /\ j.date = k.date
        /\ j.sid = WithId(k).sid /\ j.rid = WithId(k).rid
    BY <1>0, <1>2, MethodFrames DEF InMethod, Frames
  <2>2. KeptNext(k)
    BY <1>1
  <2>3. /\ k.op # "save_input_snapshot" => j.sid = k.sid
        /\ k.op # "create_run" => j.rid = k.rid
    BY <2>1, InsertedRows DEF Ops
  <2>4. QED
    BY <2>1, <2>2, <2>3
<1>3. CASE CommitAndCallOn(a)
  <2> DEFINE k == call[a]
             j == call'[a]
  <2>1. /\ k \in Frames /\ InMethod(k) /\ k.step = "commit"
        /\ k.op \in {"upsert_instrument", "save_input_snapshot", "create_run"}
        /\ PersistsResult(k.block)
    BY <1>0, <1>3 DEF CommitAndCallOn, CallsOn, InMethod, FramesOK, FrameOK, Frames, Ops
  <2>2. /\ j.block = k.block /\ j.op = NextOp(k.op) /\ j.ticker = k.ticker /\ j.date = k.date
        /\ j.sid = k.sid /\ j.rid = k.rid
    BY <1>3, MethodFrames
  <2>3. RowsOf(k) \subseteq committed'
    BY <1>3, <2>1, ConnOfType DEF CommitAndCallOn, CommitTxn, TransactionsOK, InFlightRowsArePrivate
  <2>4. KeptNext(k)
    BY <1>1
  <2>5. CASE k.op = "upsert_instrument"
    <3>1. j.op = "save_input_snapshot" /\ InstrumentRow(k.ticker) \in committed'
      BY <2>2, <2>3, <2>5 DEF NextOp, RowsOf
    <3>2. QED
      BY <2>2, <3>1
  <2>6. CASE k.op = "save_input_snapshot"
    <3>1. j.op = "create_run" /\ SnapshotRow(k.sid, k.ticker) \in committed'
      BY <2>2, <2>3, <2>6 DEF NextOp, RowsOf
    <3>2. QED
      BY <2>1, <2>2, <2>4, <2>6, <3>1
  <2>7. CASE k.op = "create_run"
    <3>1. Verdict(k.block) = "PASS"
      BY <2>1 DEF Verdict, PersistsResult
    <3>2. j.op = "save_output" /\ RunRow(k.rid, k.ticker, k.date, k.sid, "PASS") \in committed'
      BY <2>2, <2>3, <2>7, <3>1 DEF NextOp, RowsOf
    <3>3. QED
      BY <2>1, <2>2, <2>4, <2>7, <3>2
  <2>8. QED
    BY <2>1, <2>5, <2>6, <2>7
<1>4. CASE \E b \in Actors : Insert(b) /\ b # a
  BY <1>1, <1>4, MethodFrames
<1>5. CASE ~(\E b \in Actors : Insert(b)) /\ ~CommitAndCallOn(a)
  <2>1. QuietFrame(a)
    BY <1>5, QuietFrames
  <2>2. \/ call'[a] = call[a]
        \/ ~InMethod(call'[a])
        \/ PersistsResult(call'[a].block) => call'[a].op = "upsert_instrument"
    BY <1>5, <2>1 DEF QuietFrame
  <2>3. QED
    BY <1>1, <2>2
<1>6. QED
  BY <1>2, <1>3, <1>4, <1>5

-----------------------------------------------------------------------------
(* The database *)

\* Keys stay unique and references resolved, with and without the rows of the
\* open transactions.
LEMMA RowsStep ==
  ASSUME TypeOK, FramesOK, LockOK, TransactionsOK, IdsOK, ProgressOK, RowsOK, Next
  PROVE  RowsOK'
<1> USE DEF TypeOK, StoreTypeOK
<1>1. ASSUME NEW a \in Actors, Insert(a) PROVE RowsOK'
  <2> DEFINE k == call[a]
             new == RowsOf(WithId(k))
             c == ConnOf(a)
  <2>1. /\ k \in Frames /\ k.op \in Ops /\ k.step = "insert" /\ c \in Conns
        /\ k.rid \in Nat /\ k.rid < nextId
    BY <1>1, ConnOfType DEF Insert, Frames, IdsOK
  <2>2. /\ committed' = committed
        /\ RowsWritten' = RowsWritten \cup new
        /\ pending' = [pending EXCEPT ![c] = @ \cup new]
    BY <1>1, RowsWrittenStep DEF Insert, Write
  <2>3. KeysUnique(RowsWritten \cup new)
    <3>1. RowsWritten \in SUBSET AllRows
      BY DEF RowsWritten
    <3>2. KeysUnique(RowsWritten) /\ IdsBelow(RowsWritten, nextId)
      BY DEF RowsOK, IdsOK, IdsBelow
    <3>3. k.op = "save_output" =>
            \A x \in RowsWritten : x.table \in {"outputs", "checks"} => x.id # k.rid
      BY <2>1 DEF IdsOK
    <3>4. QED
      BY <2>1, <3>1, <3>2, <3>3, InsertKeys
  <2>4. WellReferenced(committed \cup new)
    <3>1. FrameOK(a) /\ InMethod(k)
      BY <2>1 DEF FramesOK, InMethod
    <3>2. PersistsResult(k.block) =>
            /\ k.op # "upsert_instrument" => InstrumentRow(k.ticker) \in committed
            /\ k.op \in {"create_run", "save_output"} => SnapshotRow(k.sid, k.ticker) \in committed
            /\ k.op = "save_output" => RunRow(k.rid, k.ticker, k.date, k.sid, "PASS") \in committed
      BY <3>1 DEF ProgressOK
    <3>3. k.op \in {"save_input_snapshot", "save_output"} => PersistsResult(k.block)
      BY <2>1, <3>1 DEF FrameOK, PersistsResult, Frames, Actors, Blocks
    <3>4. k.op = "create_run" /\ Verdict(k.block) = "PASS" => PersistsResult(k.block)
      BY <2>1, <3>1 DEF FrameOK, PersistsResult, Frames, Actors, Blocks, Verdict
    <3>5. QED
      BY <2>1, <3>2, <3>3, <3>4, InsertReferences DEF RowsOK
  <2>5. \A d \in Conns : WellReferenced(committed' \cup pending'[d])
    <3> SUFFICES ASSUME NEW d \in Conns PROVE WellReferenced(committed' \cup pending'[d])
      OBVIOUS
    <3>1. CASE d # c
      BY <2>2, <3>1 DEF RowsOK
    <3>2. CASE d = c
      <4>1. WellReferenced((committed \cup new) \cup (committed \cup pending[c]))
        BY <2>1, <2>4, JoinReferences DEF RowsOK
      <4>2. committed' \cup pending'[d] = (committed \cup new) \cup (committed \cup pending[c])
        BY <2>1, <2>2, <3>2
      <4>3. QED
        BY <4>1, <4>2
    <3>3. QED
      BY <3>1, <3>2
  <2>6. QED
    BY <2>2, <2>3, <2>5 DEF RowsOK
<1>2. ASSUME NEW a \in Actors, HalfOutput(a) PROVE RowsOK'
  <2> DEFINE k == call[a]
             new == HalfRow(k)
             c == ConnOf(a)
  <2>1. /\ k \in Frames /\ k.op = "save_output" /\ k.step = "insert" /\ c \in Conns
    BY <1>2, ConnOfType DEF HalfOutput
  <2>2. /\ committed' = committed
        /\ RowsWritten' = RowsWritten \cup new
        /\ pending' = [pending EXCEPT ![c] = @ \cup new]
    BY <1>2, RowsWrittenStep DEF HalfOutput, Write, HalfRow
  <2>3. KeysUnique(RowsWritten \cup new)
    <3>1. KeysUnique(RowsWritten) /\ \A x \in RowsWritten : x.table = "outputs" => x.id # k.rid
      BY <2>1 DEF RowsOK, IdsOK
    <3>2. QED
      BY <3>1 DEF KeysUnique, HalfRow, OutputRow
  <2>4. WellReferenced(committed \cup new)
    <3>1. PersistsResult(k.block) /\ InMethod(k)
      BY <2>1 DEF FramesOK, FrameOK, PersistsResult, InMethod, Frames, Actors, Blocks
    <3>2. RunRow(k.rid, k.ticker, k.date, k.sid, "PASS") \in committed
      BY <2>1, <3>1 DEF ProgressOK
    <3>3. QED
      BY <2>1, <3>2, OutputReferences DEF RowsOK, HalfRow
  <2>5. WellReferenced((committed \cup new) \cup (committed \cup pending[c]))
    BY <2>1, <2>4, JoinReferences DEF RowsOK
  <2>6. \A d \in Conns : committed' \cup pending'[d] \in
          {committed \cup pending[d], (committed \cup new) \cup (committed \cup pending[c])}
    BY <2>1, <2>2
  <2>7. QED
    BY <2>2, <2>3, <2>5, <2>6 DEF RowsOK
<1>3. CASE Quiet
  <2>1. KeysUnique(RowsWritten)'
    <3>1. RowsWritten' \subseteq RowsWritten
      BY <1>3, RowsWrittenStep DEF Quiet
    <3>2. KeysUnique(RowsWritten')
      BY <3>1, FewerRows DEF RowsOK
    <3>3. QED
      BY <3>2 DEF KeysUnique
  <2>2. CASE Drops
    BY <2>1, <2>2 DEF Drops, RowsOK
  <2>3. CASE Commits
    <3>1. PICK c \in Conns : CommitTxn(c)
      BY <2>3 DEF Commits
    <3>2. /\ committed' = committed \cup pending[c] /\ pending'[c] = {}
          /\ \A d \in Conns : d # c => pending'[d] = pending[d]
      BY <3>1 DEF CommitTxn
    <3>3. \A d \in Conns : committed' \cup pending'[d] \in
            {committed \cup pending[c], committed \cup pending[d]}
      BY <3>2 DEF TransactionsOK, OneOpenTransaction
    <3>4. QED
      BY <2>1, <3>2, <3>3 DEF RowsOK
  <2>4. QED
    BY <1>3, <2>2, <2>3 DEF Quiet
<1>4. QED
  BY <1>1, <1>2, <1>3, StoreSteps DEF HalfStep

-----------------------------------------------------------------------------
(* The inductive invariant *)

LEMMA InitIInv == Init => IInv
<1> SUFFICES ASSUME Init PROVE IInv
  OBVIOUS
<1>1. TypeOK /\ FramesOK
  BY InitType, InitFrames
<1>2. /\ committed = {} /\ pending = [c \in Conns |-> {}] /\ writer = NoConn /\ nextId = 1
      /\ RowsWritten = {}
  BY DEF Init, StoreInit, RowsWritten
<1>3. \A a \in Actors :
        /\ call[a].step = IF a = Batch THEN "insert" ELSE "idle"
        /\ call[a].sid = 0 /\ call[a].rid = 0 /\ call[a].rowid = 0
        /\ call[a].op = IF a = Batch THEN "save_averages_snapshot" ELSE "upsert_instrument"
        /\ a = Batch => call[a].block = "main"
  BY DEF Init, FirstFrame, NewFrame
<1>4. \A w \in Workers : w \in Actors /\ w # Batch /\ w # NoWorker
  BY ActorsAreDistinct, WatchlistAssumption DEF Actors
<1>5. LockOK /\ TasksOK
  <2>1. /\ phase = "averages" /\ lock = NoWorker
        /\ \A e \in Entries : outcome[e].status = "none"
    BY DEF Init, BatchInit, NoOutcome
  <2>2. \A w \in Workers : call[w].step = "idle"
    BY <1>3, <1>4
  <2>3. LockOK
    BY <1>4, <2>1, <2>2 DEF LockOK, InMethod
  <2>4. TasksOK
    BY <2>1, <2>2 DEF TasksOK, Working, Settled
  <2>5. QED
    BY <2>3, <2>4
<1>6. TransactionsOK
  BY <1>2, <1>3 DEF TransactionsOK, OneOpenTransaction, InFlightRowsArePrivate, Actors, Conns
<1>7. IdsOK
  BY <1>2, <1>3 DEF IdsOK
<1>8. ProgressOK
  BY <1>3 DEF ProgressOK, InMethod, PersistsResult
<1>9. RowsOK
  BY <1>2 DEF RowsOK, KeysUnique, WellReferenced, In
<1>10. QED
  BY <1>1, <1>5, <1>6, <1>7, <1>8, <1>9 DEF IInv

LEMMA StepIInv == IInv /\ [Next]_vars => IInv'
<1> SUFFICES ASSUME IInv, [Next]_vars PROVE IInv'
  OBVIOUS
<1>1. CASE Next
  <2>1. TypeOK'
    <3>1. CASE Quiescent
      BY <3>1 DEF Quiescent, vars, storeVars, batchVars, IInv, TypeOK, StoreTypeOK,
                  BatchTypeOK, ApiTypeOK
    <3>2. QED
      BY <1>1, <3>1, BatchStepType, RequestStepType DEF Next, IInv
  <2>2. QED
    BY <1>1, <2>1, FramesStep, LockStep, TransactionsStep, IdsStep, ProgressStep, RowsStep
       DEF IInv
<1>2. CASE UNCHANGED vars
  BY <1>2 DEF vars, storeVars, batchVars, IInv, TypeOK, StoreTypeOK, BatchTypeOK, ApiTypeOK,
              FramesOK, FrameOK, LockOK, TasksOK, Working, Settled, InMethod, TransactionsOK,
              OneOpenTransaction, InFlightRowsArePrivate, IdsOK, RowsWritten, ProgressOK,
              RowsOK, KeysUnique, WellReferenced, In
<1>3. QED
  BY <1>1, <1>2

\* The inductive invariant holds in every reachable state.
THEOREM Invariance == Spec => []IInv
BY InitIInv, StepIInv, PTL DEF Spec

\* Between its INSERTs and its commit, nobody else publishes or loses the rows
\* of a method, although the threads share a connection.
THEOREM InFlightPrivate == Spec => []InFlightRowsArePrivate
<1>1. IInv => InFlightRowsArePrivate
  BY DEF IInv, TransactionsOK
<1>2. QED
  BY <1>1, Invariance, PTL

\* The database is an append-only ledger of well-referenced rows with unique
\* keys: the store implements what it promises its readers.
THEOREM StoreImplementsLedger == Spec => ImplementsLedger
<1>1. Init => L!LedgerInit
  BY DEF Init, StoreInit, L!LedgerInit
<1>2. IInv /\ IInv' /\ [Next]_vars => [L!Publish]_committed
  <2> SUFFICES ASSUME IInv, IInv', [Next]_vars PROVE L!Publish \/ UNCHANGED committed
    OBVIOUS
  <2>1. CASE Next
    <3>1. committed \subseteq committed'
      BY <2>1, CommittedGrows DEF IInv
    <3>2. KeysUnique(committed')
      <4>1. KeysUnique(RowsWritten') /\ committed' \subseteq RowsWritten'
        BY DEF IInv, RowsOK, RowsWritten, KeysUnique
      <4>2. QED
        BY <4>1, FewerRows
    <3>3. WellReferenced(committed')
      BY DEF IInv, RowsOK, WellReferenced, In
    <3>4. L!KeysUnique(committed') /\ L!WellReferenced(committed')
      BY <3>2, <3>3 DEF KeysUnique, L!KeysUnique, WellReferenced, L!WellReferenced, In, L!In,
                        ChecksRow, L!ChecksRow, SnapshotRow, L!SnapshotRow,
                        InstrumentRow, L!InstrumentRow
    <3>5. QED
      BY <3>1, <3>4 DEF L!Publish
  <2>2. CASE UNCHANGED vars
    BY <2>2 DEF vars, storeVars
  <2>3. QED
    BY <2>1, <2>2
<1>3. QED
  BY <1>1, <1>2, Invariance, PTL DEF Spec, ImplementsLedger, L!LedgerSpec

-----------------------------------------------------------------------------
(* Rowids *)

LEMMA RowidsStep ==
  ASSUME IInv, RowidsFollowCommits, Next
  PROVE  RowidsFollowCommits'
<1> USE DEF IInv, TypeOK, StoreTypeOK
<1> DEFINE Before(S, T) == \A o \in In("outputs", S), p \in In("outputs", T) : o.rowid < p.rowid
<1>0. \A c \in Conns : Before(committed, pending[c])
  BY DEF RowidsFollowCommits
<1>1. ASSUME NEW a \in Actors, Insert(a) PROVE RowidsFollowCommits'
  <2> DEFINE k == call[a]
             new == RowsOf(WithId(k))
             c == ConnOf(a)
  <2>1. /\ k \in Frames /\ k.op \in Ops /\ c \in Conns
        /\ committed' = committed
        /\ pending' = [pending EXCEPT ![c] = @ \cup new]
    BY <1>1, ConnOfType DEF Insert, Write, Frames
  <2>2. \A x \in new : x.table = "outputs" => x.rowid = nextId
    BY <2>1, InsertedRows DEF Ops, AveragesRow, InstrumentRow, SnapshotRow, RunRow, OutputRow, ChecksRow
  <2>3. \A o \in In("outputs", committed) : o.rowid < nextId
    BY DEF IdsOK, RowsWritten, In
  <2>4. Before(committed, new)
    BY <2>2, <2>3 DEF In
  <2>5. QED
    BY <1>0, <2>1, <2>4 DEF RowidsFollowCommits, In
<1>2. ASSUME NEW a \in Actors, HalfOutput(a) PROVE RowidsFollowCommits'
  <2> DEFINE new == HalfRow(call[a])
             c == ConnOf(a)
  <2>1. /\ c \in Conns
        /\ committed' = committed
        /\ pending' = [pending EXCEPT ![c] = @ \cup new]
    BY <1>2, ConnOfType DEF HalfOutput, Write, HalfRow
  <2>2. \A o \in In("outputs", committed) : o.rowid < nextId
    BY DEF IdsOK, RowsWritten, In
  <2>3. Before(committed, new)
    BY <2>2 DEF In, HalfRow, OutputRow
  <2>4. QED
    BY <1>0, <2>1, <2>3 DEF RowidsFollowCommits, In
<1>3. CASE Quiet
  <2>1. CASE Drops
    BY <1>0, <2>1 DEF Drops, RowidsFollowCommits, In
  <2>2. CASE Commits
    <3>1. PICK c \in Conns : CommitTxn(c)
      BY <2>2 DEF Commits
    <3>2. /\ committed' = committed \cup pending[c] /\ pending'[c] = {}
          /\ \A d \in Conns : d # c => pending'[d] = pending[d]
      BY <3>1 DEF CommitTxn
    <3>3. \A d \in Conns : pending'[d] = {} \/ (pending'[d] = pending[d] /\ committed' = committed)
      BY <3>2 DEF TransactionsOK, OneOpenTransaction
    <3>4. QED
      BY <1>0, <3>3 DEF RowidsFollowCommits, In
  <2>3. QED
    BY <1>3, <2>1, <2>2 DEF Quiet
<1>4. QED
  BY <1>1, <1>2, <1>3, StoreSteps DEF HalfStep

\* Outputs are published in rowid order, whichever connections write them.
THEOREM RowidOrder == Spec => []RowidsFollowCommits
<1>1. Init => RowidsFollowCommits
  BY DEF Init, StoreInit, RowidsFollowCommits, In
<1>2. IInv /\ RowidsFollowCommits /\ [Next]_vars => RowidsFollowCommits'
  <2>1. UNCHANGED vars /\ RowidsFollowCommits => RowidsFollowCommits'
    BY DEF vars, storeVars, RowidsFollowCommits, In
  <2>2. QED
    BY <2>1, RowidsStep
<1>3. QED
  BY <1>1, <1>2, Invariance, PTL DEF Spec

-----------------------------------------------------------------------------
(* The latest output *)

\* The transaction an actor inserts into: nobody else who is inside a method
\* uses it, and it is empty when the row is an output.
LEMMA InsertsAlone ==
  ASSUME IInv, OneOutputOK, NEW a \in Actors, call[a].step = "insert"
  PROVE  /\ ConnOf(a) \in Conns
         /\ call[a].op = "save_output" => pending[ConnOf(a)] = {}
         /\ \A b \in Actors : InMethod(call[b]) /\ b # a => ConnOf(b) # ConnOf(a)
<1> USE DEF IInv
<1>1. FrameOK(a) /\ call[a] \in Frames
  BY DEF FramesOK, TypeOK, StoreTypeOK
<1>2. call[a].op = "save_output" => PersistsResult(call[a].block)
  BY <1>1, ActorsAreDistinct DEF FrameOK, PersistsResult, Actors
<1>3. call[a].op = "save_output" => pending[ConnOf(a)] = {}
  BY <1>2 DEF OneOutputOK
<1>4. QED
  BY <1>3, MethodsExclusive, ConnOfType DEF InMethod

LEMMA OneOutputStep ==
  ASSUME IInv, OneOutputOK, Next
  PROVE  OneOutputOK'
<1> USE DEF IInv, TypeOK, StoreTypeOK
<1> DEFINE One(S) == \A o, p \in In("outputs", S) : o = p
           Clear(b, k) == /\ k.step = "insert" /\ PersistsResult(k.block)
                          /\ k.op # "upsert_instrument"
<1>0. /\ \A c \in Conns : One(pending[c])
      /\ \A b \in Actors : Clear(b, call[b]) => pending[ConnOf(b)] = {}
      /\ \A b \in Actors : ConnOf(b) \in Conns
  BY ConnOfType DEF OneOutputOK
<1>1. ASSUME NEW a \in Actors, call[a].step = "insert", NEW new,
             pending' = [pending EXCEPT ![ConnOf(a)] = @ \cup new],
             One(new), call[a].op # "save_output" => In("outputs", new) = {},
             ~Clear(a, call'[a]),
             \A b \in Actors : b # a => call'[b] = call[b] \/ ~Clear(b, call'[b])
      PROVE  OneOutputOK'
  <2>1. /\ ConnOf(a) \in Conns
        /\ call[a].op = "save_output" => pending[ConnOf(a)] = {}
        /\ \A b \in Actors : InMethod(call[b]) /\ b # a => ConnOf(b) # ConnOf(a)
    BY <1>1, InsertsAlone
  <2>2. \A c \in Conns : pending'[c] = IF c = ConnOf(a) THEN pending[c] \cup new ELSE pending[c]
    BY <1>1
  <2>3. One(pending[ConnOf(a)] \cup new)
    BY <1>0, <1>1, <2>1 DEF In
  <2>4. \A c \in Conns : One(pending'[c])
    BY <1>0, <2>2, <2>3
  <2>5. \A b \in Actors : Clear(b, call'[b]) => pending'[ConnOf(b)] = {}
    BY <1>0, <1>1, <2>1, <2>2 DEF InMethod
  <2>6. QED
    BY <2>4, <2>5 DEF OneOutputOK
<1>2. ASSUME NEW a \in Actors, Insert(a) PROVE OneOutputOK'
  <2> DEFINE k == call[a]
             new == RowsOf(WithId(k))
  <2>1. /\ k \in Frames /\ k.op \in Ops /\ k.step = "insert"
        /\ pending' = [pending EXCEPT ![ConnOf(a)] = @ \cup new]
    BY <1>2 DEF Insert, Write, Frames
  <2>2. One(new) /\ (k.op # "save_output" => In("outputs", new) = {})
    BY <2>1, InsertedRows
       DEF In, Ops, AveragesRow, InstrumentRow, SnapshotRow, RunRow, OutputRow, ChecksRow
  <2>3. call'[a].step = "commit" /\ \A b \in Actors : b # a => call'[b] = call[b]
    BY <1>2, MethodFrames
  <2> HIDE DEF new
  <2>4. QED
    BY <1>1, <2>1, <2>2, <2>3
<1>3. ASSUME ~ \E a \in Actors : Insert(a)
      PROVE  \A b \in Actors : call'[b] = call[b] \/ ~Clear(b, call'[b]) \/ CommitAndCallOn(b)
  BY <1>3, QuietFrames DEF QuietFrame, InMethod
<1>4. ASSUME NEW a \in Actors, HalfStep(a), ~ \E b \in Actors : Insert(b) PROVE OneOutputOK'
  <2> DEFINE new == HalfRow(call[a])
  <2>1. /\ call[a].step = "insert" /\ call[a].op = "save_output" /\ ~InMethod(call'[a])
        /\ pending' = [pending EXCEPT ![ConnOf(a)] = @ \cup new]
        /\ faults' = faults + 1
    BY <1>4 DEF HalfStep, HalfOutput, Write, HalfRow
  <2>2. One(new)
    BY DEF HalfRow, In
  <2>3. \A b \in Actors : ~CommitAndCallOn(b)
    BY <2>1 DEF CommitAndCallOn
  <2> HIDE DEF new
  <2>4. QED
    BY <1>1, <1>3, <1>4, <2>1, <2>2, <2>3 DEF InMethod
<1>5. ASSUME Quiet, ~ \E b \in Actors : Insert(b) PROVE OneOutputOK'
  <2>1. \A c \in Conns : pending'[c] \in {{}, pending[c]}
    BY <1>5 DEF Quiet, Commits, CommitTxn, Drops
  <2>2. \A c \in Conns : One(pending'[c])
    BY <1>0, <2>1 DEF In
  <2>3. \A b \in Actors : CommitAndCallOn(b) => pending'[ConnOf(b)] = {}
    BY <1>0 DEF CommitAndCallOn, CommitTxn
  <2>4. \A b \in Actors : Clear(b, call'[b]) => pending'[ConnOf(b)] = {}
    BY <1>0, <1>3, <1>5, <2>1, <2>3
  <2>5. QED
    BY <2>2, <2>4 DEF OneOutputOK
<1>6. QED
  BY <1>2, <1>4, <1>5, StoreSteps

\* No transaction ever holds two outputs.
LEMMA OneOutput == Spec => []OneOutputOK
<1>1. Init => OneOutputOK
  <2> SUFFICES ASSUME Init PROVE OneOutputOK
    OBVIOUS
  <2>1. pending = [c \in Conns |-> {}]
    BY DEF Init, StoreInit
  <2>2. QED
    BY <2>1, ConnOfType DEF OneOutputOK, In
<1>2. IInv /\ OneOutputOK /\ [Next]_vars => OneOutputOK'
  <2>1. UNCHANGED vars /\ OneOutputOK => OneOutputOK'
    BY DEF vars, storeVars, OneOutputOK
  <2>2. QED
    BY <2>1, OneOutputStep
<1>3. QED
  BY <1>1, <1>2, Invariance, PTL DEF Spec

\* What a commit publishes has the largest rowid, and at most one output of it
\* is new: that output is the answer of the query, and the only one.
THEOREM NewestIsLatest == Spec => NewOutputBecomesLatest
<1> DEFINE Becomes == \A p \in In("outputs", committed' \ committed) :
             (\A o \in In("outputs", committed) : o.ticker = p.ticker => o.date <= p.date)
               => Latest(committed', p.ticker) = {p}
<1>1. IInv /\ RowidsFollowCommits /\ OneOutputOK /\ [Next]_vars => Becomes
  <2> SUFFICES ASSUME IInv, RowidsFollowCommits, OneOutputOK, [Next]_vars,
                      NEW p \in In("outputs", committed' \ committed),
                      \A o \in In("outputs", committed) : o.ticker = p.ticker => o.date <= p.date
               PROVE  Latest(committed', p.ticker) = {p}
    OBVIOUS
  <2>1. PICK c \in Conns : committed' = committed \cup pending[c]
    <3>1. committed' # committed
      BY DEF In
    <3>2. Next
      BY <3>1 DEF vars, storeVars
    <3>3. Commits
      BY <3>1, <3>2, StoreSteps, RowsWrittenStep DEF IInv, HalfStep, Quiet, Drops
    <3>4. QED
      BY <3>3 DEF Commits, CommitTxn
  <2>2. /\ p \in In("outputs", pending[c]) /\ p \notin committed
        /\ In("outputs", committed') = In("outputs", committed) \cup {p}
    BY <2>1 DEF OneOutputOK, In
  <2>3. \A o \in In("outputs", committed) : o.rowid < p.rowid
    BY <2>2 DEF RowidsFollowCommits
  <2>4. \A o \in In("outputs", committed') :
          o.date \in Dates /\ o.date \in Nat /\ o.rowid \in Nat
    <3>1. committed' \subseteq AllRows
      BY <2>1 DEF IInv, TypeOK, StoreTypeOK
    <3>2. \A o \in In("outputs", committed') : o \in Outputs
      BY <3>1 DEF In, AllRows, Instruments, Snapshots, Runs, Outputs, Checks, Averages
    <3>3. QED
      BY <3>2, DatesAreOrdered DEF Outputs
  <2>5. \A o \in In("outputs", committed) :
          o.ticker = p.ticker => Newer(p, o) /\ ~Newer(o, p) /\ o # p
    <3>1. SUFFICES ASSUME NEW o \in In("outputs", committed), o.ticker = p.ticker
                   PROVE  Newer(p, o) /\ ~Newer(o, p) /\ o # p
      OBVIOUS
    <3>2. o.date <= p.date /\ o.rowid < p.rowid
      BY <2>3, <3>1
    <3>3. /\ o.date \in Nat /\ o.rowid \in Nat /\ p.date \in Nat /\ p.rowid \in Nat
      BY <2>2, <2>4
    <3>4. QED
      BY <3>2, <3>3 DEF Newer
  <2>6. QED
    BY <2>2, <2>5 DEF Latest
<1>2. QED
  BY <1>1, Invariance, RowidOrder, OneOutput, PTL DEF Spec, NewOutputBecomesLatest

-----------------------------------------------------------------------------
(* What was acknowledged, and the report *)

\* A task's outcome changes when it ends, or when a new batch begins.
LEMMA OutcomeSteps ==
  ASSUME TypeOK, Next, NEW e \in Entries
  PROVE  \/ outcome'[e] = outcome[e]
         \/ outcome'[e].status \notin Statuses
         \/ \E w \in Workers : TaskReturns(w) /\ task[w] = e
<1> USE DEF TypeOK, BatchTypeOK
<1>0. UNCHANGED outcome => outcome'[e] = outcome[e]
  OBVIOUS
<1>1. CASE MainStep \/ KillBatch
  BY <1>0, <1>1 DEF MainStep, InsertInBatch, AveragesSaved, AveragesRaise, ReportBatch,
                    BatchRaises, KillBatch, batchVars
<1>2. CASE StartBatch
  BY <1>2 DEF StartBatch, NoOutcome, Statuses
<1>3. ASSUME NEW w \in Workers, WorkerStep(w)
      PROVE  \/ outcome'[e] = outcome[e]
             \/ outcome'[e].status \notin Statuses
             \/ TaskReturns(w) /\ task[w] = e
  <2>1. CASE TaskReturns(w)
    BY <2>1 DEF TaskReturns
  <2>2. CASE HandlerRaises(w)
    BY <2>2 DEF HandlerRaises, Raised, Statuses
  <2>3. QED
    BY <1>0, <1>3, <2>1, <2>2 DEF WorkerStep, StartTask, BuildPayload, AcquireLock,
                                  InsertInBatch, CallOnInBatch, TryRaises, batchVars
<1>4. CASE (\E r \in Requests : Request(r)) \/ ServerDies \/ Quiescent
  BY <1>0, <1>4 DEF Request, ServerDies, Quiescent, vars, batchVars
<1>5. QED
  BY <1>1, <1>2, <1>3, <1>4 DEF Next, BatchNext

\* When a block's last method has committed, all its rows are in the database.
LEMMA LastCommit ==
  ASSUME IInv, Next, NEW a \in Actors, CommitLast(a)
  PROVE  /\ RowsOf(call[a]) \subseteq committed'
         /\ PersistsResult(call[a].block) => PassRows(call[a]) \subseteq committed'
<1> USE DEF IInv, TypeOK, StoreTypeOK
<1> DEFINE k == call[a]
<1>1. /\ k \in Frames /\ k.step = "commit" /\ InMethod(k) /\ ConnOf(a) \in Conns
      /\ committed' = committed \cup pending[ConnOf(a)]
  BY ConnOfType DEF CommitLast, CommitTxn, InMethod
<1>2. RowsOf(k) \subseteq committed'
  BY <1>1 DEF TransactionsOK, InFlightRowsArePrivate
<1>3. ASSUME PersistsResult(k.block) PROVE PassRows(k) \subseteq committed'
  <2>1. k.op = "save_output"
    BY <1>3 DEF CommitLast, CallsOn
  <2>2. /\ InstrumentRow(k.ticker) \in committed
        /\ SnapshotRow(k.sid, k.ticker) \in committed
        /\ RunRow(k.rid, k.ticker, k.date, k.sid, "PASS") \in committed
    BY <1>1, <1>3, <2>1 DEF ProgressOK
  <2>3. RowsOf(k) = {OutputRow(k.rid, k.ticker, k.date, k.rowid),
                     ChecksRow(k.rid, k.ticker, k.date)}
    BY <2>1 DEF RowsOf
  <2>4. QED
    BY <1>1, <1>2, <2>2, <2>3 DEF PassRows
<1>4. QED
  BY <1>2, <1>3

\* The rows of a task are in the database when its future has a result.
LEMMA TaskRecorded ==
  ASSUME IInv, Next, NEW w \in Workers, TaskReturns(w)
  PROVE  Recorded(outcome'[task[w]], Watchlist[task[w]], committed')
<1> USE DEF IInv, TypeOK, StoreTypeOK, BatchTypeOK
<1> DEFINE k == call[w]
           o == outcome'[task[w]]
<1>1. /\ w \in Actors /\ CommitLast(w) /\ k \in Frames /\ FrameOK(w) /\ k.step = "commit"
  BY DEF TaskReturns, CommitLast, Actors, FramesOK
<1>2. /\ task[w] \in Entries /\ k.ticker = Watchlist[task[w]] /\ k.date = BatchDate
  BY <1>1 DEF TasksOK, Working
<1>3. o.status = Verdict(k.block) /\ o.rid = k.rid /\ o.sid = k.sid
  BY <1>2 DEF TaskReturns
<1>4. RowsOf(k) \subseteq committed' /\ (PersistsResult(k.block) => PassRows(k) \subseteq committed')
  BY <1>1, LastCommit
<1>5. CASE k.block = "try"
  <2>1. PassRows(k) \subseteq committed' /\ Verdict(k.block) = "PASS"
    BY <1>4, <1>5 DEF PersistsResult, Verdict
  <2>2. OutputRow(k.rid, k.ticker, k.date, k.rowid) \in In("outputs", committed')
    BY <2>1 DEF PassRows, In, OutputRow
  <2>3. OutputRow(k.rid, k.ticker, k.date, k.rowid).id = k.rid
    BY DEF OutputRow
  <2>4. \E x \in In("outputs", committed') : x.id = o.rid
    BY <1>3, <2>2, <2>3
  <2>5. QED
    BY <1>2, <1>3, <2>1, <2>4 DEF Recorded, PassRows
<1>6. CASE k.block \in {"except", "skip"}
  <2>1. k.op = "create_run" /\ Verdict(k.block) # "PASS"
    BY <1>1, <1>6 DEF FrameOK, Verdict
  <2>2. RunRow(k.rid, k.ticker, k.date, k.sid, Verdict(k.block)) \in committed'
    BY <1>4, <2>1 DEF RowsOf
  <2>3. QED
    BY <1>2, <1>3, <2>1, <2>2 DEF Recorded
<1>7. QED
  BY <1>1, <1>5, <1>6 DEF FrameOK

\* What a step may do to a request: nothing, its own work while it has no
\* answer, the answer, or the end of its connection.
RequestMoves(r) ==
  \/ response'[r] = response[r] /\ call'[r] = call[r]
  \/ response'[r] = response[r] /\ call[r].step \in {"idle", "insert", "commit"}
  \/ /\ response'[r] = response[r] /\ call'[r].step = "done"
     /\ PassRows(call'[r]) = PassRows(call[r])
  \/ SaveReturns(r)
  \/ SaveRaises(r)

LEMMA RequestFrames ==
  ASSUME TypeOK, FramesOK, Next, NEW r \in Requests
  PROVE  RequestMoves(r)
<1> USE DEF TypeOK, StoreTypeOK, ApiTypeOK
<1>0. /\ r \in Actors /\ r # Batch /\ r \notin Workers /\ call[r] \in Frames
      /\ \A w \in Workers : w \in Actors /\ w # r
      /\ \A q \in Requests : q \in Actors
      /\ Batch \in Actors
  BY ActorsAreDistinct DEF Actors
<1>a. \A s : /\ [call[r] EXCEPT !.step = s].step = s
             /\ PassRows([call[r] EXCEPT !.step = s]) = PassRows(call[r])
  BY <1>0 DEF PassRows, Frames
<1>b. UNCHANGED response /\ call'[r] = call[r] => RequestMoves(r)
  BY DEF RequestMoves
<1>1. CASE BatchNext /\ UNCHANGED response
  <2>1. call'[r] = call[r]
    <3>1. CASE \E a \in Actors : a # r /\ (Insert(a) \/ CommitAndCallOn(a))
      BY <1>0, <3>1, MethodFrames
    <3>2. CASE MainStep
      BY <1>0, <3>1, <3>2 DEF MainStep, InsertInBatch, AveragesSaved, AveragesRaise,
                              ReportBatch, BatchRaises
    <3>3. CASE KillBatch \/ StartBatch
      BY <1>0, <3>3 DEF KillBatch, StartBatch
    <3>4. ASSUME NEW w \in Workers, WorkerStep(w) PROVE call'[r] = call[r]
      BY <1>0, <3>1, <3>4 DEF WorkerStep, InsertInBatch, CallOnInBatch, StartTask, BuildPayload,
                              AcquireLock, TaskReturns, TryRaises, HandlerRaises
    <3>5. QED
      BY <1>1, <3>2, <3>3, <3>4 DEF BatchNext
  <2>2. QED
    BY <1>1, <1>b, <2>1
<1>2. ASSUME NEW q \in Requests, Request(q) PROVE RequestMoves(r)
  <2>1. CASE q # r
    <3>1. call'[r] = call[r] /\ response'[r] = response[r]
      BY <1>0, <1>2, <2>1, MethodFrames DEF Request, RequestStep, BeginSave, SaveReturns, SaveRaises,
                                       CloseAdapter
    <3>2. QED
      BY <3>1 DEF RequestMoves
  <2>2. CASE q = r
    <3>1. CASE BeginSave(r) \/ ((Insert(r) \/ CommitAndCallOn(r)) /\ UNCHANGED response)
      BY <3>1 DEF BeginSave, Insert, CommitAndCallOn, RequestMoves
    <3>2. CASE CloseAdapter(r)
      BY <1>0, <1>a, <3>2 DEF CloseAdapter, RequestMoves
    <3>3. QED
      BY <1>2, <2>2, <3>1, <3>2 DEF Request, RequestStep, RequestMoves
  <2>3. QED
    BY <2>1, <2>2
<1>3. CASE ServerDies
  BY <1>0, <1>3, <1>a, <1>b DEF ServerDies, KillServer, InFlight, RequestMoves
<1>4. CASE Quiescent
  BY <1>4, <1>b DEF Quiescent, vars, storeVars
<1>5. QED
  BY <1>1, <1>2, <1>3, <1>4 DEF Next

\* Answers stay answers, and what was acknowledged stays in the database.
LEMMA DurableStep ==
  ASSUME IInv, AnswersOK, AcknowledgedIsDurable, Next
  PROVE  AnswersOK' /\ AcknowledgedIsDurable'
<1> USE DEF IInv, TypeOK, StoreTypeOK, BatchTypeOK, ApiTypeOK
<1>0. committed \subseteq committed'
  BY CommittedGrows
<1>1. \A e \in Entries :
        outcome'[e].status \in Statuses => Recorded(outcome'[e], Watchlist[e], committed')
  <2> SUFFICES ASSUME NEW e \in Entries, outcome'[e].status \in Statuses
               PROVE  Recorded(outcome'[e], Watchlist[e], committed')
    OBVIOUS
  <2>1. CASE outcome'[e] = outcome[e]
    BY <1>0, <2>1 DEF AcknowledgedIsDurable, Recorded, In
  <2>2. CASE \E w \in Workers : TaskReturns(w) /\ task[w] = e
    BY <2>2, TaskRecorded
  <2>3. QED
    BY <2>1, <2>2, OutcomeSteps
<1>2. ASSUME NEW r \in Requests
      PROVE  /\ response'[r] # "none" => call'[r].step \in {"close", "done"}
             /\ response'[r] = "ok" => PassRows(call'[r]) \subseteq committed'
  <2>0. /\ r \in Actors /\ call[r] \in Frames /\ FrameOK(r) /\ r \notin Workers /\ r # Batch
        /\ response[r] # "none" => call[r].step \in {"close", "done"}
        /\ response[r] = "ok" => PassRows(call[r]) \subseteq committed
    BY ActorsAreDistinct DEF Actors, FramesOK, AnswersOK, AcknowledgedIsDurable
  <2>1. CASE SaveReturns(r)
    <3>1. call'[r] = [call[r] EXCEPT !.step = "close"] /\ CommitLast(r)
      BY <2>0, <2>1 DEF SaveReturns
    <3>2. call'[r].step = "close" /\ PassRows(call'[r]) = PassRows(call[r])
      BY <2>0, <3>1 DEF PassRows, Frames
    <3>3. PersistsResult(call[r].block)
      BY <2>0 DEF FrameOK, PersistsResult
    <3>4. QED
      BY <2>0, <3>1, <3>2, <3>3, LastCommit
  <2>2. CASE SaveRaises(r)
    <3>1. call'[r] = [call[r] EXCEPT !.step = "close"] /\ response'[r] = "error"
      BY <2>0, <2>2 DEF SaveRaises
    <3>2. call'[r].step = "close"
      BY <2>0, <3>1 DEF Frames
    <3>3. QED
      BY <3>1, <3>2
  <2>3. QED
    BY <1>0, <2>0, <2>1, <2>2, RequestFrames DEF RequestMoves
<1>3. QED
  BY <1>1, <1>2 DEF AnswersOK, AcknowledgedIsDurable

\* A task that is past its build, or a future that raised.
Handled == SomeRaised \/ \E w \in Workers : call[w].step \in {"lock", "insert", "commit"}

\* Rows in the transaction of the batch's connection are somebody's business.
LEMMA LeftoversStep ==
  ASSUME IInv, LeftoversOK, Next
  PROVE  LeftoversOK'
<1> USE DEF IInv, TypeOK, StoreTypeOK, BatchTypeOK, LeftoversOK, Ended
<1>0. /\ \A w \in Workers : w \in Actors /\ w # Batch /\ w \notin Requests /\ ConnOf(w) = Batch
      /\ \A r \in Requests : r \in Actors /\ r # Batch /\ ConnOf(r) = r
      /\ Batch \in Actors /\ Batch \in Conns /\ ConnOf(Batch) = Batch /\ Batch \notin Requests
      /\ \A a \in Actors : call[a] \in Frames
  BY ActorsAreDistinct DEF Actors, Conns, ConnOf
<1>a. Rollback(Batch) \/ CommitTxn(Batch) => pending'[Batch] = {}
  BY <1>0 DEF Rollback, CommitTxn
<1>b. pending'[Batch] = {} => LeftoversOK'
  OBVIOUS
<1>c. phase = "pool" /\ pending[Batch] # {} => Handled
  BY DEF Handled
<1>d. ASSUME phase' = "pool", Handled' PROVE LeftoversOK'
  BY <1>d DEF Handled
<1>e. phase' = "averages" => LeftoversOK'
  OBVIOUS
<1>1. CASE MainStep
  <2>1. CASE InsertInBatch(Batch)
    <3>1. phase' = "averages"
      BY <2>1 DEF InsertInBatch, batchVars, Insert, LockOK, InMethod
    <3>2. QED
      BY <1>e, <3>1
  <2>2. CASE AveragesRaise
    BY <1>e, <2>2 DEF AveragesRaise, batchVars
  <2>3. QED
    BY <1>0, <1>1, <1>a, <1>b, <2>1, <2>2
       DEF MainStep, AveragesSaved, CommitLast, ReportBatch, BatchRaises
<1>2. CASE KillBatch \/ StartBatch
  BY <1>2, <1>a, <1>b, <1>e DEF KillBatch, StartBatch
<1>3. ASSUME NEW w \in Workers, WorkerStep(w) PROVE LeftoversOK'
  <2>1. CASE TaskReturns(w)
    BY <1>0, <1>a, <1>b, <2>1 DEF TaskReturns, CommitLast
  <2>2. CASE HandlerRaises(w)
    <3>1. InMethod(call[w])
      BY <2>2 DEF HandlerRaises, MethodRaises, Busy, Fault, HalfOutput, InMethod
    <3>2. task[w] \in Entries /\ phase = "pool"
      BY <1>0, <3>1 DEF TasksOK, Working, LockOK, InMethod
    <3>3. outcome'[task[w]].status = "raised" /\ phase' = "pool"
      BY <2>2, <3>2 DEF HandlerRaises, Raised
    <3>4. Handled'
      BY <3>2, <3>3 DEF Handled, SomeRaised
    <3>5. QED
      BY <1>d, <3>3, <3>4
  <2>3. CASE Insert(w) \/ CommitAndCallOn(w) \/ AcquireLock(w) \/ TryRaises(w)
    <3>1. call[w].step # "idle"
      BY <2>3 DEF Insert, CommitAndCallOn, AcquireLock, TryRaises, MethodRaises, Busy, Fault, HalfOutput
    <3>2. phase = "pool" /\ phase' = phase
      BY <1>0, <1>3, <2>3, <3>1 DEF LockOK, WorkerStep, InsertInBatch, CallOnInBatch, AcquireLock,
         TryRaises, StartTask, BuildPayload, TaskReturns, HandlerRaises, batchVars
    <3>3. call'[w].step \in {"lock", "insert", "commit"}
      <4>1. CASE Insert(w) \/ CommitAndCallOn(w)
        BY <1>0, <4>1, MethodFrames
      <4>2. CASE AcquireLock(w)
        BY <1>0, <4>2 DEF AcquireLock, Frames
      <4>3. CASE TryRaises(w)
        BY <1>0, <4>3 DEF TryRaises, HandlerFrame, NewFrame
      <4>4. QED
        BY <2>3, <4>1, <4>2, <4>3
    <3>4. QED
      BY <1>d, <3>2, <3>3 DEF Handled
  <2>4. CASE StartTask(w) \/ BuildPayload(w)
    <3>1. /\ call[w].step \in {"idle", "build"}
          /\ \A v \in Workers : v # w => call'[v] = call[v]
          /\ UNCHANGED <<pending, phase, outcome>>
      BY <1>0, <2>4 DEF StartTask, BuildPayload, batchVars
    <3>2. QED
      BY <3>1 DEF SomeRaised
  <2>5. QED
    BY <1>3, <2>1, <2>2, <2>3, <2>4 DEF WorkerStep, InsertInBatch, CallOnInBatch
<1>4. ASSUME \A w \in Workers : call'[w] = call[w], pending'[Batch] = pending[Batch],
             UNCHANGED <<phase, outcome>>
      PROVE  LeftoversOK'
  BY <1>4 DEF SomeRaised
<1>5. ASSUME NEW r \in Requests, Request(r) PROVE LeftoversOK'
  <2>1. \A w \in Workers : call'[w] = call[w]
    BY <1>0, <1>5, MethodFrames
       DEF Request, BeginSave, RequestStep, SaveReturns, SaveRaises, CloseAdapter
  <2>2. pending'[Batch] = pending[Batch]
    BY <1>0, <1>5 DEF Request, BeginSave, RequestStep, SaveReturns, SaveRaises, CloseAdapter,
         Insert, CommitAndCallOn, CommitLast, MethodRaises, Busy, Fault, HalfOutput, Write,
         CommitTxn, Rollback
  <2>3. QED
    BY <1>4, <1>5, <2>1, <2>2 DEF Request, batchVars
<1>6. CASE ServerDies
  BY <1>0, <1>4, <1>6 DEF ServerDies, KillServer, InFlight
<1>7. CASE Quiescent
  BY <1>4, <1>7 DEF Quiescent, vars, storeVars, batchVars
<1>8. QED
  BY <1>1, <1>2, <1>3, <1>5, <1>6, <1>7 DEF Next, BatchNext

\* A report is made by ReportBatch and then stays as it is.
LEMMA ReportSteps ==
  ASSUME IInv, Next, phase' = "done"
  PROVE  ReportBatch \/ (phase = "done" /\ UNCHANGED <<report, outcome>>)
<1> USE DEF IInv
<1>0. \A w \in Workers : w \in Actors /\ (call[w].step # "idle" => phase = "pool")
  BY DEF LockOK, Actors
<1>1. CASE MainStep
  BY <1>1 DEF MainStep, InsertInBatch, AveragesSaved, AveragesRaise, BatchRaises, batchVars
<1>2. CASE KillBatch \/ StartBatch
  BY <1>2 DEF KillBatch, StartBatch
<1>3. ASSUME NEW w \in Workers, WorkerStep(w) PROVE FALSE
  <2>1. phase = "done"
    BY <1>3 DEF WorkerStep, StartTask, BuildPayload, AcquireLock, InsertInBatch, CallOnInBatch,
                TaskReturns, TryRaises, HandlerRaises, batchVars
  <2>2. call[w].step = "idle"
    BY <1>0, <2>1
  <2>3. QED
    BY <1>3, <2>1, <2>2 DEF WorkerStep, StartTask, BuildPayload, AcquireLock, InsertInBatch,
       CallOnInBatch, Insert, CommitAndCallOn, TaskReturns, CommitLast, TryRaises, HandlerRaises,
       MethodRaises, Busy, Fault, HalfOutput
<1>4. CASE (\E r \in Requests : Request(r)) \/ ServerDies \/ Quiescent
  BY <1>4 DEF Request, ServerDies, Quiescent, vars, batchVars
<1>5. QED
  BY <1>1, <1>2, <1>3, <1>4 DEF Next, BatchNext

LEMMA ReportStep ==
  ASSUME IInv, LeftoversOK, AcknowledgedIsDurable, ReportIsFaithful, Next
  PROVE  ReportIsFaithful'
<1> USE DEF IInv, TypeOK, StoreTypeOK, BatchTypeOK
<1> SUFFICES ASSUME phase' = "done" PROVE ReportIsFaithful'
  BY DEF ReportIsFaithful
<1>0. committed \subseteq committed'
  BY CommittedGrows
<1>1. CASE ReportBatch
  <2>1. \A w \in Workers : call[w].step = "idle"
    BY <1>1 DEF ReportBatch, AllSettled, TasksOK, Working
  <2>2. pending[Batch] = {}
    BY <1>1, <2>1 DEF ReportBatch, LeftoversOK
  <2>3. report' = BatchReport(committed, BatchDate) /\ committed' = committed /\ outcome' = outcome
    BY <1>1, <2>2 DEF ReportBatch, View, Rollback
  <2>4. \A e \in Entries : outcome[e].status \in Statuses
    BY <1>1 DEF ReportBatch, AllSettled, SomeRaised, Settled, Outcomes
  <2>5. \A e \in Entries :
          RunRow(outcome[e].rid, Watchlist[e], BatchDate, outcome[e].sid, outcome[e].status)
            \in BatchReport(committed, BatchDate)
    BY <2>4 DEF AcknowledgedIsDurable, Recorded, BatchReport, In, RunRow
  <2>6. BatchReport(committed, BatchDate) \subseteq committed
    BY DEF BatchReport, In
  <2>7. QED
    BY <2>3, <2>5, <2>6 DEF ReportIsFaithful
<1>2. CASE phase = "done" /\ UNCHANGED <<report, outcome>>
  BY <1>0, <1>2 DEF ReportIsFaithful
<1>3. QED
  BY <1>1, <1>2, ReportSteps

LEMMA InitDurable == Init => LeftoversOK /\ AnswersOK /\ AcknowledgedIsDurable /\ ReportIsFaithful
<1> SUFFICES ASSUME Init PROVE LeftoversOK /\ AnswersOK /\ AcknowledgedIsDurable /\ ReportIsFaithful
  OBVIOUS
<1>1. /\ phase = "averages" /\ \A e \in Entries : outcome[e].status = "none"
      /\ \A r \in Requests : response[r] = "none"
  BY DEF Init, BatchInit, NoOutcome
<1>2. QED
  BY <1>1 DEF LeftoversOK, Ended, AnswersOK, AcknowledgedIsDurable, ReportIsFaithful, Statuses

\* All of the invariant of the batch.
THEOREM BatchInvariance == Spec => []BatchInv
<1> DEFINE D == LeftoversOK /\ AnswersOK /\ AcknowledgedIsDurable /\ ReportIsFaithful
<1>1. Init => D
  BY InitDurable
<1>2. IInv /\ D /\ [Next]_vars => D'
  <2> SUFFICES ASSUME IInv, D, [Next]_vars PROVE D'
    OBVIOUS
  <2>1. CASE Next
    BY <2>1, LeftoversStep, DurableStep, ReportStep
  <2>2. CASE UNCHANGED vars
    BY <2>2 DEF vars, storeVars, batchVars, LeftoversOK, SomeRaised, AnswersOK,
                AcknowledgedIsDurable, ReportIsFaithful
  <2>3. QED
    BY <2>1, <2>2
<1>3. IInv /\ D /\ RowidsFollowCommits /\ OneOutputOK => BatchInv
  BY DEF BatchInv
<1> HIDE DEF D
<1>4. QED
  BY <1>1, <1>2, <1>3, Invariance, RowidOrder, OneOutput, PTL DEF Spec

\* A finished task's and an answered request's rows are in the database for
\* good, whatever failures, kills and other batches follow.
THEOREM Durability == Spec => []AcknowledgedIsDurable
<1>1. BatchInv => AcknowledgedIsDurable
  BY DEF BatchInv
<1>2. QED
  BY <1>1, BatchInvariance, PTL

\* A report shows committed rows only and has the row of every entry.
THEOREM FaithfulReport == Spec => []ReportIsFaithful
<1>1. BatchInv => ReportIsFaithful
  BY DEF BatchInv
<1>2. QED
  BY <1>1, BatchInvariance, PTL
=============================================================================
