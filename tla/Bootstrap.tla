------------------------------ MODULE Bootstrap ------------------------------
(***************************************************************************)
(* ops/real_dashboard_bootstrap.py: live payload, analysis and persistence *)
(* for a list of tickers over one ApiDbAdapter, hence one connection, that *)
(* is closed when all are done.  Nothing rolls a failed ticker back.       *)
(***************************************************************************)
EXTENDS Store, SnapshotCache, Sequences

CONSTANTS Boot,        \* the process; its connection is its own
          BootTickers  \* --tickers

ASSUME BootIsARequest == Boot \in Requests \cap Procs
ASSUME BootTickersAssumption == BootTickers \in Seq(Tickers)

VARIABLES boot,     \* where the bootstrap is, and its flags
          results   \* per ticker of the list, its item

bootVars == <<boot, results>>

BootEntries == 1..Len(BootTickers)
BootTicker == BootTickers[boot.at]
BootFrame(step) == NewFrame("api", "upsert_instrument", step, BootTicker, boot.date)

\* A result's rows are those its frame says it wrote.
NoItem(i) == [status |-> "none", frame |-> NewFrame("api", "upsert_instrument", "idle",
                                                    BootTickers[i], CHOOSE d \in Dates : TRUE)]

\* An empty watchlist file names no ticker: there is nothing to loop over.
FirstPhase == IF BootTickers = <<>> THEN "close" ELSE "fetch"

StartBoot ==
  /\ boot.phase = "idle"
  /\ \E keepGoing \in BOOLEAN :
       boot' = [boot EXCEPT !.phase = FirstPhase, !.date = today, !.keepGoing = keepGoing]
  /\ UNCHANGED <<storeVars, cacheVars, results>>

BootFetch ==
  /\ boot.phase = "fetch"
  /\ BeginFetch(Boot, BootTicker)
  /\ UNCHANGED <<storeVars, bootVars>>

\* After the last ticker, or the first failure unless continue_on_error.
NextTicker(status) ==
  boot' = IF boot.at = Len(BootTickers) \/ (status = "FAIL" /\ ~boot.keepGoing)
          THEN [boot EXCEPT !.phase = "close"]
          ELSE [boot EXCEPT !.phase = "fetch", !.at = @ + 1]

\* The estimates, averages and SEC injections, the analysis and the files of
\* the audit trail: any of them may raise.
Analysed ==
  /\ boot.phase = "fetch"
  /\ fetch[Boot].step = "got"
  /\ Taken(Boot)
  /\ IF boot.persist
     THEN /\ call' = [call EXCEPT ![Boot] = BootFrame("insert")]
          /\ boot' = [boot EXCEPT !.phase = "save"]
          /\ UNCHANGED results
     ELSE /\ results' = [results EXCEPT ![boot.at].status = "PASS"]
          /\ NextTicker("PASS")
          /\ UNCHANGED call
  /\ UNCHANGED <<committed, pending, writer, nextId, faults, today, entry, refresh>>

BeforeSaveRaises ==
  /\ boot.phase = "fetch"
  /\ fetch[Boot].step \in {"got", "failed"}
  /\ Taken(Boot)
  /\ results' = [results EXCEPT ![boot.at].status = "FAIL"]
  /\ NextTicker("FAIL")
  /\ UNCHANGED <<storeVars, today, entry, refresh>>

\* save_company_output, whose four methods are the store's.
SaveMethod ==
  /\ boot.phase = "save"
  /\ Insert(Boot) \/ CommitAndCallOn(Boot)
  /\ UNCHANGED <<cacheVars, bootVars>>

Saved ==
  /\ boot.phase = "save"
  /\ CommitLast(Boot)
  /\ call' = [call EXCEPT ![Boot].step = "idle"]
  /\ results' = [results EXCEPT ![boot.at] = [status |-> "PASS", frame |-> call[Boot]]]
  /\ NextTicker("PASS")
  /\ UNCHANGED cacheVars

\* Wrong variant: a failure of save_output does not fail the ticker.
SaveRaisedQuietly ==
  /\ boot.phase = "save"
  /\ MethodRaises(Boot)
  /\ call' = [call EXCEPT ![Boot].step = "idle"]
  /\ results' = [results EXCEPT ![boot.at] =
       [status |-> IF call[Boot].op = "save_output" THEN "PASS" ELSE "FAIL",
        frame  |-> call[Boot]]]
  /\ NextTicker("FAIL")
  /\ UNCHANGED cacheVars

\* The transaction stays as the method left it.
SaveRaised ==
  /\ boot.phase = "save"
  /\ MethodRaises(Boot)
  /\ call' = [call EXCEPT ![Boot].step = "idle"]
  /\ results' = [results EXCEPT ![boot.at].status = "FAIL"]
  /\ NextTicker("FAIL")
  /\ UNCHANGED cacheVars

\* Wrong variant: the adapter is left open.
CloseBootForgotten ==
  /\ boot.phase = "close"
  /\ boot' = [boot EXCEPT !.phase = "done"]
  /\ UNCHANGED <<storeVars, cacheVars, results>>

\* The finally clause, then the summary.
CloseBoot ==
  /\ boot.phase = "close"
  /\ Rollback(Boot)
  /\ call' = [call EXCEPT ![Boot].step = "done"]
  /\ boot' = [boot EXCEPT !.phase = "done"]
  /\ UNCHANGED <<nextId, faults, cacheVars, results>>

KillBoot ==
  /\ boot.phase \notin {"idle", "done", "dead"}
  /\ Rollback(Boot)
  /\ call' = [call EXCEPT ![Boot].step = "done"]
  /\ boot' = [boot EXCEPT !.phase = "dead"]
  /\ Taken(Boot)
  /\ UNCHANGED <<nextId, faults, today, entry, refresh, results>>

BootStep ==
  \/ BootFetch \/ Analysed \/ BeforeSaveRaises \/ SaveMethod \/ Saved \/ SaveRaised
  \/ CloseBoot
  \/ FetchStep(Boot) /\ UNCHANGED <<storeVars, bootVars>>

BootInit ==
  /\ \E persist \in BOOLEAN :
       boot = [phase |-> "idle", at |-> 1, date |-> CHOOSE d \in Dates : TRUE,
               keepGoing |-> TRUE, persist |-> persist]
  /\ results = [i \in BootEntries |-> NoItem(i)]
=============================================================================
