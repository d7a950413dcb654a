---------------------------- MODULE LiveDataInv -----------------------------
(***************************************************************************)
(* The inductive invariant of LiveData: what its three safety properties   *)
(* and the bootstrap's ledger rest on.  The first half is about the one    *)
(* connection that writes, the second about the age of the files.          *)
(***************************************************************************)
EXTENDS LiveData

InMethod(k) == k.step \in {"insert", "commit"}

Fetches == [step : FetchSteps, ticker : Tickers, key : Dates \cup {0}, day : Nat]
Items == [status : {"none", "PASS", "FAIL"}, frame : Frames]
Boots == [phase : {"idle", "fetch", "save", "close", "done", "dead"}, at : Nat, date : Dates,
          keepGoing : BOOLEAN, persist : BOOLEAN]
EodRuns == [phase : {"idle", "refresh", "saving", "check", "batch", "alert", "logging", "done",
                     "raised"},
            at : Nat, live : BOOLEAN, date : Dates \cup {0},
            alerts : SUBSET {"live snapshot", "batch"}, runs : 0..MaxRuns]
EodOutcomes == [refresh : {"none", "PASS", "FAIL"}, batch : {"none"} \cup BatchStatuses,
                day : Nat]
Logs == [state : {"absent", "torn", "whole"}, alerts : SUBSET {"live snapshot", "batch"}]

BootTypeOK ==
  /\ StoreTypeOK
  /\ boot \in Boots
  /\ results \in [BootEntries -> Items]

FilesTypeOK ==
  /\ CacheTypeOK
  /\ fetch \in [Procs -> Fetches]
  /\ eod \in EodRuns
  /\ recorded \in [Tickers -> FileStates]
  /\ outcomes \in [EodEntries -> EodOutcomes]
  /\ rows \in [Dates -> [BatchStatuses -> Nat]]
  /\ log \in [Dates -> Logs]

-----------------------------------------------------------------------------
(* The bootstrap's connection is the only one that writes *)

Written == committed \cup pending[Boot]

BootOK ==
  /\ boot.phase = "idle" => boot.at = 1
  /\ boot.phase \in {"fetch", "save"} => boot.at \in BootEntries
  /\ boot.phase = "save" <=> InMethod(call[Boot])
  /\ boot.phase = "save" => /\ boot.persist
                            /\ call[Boot].block = "api"
                            /\ call[Boot].op # "save_averages_snapshot"

ConnectionOK ==
  /\ \A c \in Conns : c # Boot => pending[c] = {}
  /\ writer \in {NoConn, Boot}
  /\ call[Boot].step = "commit" => RowsOf(call[Boot]) \subseteq pending[Boot]

\* A frame that is about to give its runs row an output.
AwaitsOutput(k) == \/ k.op = "save_output" /\ k.step = "insert"
                   \/ k.op = "create_run" /\ k.step = "commit"

BootIdsOK ==
  LET k == call[Boot] IN
    /\ \A x \in Written :
         /\ x.table \in {"input_snapshots", "runs", "outputs", "checks"} => x.id < nextId
         /\ x.table = "outputs" => x.rowid < nextId
    /\ k.rid < nextId
    /\ AwaitsOutput(k) =>
         \A x \in Written : x.table \in {"outputs", "checks"} => x.id # k.rid

\* What the earlier methods of save_company_output have committed.
BootProgressOK ==
  LET k == call[Boot] IN
    InMethod(k) =>
      /\ k.op # "upsert_instrument" => InstrumentRow(k.ticker) \in committed
      /\ k.op \in {"create_run", "save_output"} => SnapshotRow(k.sid, k.ticker) \in committed
      /\ k.op = "save_output" => RunRow(k.rid, k.ticker, k.date, k.sid, "PASS") \in committed

BootRowsOK ==
  /\ KeysUnique(Written)
  /\ WellReferenced(committed)
  /\ WellReferenced(Written)

StoreInv ==
  /\ BootTypeOK
  /\ BootOK
  /\ ConnectionOK
  /\ BootIdsOK
  /\ BootProgressOK
  /\ BootRowsOK
  /\ SucceededIsDurable

-----------------------------------------------------------------------------
(* The age of what the refresh reads *)

\* An entry is never older than the date in its key, nor is what a fetch got.
CacheOK ==
  /\ \A t \in Tickers, d \in Dates :
       entry[<<t, d>>].state = "whole" => entry[<<t, d>>].day >= d
  /\ \A p \in Procs :
       /\ fetch[p].step # "none" => fetch[p].key \in Dates /\ fetch[p].key <= today
       /\ fetch[p].step \in {"open", "write", "got"} => fetch[p].day >= fetch[p].key

\* Where a refresh can be.
EodOK ==
  /\ eod.phase \in {"refresh", "saving", "batch"} => eod.at \in EodEntries
  /\ eod.phase = "check" => eod.at = 1
  /\ eod.phase # "idle" => eod.date \in Dates
  /\ eod.date <= today
  /\ eod.phase \in {"refresh", "saving", "check"} =>
       eod.live /\ \A i \in EodEntries : outcomes[i].batch = "none"
  /\ fetch[Eod].step # "none" =>
       eod.phase \in {"refresh", "saving"} /\ fetch[Eod].key >= eod.date
  /\ eod.phase = "saving" => fetch[Eod].step = "got"

\* A file that was recorded in this run is torn or as fresh as the run.
RecordedOK ==
  \A i \in EodEntries :
    LET t == EodWatchlist[i] IN
      outcomes[i].refresh = "PASS" /\ t \in Refreshed /\ recorded[t].state = "whole" =>
        recorded[t].day >= eod.date

Judged(i) == outcomes[i].refresh \in {"PASS", "FAIL"}

\* A live refresh judges every entry before it raises its alert.
JudgedOK ==
  eod.live =>
    /\ eod.phase \in {"refresh", "saving"} => \A i \in EodEntries : i < eod.at => Judged(i)
    /\ eod.phase \in {"check", "batch", "alert", "logging", "done"} =>
         \A i \in EodEntries : Judged(i)
    /\ eod.phase \in {"batch", "alert", "logging", "done"}
         /\ Alarming(RefreshFails, Len(EodWatchlist)) => "live snapshot" \in eod.alerts

\* The log of the run is the newest one.
LogOK ==
  /\ \A d \in Dates : log[d].state # "absent" => d <= eod.date
  /\ eod.phase = "done" => log[eod.date] = [state |-> "whole", alerts |-> eod.alerts]

FilesInv ==
  /\ FilesTypeOK
  /\ CacheOK
  /\ EodOK
  /\ RecordedOK
  /\ ReportedFreshIsFresh
  /\ JudgedOK
  /\ LogOK

LiveInv == StoreInv /\ FilesInv
=============================================================================
