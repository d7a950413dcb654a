-------------------------------- MODULE Rows --------------------------------
(***************************************************************************)
(* The rows of the SQLite schema (db/schema.py) and the read queries of    *)
(* the store (db/store.py) and of the API adapter (api/db_adapter.py).     *)
(*                                                                         *)
(* A table's rows are records with a "table" field, so that the database,  *)
(* and the uncommitted rows of a connection, are plain sets.  JSON         *)
(* documents, scores and timestamps are left out; ids (uuid4 in the code)  *)
(* are natural numbers, 0 standing for NULL.                               *)
(***************************************************************************)
EXTENDS Naturals, FiniteSets

CONSTANTS Tickers,   \* ticker symbols
          Dates      \* valuation dates, ordered as ISO strings are

ASSUME DatesAreOrdered == Dates \subseteq Nat
ASSUME SomeTicker == Tickers # {}

Statuses == {"PASS", "FAIL", "SKIPPED"}

InstrumentRow(t) == [table |-> "instruments", ticker |-> t]

SnapshotRow(i, t) == [table |-> "input_snapshots", id |-> i, ticker |-> t]

RunRow(i, t, d, s, st) ==
  [table |-> "runs", id |-> i, ticker |-> t, date |-> d, snapshot |-> s, status |-> st]

\* rowid is SQLite's hidden row number: outputs has a TEXT primary key.
OutputRow(i, t, d, n) ==
  [table |-> "outputs", id |-> i, ticker |-> t, date |-> d, rowid |-> n]

\* All the checks rows of one run: executemany writes them together.
ChecksRow(i, t, d) == [table |-> "checks", id |-> i, ticker |-> t, date |-> d]

AveragesRow(d) == [table |-> "averages_snapshots", date |-> d]

Instruments == [table : {"instruments"}, ticker : Tickers]
Snapshots   == [table : {"input_snapshots"}, id : Nat, ticker : Tickers]
Runs        == [table : {"runs"}, id : Nat, ticker : Tickers, date : Dates,
                snapshot : Nat, status : Statuses]
Outputs     == [table : {"outputs"}, id : Nat, ticker : Tickers, date : Dates,
                rowid : Nat]
Checks      == [table : {"checks"}, id : Nat, ticker : Tickers, date : Dates]
Averages    == [table : {"averages_snapshots"}, date : Dates]

AllRows == Instruments \cup Snapshots \cup Runs \cup Outputs \cup Checks \cup Averages

In(table, rows) == {x \in rows : x.table = table}

-----------------------------------------------------------------------------
(* What the rows of the database promise each other *)

\* Every row points to rows that are there: checks to their output, an output
\* to the PASS run of the same ticker and date, a PASS run to the snapshot it
\* was computed from, a snapshot to its instrument.
WellReferenced(rows) ==
  /\ \A k \in In("checks", rows) :
       \E o \in In("outputs", rows) : o.id = k.id /\ o.ticker = k.ticker /\ o.date = k.date
  /\ \A o \in In("outputs", rows) :
       \E r \in In("runs", rows) :
         /\ r.id = o.id
         /\ r.ticker = o.ticker
         /\ r.date = o.date
         /\ r.status = "PASS"
  /\ \A r \in In("runs", rows) :
       r.status = "PASS" => SnapshotRow(r.snapshot, r.ticker) \in rows
  /\ \A s \in In("input_snapshots", rows) : InstrumentRow(s.ticker) \in rows

\* The primary keys of the uuid-keyed tables, and the uniqueness of rowids.
KeysUnique(rows) ==
  \A x, y \in rows :
    /\ x.table = y.table
    /\ x.table \in {"input_snapshots", "runs", "outputs", "checks"}
    /\ x.id = y.id
    => x = y

-----------------------------------------------------------------------------
(* The queries *)

\* Store.batch_report: every runs row of the date, whichever batch wrote it.
BatchReport(rows, d) == {r \in In("runs", rows) : r.date = d}

\* Wrong variant: no tie-break between outputs of
\* the same date, as in Store.latest_output.
NewerByDate(o, p) == o.date > p.date

\* o comes before p in ORDER BY valuation_date DESC, rowid DESC.
Newer(o, p) == \/ o.date > p.date
               \/ o.date = p.date /\ o.rowid > p.rowid

\* ApiDbAdapter.get_latest_company_with_run_id: the first row of that order,
\* as a set with at most one element.
Latest(rows, t) ==
  {o \in In("outputs", rows) :
     /\ o.ticker = t
     /\ \A p \in In("outputs", rows) : p.ticker = t /\ p # o => Newer(o, p)}
=============================================================================
