---------------------------- MODULE SnapshotCache ----------------------------
(***************************************************************************)
(* The live provider's snapshots and the files they are kept in: the disk  *)
(* cache (data/cache.py), whose key holds the UTC date, and the recorded   *)
(* snapshots (data/recorded_fixtures.py).  Both are written in place: open *)
(* truncates, a reader in between and a process that dies there find a     *)
(* torn file, which json.load refuses.                                     *)
(*                                                                         *)
(* A snapshot is the day it was fetched on.  A component that yfinance     *)
(* does not deliver leaves a warning in the snapshot and is not told apart.*)
(***************************************************************************)
EXTENDS Rows

CONSTANTS Procs,       \* the processes that use the live provider
          NoProc,
          MayRefresh   \* those that may be run with --refresh

ASSUME ProcsAssumption == NoProc \notin Procs /\ MayRefresh \subseteq Procs

VARIABLES today,     \* the UTC date
          entry,     \* per ticker and key, a cache file
          fetch,     \* per process, the fetch_raw_snapshot it is in
          refresh    \* per process, its --refresh flag

cacheVars == <<today, entry, fetch, refresh>>

\* day is the fetched_at of the content, written the modification date, by the
\* process that opened the file last.
Absent == [state |-> "absent", day |-> 0, written |-> 0, by |-> NoProc]
TornBy(p) == [state |-> "torn", day |-> 0, written |-> today, by |-> p]
WholeFile(d, p) == [state |-> "whole", day |-> d, written |-> today, by |-> p]
FileStates == [state : {"absent", "torn", "whole"}, day : Nat, written : Nat,
               by : Procs \cup {NoProc}]

NoFetch(t) == [step |-> "none", ticker |-> t, key |-> 0, day |-> 0]
FetchSteps == {"none", "lookup", "download", "open", "write", "got", "failed"}

\* Wrong variant: a key without the date.
KeyOfTicker(d) == 1

Key(d) == d
TtlDays == 1

At(p) == <<fetch[p].ticker, fetch[p].key>>

BeginFetch(p, t) ==
  /\ fetch[p].step = "none"
  /\ fetch' = [fetch EXCEPT ![p] = [step |-> IF refresh[p] THEN "download" ELSE "lookup",
                                    ticker |-> t, key |-> Key(today), day |-> 0]]
  /\ UNCHANGED <<today, entry, refresh>>

\* get_with_metadata reads the file before it looks at its age, so a torn one
\* raises whatever its age.
Lookup(p) ==
  LET e == entry[At(p)] IN
  /\ fetch[p].step = "lookup"
  /\ fetch' =
       CASE e.state = "torn" -> [fetch EXCEPT ![p].step = "failed"]
         [] e.state = "whole" /\ today - e.written <= TtlDays ->
              [fetch EXCEPT ![p].step = "got", ![p].day = e.day]
         [] OTHER -> [fetch EXCEPT ![p].step = "download"]
  /\ UNCHANGED <<today, entry, refresh>>

\* fetched_at is set first; yfinance may be missing or refuse the ticker.
Download(p) ==
  /\ fetch[p].step = "download"
  /\ fetch' \in {[fetch EXCEPT ![p].step = "failed"],
                 [fetch EXCEPT ![p].step = "open", ![p].day = today]}
  /\ UNCHANGED <<today, entry, refresh>>

OpenEntry(p) ==
  /\ fetch[p].step = "open"
  /\ entry' = [entry EXCEPT ![At(p)] = TornBy(p)]
  /\ fetch' = [fetch EXCEPT ![p].step = "write"]
  /\ UNCHANGED <<today, refresh>>

\* Another process has written or is writing the same file.
Disturbed(p) ==
  \/ entry[At(p)].by # p
  \/ \E q \in Procs \ {p} : fetch[q].step = "write" /\ At(q) = At(p)

\* Two writers leave the file of the last one, or a mixture.
CloseEntry(p) ==
  /\ fetch[p].step = "write"
  /\ \E e \in {WholeFile(fetch[p].day, p)} \cup (IF Disturbed(p) THEN {TornBy(p)} ELSE {}) :
       entry' = [entry EXCEPT ![At(p)] = e]
  /\ fetch' = [fetch EXCEPT ![p].step = "got"]
  /\ UNCHANGED <<today, refresh>>

\* The disk is full.
WriteFails(p) ==
  /\ fetch[p].step = "write"
  /\ fetch' = [fetch EXCEPT ![p].step = "failed"]
  /\ UNCHANGED <<today, entry, refresh>>

FetchStep(p) ==
  Lookup(p) \/ Download(p) \/ OpenEntry(p) \/ CloseEntry(p) \/ WriteFails(p)

\* The fetch of p, which has got or failed, is taken notice of.
Taken(p) == fetch' = [fetch EXCEPT ![p].step = "none", ![p].day = 0]

Midnight ==
  /\ today + 1 \in Dates
  /\ today' = today + 1
  /\ UNCHANGED <<entry, fetch, refresh>>

CacheInit ==
  /\ today \in Dates
  /\ \A d \in Dates : today <= d
  /\ entry = [k \in Tickers \X Dates |-> Absent]
  /\ fetch = [p \in Procs |-> NoFetch(CHOOSE t \in Tickers : TRUE)]
  /\ refresh \in {f \in [Procs -> BOOLEAN] : \A p \in Procs : f[p] => p \in MayRefresh}

CacheTypeOK ==
  /\ today \in Dates
  /\ entry \in [Tickers \X Dates -> FileStates]
  /\ \A p \in Procs : fetch[p].step \in FetchSteps /\ fetch[p].ticker \in Tickers
  /\ refresh \in [Procs -> BOOLEAN]
=============================================================================
