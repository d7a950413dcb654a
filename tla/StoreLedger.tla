---- MODULE StoreLedger ----
(***************************************************************************)
(* What the store promises a reader of the database, whatever threads,     *)
(* requests and crashes are behind it: the rows are an append-only ledger  *)
(* ("All writes are idempotent per (run/snapshot id)", db/store.py).  A    *)
(* step publishes rows; no published row changes or goes away, no key is   *)
(* used twice, and no row points to one that is not there.                 *)
(***************************************************************************)
EXTENDS Rows

VARIABLE ledger

LedgerInit == ledger = {}

Publish ==
  /\ ledger \subseteq ledger'
  /\ KeysUnique(ledger')
  /\ WellReferenced(ledger')

LedgerSpec == LedgerInit /\ [][Publish]_ledger
====
