--------------------------- MODULE MCPersistence ----------------------------
(* Small instances of Persistence for TLC. *)
EXTENDS PersistenceInv, TLC

CONSTANTS t1, t2

NoEntries    == <<>>
OneEntry     == <<t1>>
TwoEntries   == <<t1, t2>>
SameTwice    == <<t1, t1>>

WorkerSymmetry == Permutations(Workers)

=============================================================================
