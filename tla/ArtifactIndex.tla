--------------------------- MODULE ArtifactIndex ----------------------------
(***************************************************************************)
(* db/artifacts.py: the index of artifact files, for one ticker.           *)
(*                                                                         *)
(* The index stores paths and the files keep the content.  A row is        *)
(* inserted with created_at, which has a resolution of one second.  Every  *)
(* query asks for one kind, so that only the order of the rows of a kind   *)
(* is kept: a row's position among them stands for its rowid.  Producers   *)
(* write a file in place: open() truncates it, and it is whole again when  *)
(* it is closed.                                                           *)
(***************************************************************************)
EXTENDS Naturals, Sequences, FiniteSets

CONSTANTS Dirs,      \* output directories
          Kinds,     \* artifact kinds, one per producer: its JSON document
          MaxClock   \* bound: seconds that pass

ASSUME MaxClockIsNat == MaxClock \in Nat

VARIABLES artifacts,  \* per kind, the rows of the table in rowid order
          files,      \* the files on disk
          clock       \* the wall clock, in seconds

indexVars == <<artifacts, files, clock>>

\* run is 0 in a path whose name does not hold a run id.
Paths == [dir : Dirs, kind : Kinds, run : Nat]

\* A whole file is about one run; a torn one is not a JSON document.
Files == [path : Paths, whole : BOOLEAN, about : Nat]

\* run is 0 for NULL.
Rows == [run : Nat, path : Paths, at : Nat]

Exists(p) == \E f \in files : f.path = p

-----------------------------------------------------------------------------
(* Files *)

Without(p) == {f \in files : f.path # p}

Truncate(p) == files' = Without(p) \cup {[path |-> p, whole |-> FALSE, about |-> 0]}

WriteOut(p, r) == files' = Without(p) \cup {[path |-> p, whole |-> TRUE, about |-> r]}

\* A run directory is cleaned up by hand.
DeleteFile(f) == f \in files /\ files' = files \ {f}

-----------------------------------------------------------------------------
(* The table *)

\* register_artifact with the created_at it drew before its INSERT.
Register(k, r, p, at) ==
  artifacts' = [artifacts EXCEPT ![k] = Append(@, [run |-> r, path |-> p, at |-> at])]

\* Wrong variant: rows of the same second are not put in the order they came.
NewerBySecond(k, i, j) ==
  \/ artifacts[k][i].at > artifacts[k][j].at
  \/ artifacts[k][i].at = artifacts[k][j].at /\ i < j

\* Row i comes before row j in ORDER BY created_at DESC, rowid DESC.
NewerRow(k, i, j) ==
  \/ artifacts[k][i].at > artifacts[k][j].at
  \/ artifacts[k][i].at = artifacts[k][j].at /\ i > j

\* The rows of a kind whose file is still there.
Present(k) == {i \in DOMAIN artifacts[k] : Exists(artifacts[k][i].path)}

\* latest_artifact(db, ticker, kind): the newest such row, as a set of one
\* element; 0 for None.  No caller in the repository passes a run_id.
LatestArtifact(k) ==
  IF Present(k) = {} THEN {0}
  ELSE {i \in Present(k) : \A j \in Present(k) \ {i} : NewerRow(k, i, j)}

-----------------------------------------------------------------------------
Tick ==
  /\ clock < MaxClock
  /\ clock' = clock + 1
  /\ UNCHANGED <<artifacts, files>>

IndexInit ==
  /\ artifacts = [k \in Kinds |-> <<>>]
  /\ files = {}
  /\ clock = 0

IndexTypeOK ==
  /\ artifacts \in [Kinds -> Seq(Rows)]
  /\ files \subseteq Files
  /\ clock \in Nat
=============================================================================
