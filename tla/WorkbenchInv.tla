---------------------------- MODULE WorkbenchInv ----------------------------
(***************************************************************************)
(* The inductive invariant of the parts of Workbench: what their safety    *)
(* and action properties rest on.                                          *)
(***************************************************************************)
EXTENDS Workbench

-----------------------------------------------------------------------------
(* The decision journal *)

RecorderStates == {"idle", "built", "written", "acknowledged", "refused", "torn",
                   "failed"}
Line == Seq(Writers \cup {"torn"}) \ {<<>>}

JournalTypeOK ==
  /\ lines \in Seq(Line)
  /\ open \in Seq({"torn"})
  /\ recorder \in [Writers -> RecorderStates]
  /\ tears \in Nat /\ failures \in Nat

\* Who has written its decision, whether or not the line can be read; who is about
\* to write it again.
Recorded == {w \in Writers : recorder[w] \in {"written", "acknowledged"}}
Again    == J!Intact \ Recorded
OpenEnds == IF open = <<>> THEN 0 ELSE 1

\* Every tear has an open end that no decision was glued to yet, or cost one; every
\* failure has a decision to be written again, or a line too many.
JournalOK ==
  /\ J!Intact \subseteq Writers
  /\ \A w \in Writers :
       IF DecisionType[w] \in J!AllowedDecisionTypes THEN recorder[w] # "refused"
       ELSE recorder[w] \in {"idle", "refused"} /\ w \notin J!Intact
  /\ Cardinality(Recorded \ J!Intact) + OpenEnds <= tears
  /\ tears = 0 => /\ open = <<>>
                  /\ \A i \in DOMAIN lines : J!Parses(lines[i])
                  /\ Len(lines) + Cardinality(Again) <= Cardinality(J!Intact) + failures

JournalInv == JournalTypeOK /\ JournalOK

-----------------------------------------------------------------------------
(* The files of the other desks *)

DeskInv ==
  subject.part = "desk" =>
    /\ subject.rows \in Holdings /\ subject.priorities \in Watched
    /\ DOMAIN evidence = Tickers \X FileKinds
    /\ \A f \in DOMAIN evidence : evidence[f] \in FilesFor(f[2]) \cup {None}

ThesisInv ==
  subject.part = "thesis" => subject.of \in Theses /\ DOMAIN evidence = ThesisFields(subject.of)

ComparisonInv ==
  subject.part = "comparison" => {evidence.previous, evidence.current} \subseteq Runs \cup {None}

PackageInv ==
  subject.part = "package" =>
    /\ DOMAIN evidence = Packaged
    /\ \A c \in Packaged : evidence[c] \in Artifacts \cup {None}

ReleaseInv ==
  subject.part = "release" =>
    /\ subject.registry \in Registries
    /\ DOMAIN evidence = {"tree", "sources", "gates", "proof"}
    /\ DOMAIN evidence.tree = IndexedFiles \cup UNION Capabilities
    /\ \A f \in DOMAIN evidence.tree : evidence.tree[f] \in BOOLEAN
    /\ evidence.sources \in [SourceIds -> {None, "marked", "real"}]
    /\ evidence.gates \in {None, "PASS", "FAIL"}

-----------------------------------------------------------------------------
(* The payload *)

\* A figure that carries the name of an override is one.
PayloadInv ==
  subject.part = "payload" =>
    /\ field \in N!Fields
    /\ cell.provider = "manual_override" /\ cell.value # None /\ field \notin N!Series
         => cell.value \in Int

FilingsInv ==
  subject.part = "payload" => field \in N!Fields /\ facts \subseteq Filings(field) /\ IsFiniteSet(facts)

-----------------------------------------------------------------------------
(* The sensitivity of a valuation *)

SensitivityInv ==
  subject.part = "sensitivity" =>
    /\ subject.of \in Companies /\ DOMAIN evidence = DOMAIN Drivers(subject.of)
    /\ \A d \in DOMAIN evidence : evidence[d] \in Drivers(subject.of)[d] \cup {None}

-----------------------------------------------------------------------------

WorkbenchOK ==
  /\ GatheredInv /\ DeskInv /\ JournalInv /\ ThesisInv /\ ComparisonInv
  /\ PackageInv /\ ReleaseInv /\ PayloadInv /\ FilingsInv /\ SensitivityInv
=============================================================================
