----------------------------- MODULE Comparison -----------------------------
(***************************************************************************)
(* The comparison of two artifacts of a company (research/run_comparison). *)
(*                                                                         *)
(* An artifact is None or a record                                         *)
(*   scores   axis -> [score, coverage], the empty function if it has none *)
(*   checks   a sequence of [id, result, reason], empty if it has none     *)
(*   unknown  the number of UNKNOWN checks it says it has, or None         *)
(*   missing  its critical missing inputs                                  *)
(*   parts    component -> value, None where it says nothing               *)
(*   lineage  field -> source                                              *)
(*   warnings, hash, provider                                              *)
(***************************************************************************)
EXTENDS Integers, FiniteSets, FiniteSetsExt, Functions, Sequences, TLC

CONSTANTS None

\* A function's value, None outside its domain.
At(f, x) == IF x \in DOMAIN f THEN f[x] ELSE None

\* Wrong variant: only the score of an axis is compared.
ScoreDiffers(p, c) == p # None /\ c # None /\ p.score # c.score

\* _score_changes: a delta that is UNKNOWN is no change.
AxisDiffers(p, c) == p # None /\ c # None /\ (p.score # c.score \/ p.coverage # c.coverage)

ScoreChanges(prev, curr) ==
  {axis \in DOMAIN prev.scores \cup DOMAIN curr.scores :
     AxisDiffers(At(prev.scores, axis), At(curr.scores, axis))}

\* _check_map: by id alone, the last check of an id stays.
CheckMap(artifact) ==
  LET ids == {artifact.checks[i].id : i \in DOMAIN artifact.checks}
      last(id) == Max({i \in DOMAIN artifact.checks : artifact.checks[i].id = id})
  IN [id \in ids |-> artifact.checks[last(id)]]

Result(checks, id) == IF id \in DOMAIN checks THEN checks[id].result ELSE "UNKNOWN"

\* _checks_changes
ChecksChanges(prev, curr) ==
  LET p   == CheckMap(prev)
      c   == CheckMap(curr)
      ids == DOMAIN p \cup DOMAIN c
  IN [changed  |-> {id \in ids : Result(p, id) # Result(c, id)},
      new      |-> {id \in ids : Result(p, id) # "UNKNOWN" /\ Result(c, id) = "UNKNOWN"},
      resolved |-> {id \in ids : Result(p, id) = "UNKNOWN" /\ Result(c, id) # "UNKNOWN"}]

\* _component_changes: what is missing counts as UNKNOWN.
ComponentChanges(prev, curr) ==
  {part \in DOMAIN prev.parts \cup DOMAIN curr.parts : At(prev.parts, part) # At(curr.parts, part)}

\* _unknown_count: what the artifact says, else what its checks show.
UnknownCount(artifact) ==
  IF artifact.unknown # None THEN artifact.unknown
  ELSE IF artifact.checks = <<>> THEN None
  ELSE LET checks == CheckMap(artifact)
       IN Cardinality({id \in DOMAIN checks : checks[id].result = "UNKNOWN"})

\* _lineage_changes
LineageChanges(prev, curr) ==
  {f \in DOMAIN prev.lineage \cup DOMAIN curr.lineage : At(prev.lineage, f) # At(curr.lineage, f)}

SymmetricDifference(s, t) == (s \ t) \cup (t \ s)

\* material_change_count
MaterialChanges(prev, curr) ==
  Cardinality({f \in {"hash", "provider"} : prev[f] # curr[f]})
    + Cardinality(ScoreChanges(prev, curr)) + Cardinality(ChecksChanges(prev, curr).changed)
    + Cardinality(ComponentChanges(prev, curr)) + Cardinality(LineageChanges(prev, curr))
    + Cardinality(SymmetricDifference(prev.warnings, curr.warnings))
    + Cardinality(SymmetricDifference(prev.missing, curr.missing))

UnknownPreserved(prev, curr) ==
  \/ UnknownCount(curr) \notin {None, 0}
  \/ curr.missing # {}
  \/ ChecksChanges(prev, curr).new # {}

\* _manual_review_items, by what they are about; new warnings only.
ReviewItems(prev, curr) ==
  {r \in {"hash", "provider", "scores", "checks", "unknown", "missing", "parts", "lineage", "warnings"} :
     CASE r \in {"hash", "provider"} -> prev[r] # curr[r]
       [] r = "scores"    -> ScoreChanges(prev, curr) # {}
       [] r = "checks"    -> ChecksChanges(prev, curr).changed # {}
       [] r = "unknown"   -> ChecksChanges(prev, curr).new # {}
       [] r = "missing"   -> curr.missing \ prev.missing # {}
       [] r = "parts"     -> ComponentChanges(prev, curr) # {}
       [] r = "lineage"   -> LineageChanges(prev, curr) # {}
       [] r = "warnings"  -> curr.warnings \ prev.warnings # {}}

\* build_run_comparison_package
CompareRuns(prev, curr) ==
  IF prev = None \/ curr = None
  THEN [status |-> "UNKNOWN", reason |-> "INPUTS_MISSING", changes |-> 0, reviews |-> {"inputs"}]
  ELSE LET changes == MaterialChanges(prev, curr)
           unknown == UnknownPreserved(prev, curr)
       IN [status  |-> IF changes = 0 /\ ~unknown THEN "PASS" ELSE "PASS_WITH_LIMITATIONS",
           reason  |-> CASE unknown                   -> "UNKNOWN_PRESERVED"
                         [] ~unknown /\ changes = 0   -> "NO_MATERIAL_CHANGE"
                         [] OTHER                     -> "CHANGES_DETECTED",
           changes |-> changes,
           reviews |-> ReviewItems(prev, curr)]

-----------------------------------------------------------------------------
(* The two kinds of artifact a run leaves.  A run is a function from checks,
   <<axis, id>>, to results, with its hash, provider and warnings. *)

AxesOf(run) == {c[1] : c \in DOMAIN run.results}
Having(run, axis, results) == {c \in DOMAIN run.results : c[1] = axis /\ run.results[c] \in results}

\* build_audit_summary: scores and counts, and no checks.
AuditArtifact(run) ==
  [scores   |-> [a \in AxesOf(run) |-> [score    |-> Cardinality(Having(run, a, {"PASS"})),
                                        coverage |-> Cardinality(Having(run, a, {"PASS", "FAIL"}))]],
   checks   |-> <<>>,
   unknown  |-> Cardinality({c \in DOMAIN run.results : run.results[c] = "UNKNOWN"}),
   missing  |-> run.missing,
   parts    |-> [provider_profile |-> run.provider],
   lineage  |-> run.lineage,
   warnings |-> {},
   hash     |-> run.hash,
   provider |-> run.provider]

\* build_output: the checks in the order of the axes, numbered within each, and
\* the scores under a key the comparison does not read.
EngineArtifact(run, order) ==
  [scores   |-> <<>>,
   checks   |-> [i \in 1..Cardinality(DOMAIN run.results) |->
                   [id |-> order[i][2], result |-> run.results[order[i]]]],
   unknown  |-> None,
   missing  |-> {},
   parts    |-> [provider_profile |-> run.provider],
   lineage  |-> run.lineage,
   warnings |-> {},
   hash     |-> None,
   provider |-> run.provider]
=============================================================================
