------------------------------ MODULE Workflow ------------------------------
(***************************************************************************)
(* The workflow package (research/workflow_package.py) and the release     *)
(* manifest (release/manifest.py): what they say of the artifacts they     *)
(* are given.  An artifact is None or [unknown, missing, degraded]: how    *)
(* often its text says UNKNOWN, its critical missing inputs, and whether   *)
(* it shows a degraded provider.                                           *)
(***************************************************************************)
EXTENDS Integers, FiniteSets

CONSTANTS None

Components == {"audit_summary", "explanations", "sensitivity_summary", "business_risk",
               "thesis_status", "decision_record", "portfolio_audit", "investment_memo",
               "run_comparison"}
Required == {"audit_summary"}

\* _component_status
ComponentStatus(c, artifacts) ==
  CASE artifacts[c] = None /\ c \in Required                     -> "MISSING_REQUIRED"
    [] artifacts[c] = None /\ c \notin Required                  -> "MISSING_OPTIONAL"
    [] artifacts[c] # None /\ artifacts[c].unknown > 0           -> "UNKNOWN_PRESENT"
    [] OTHER                                                     -> "READY"

\* _workflow_step
StepStatus(c, artifacts) ==
  [READY |-> "READY", MISSING_OPTIONAL |-> "OPTIONAL_MISSING",
   UNKNOWN_PRESENT |-> "MANUAL_REVIEW", MISSING_REQUIRED |-> "BLOCKED"][ComponentStatus(c, artifacts)]

Present(artifacts) == {c \in Components : artifacts[c] # None}

\* _unknown_summary
WithUnknown(artifacts)    == {c \in Present(artifacts) : artifacts[c].unknown > 0}
CriticalMissing(artifacts) == UNION {artifacts[c].missing : c \in Present(artifacts)}

\* _readiness_summary
Readiness(artifacts) ==
  LET having(s) == {c \in Components : ComponentStatus(c, artifacts) = s}
      audited   == "audit_summary" \in Present(artifacts)
  IN [ready            |-> having("READY"),
      missing_required |-> having("MISSING_REQUIRED"),
      missing_optional |-> having("MISSING_OPTIONAL"),
      for_deep_dive    |-> audited /\ "sensitivity_summary" \in Present(artifacts),
      for_memo         |-> audited /\ "investment_memo" \in Present(artifacts)]

\* Wrong variant: missing inputs are taken from the audit alone.
ReviewItemsOfAudit(artifacts) ==
  {c \in Components : ComponentStatus(c, artifacts) \in {"MISSING_REQUIRED", "UNKNOWN_PRESENT"}}
    \cup (IF artifacts["audit_summary"].missing # {} THEN {"missing_inputs"} ELSE {})
    \cup (IF artifacts["audit_summary"].degraded THEN {"provider"} ELSE {})

\* _manual_review_items, of a package that has its audit.
ReviewItems(artifacts) ==
  {c \in Components : ComponentStatus(c, artifacts) \in {"MISSING_REQUIRED", "UNKNOWN_PRESENT"}}
    \cup (IF CriticalMissing(artifacts) # {} THEN {"missing_inputs"} ELSE {})
    \cup (IF artifacts["audit_summary"].degraded THEN {"provider"} ELSE {})

\* build_workflow_package and _unknown_package, where nothing is trusted.
WorkflowPackage(artifacts) ==
  IF artifacts["audit_summary"] = None
  THEN [status |-> "UNKNOWN", reason |-> "INPUTS_MISSING", reviews |-> {"audit_summary"},
        steps |-> [c \in Components |-> StepStatus(c, artifacts)],
        for_deep_dive |-> FALSE, for_memo |-> FALSE]
  ELSE LET reviews == ReviewItems(artifacts)
       IN [status  |-> IF reviews = {} THEN "PASS" ELSE "PASS_WITH_LIMITATIONS",
           reason  |-> CASE WithUnknown(artifacts) # {}                      -> "UNKNOWN_PRESERVED"
                         [] WithUnknown(artifacts) = {} /\ reviews # {}      -> "MANUAL_REVIEW_REQUIRED"
                         [] OTHER                                            -> "READY",
           reviews |-> reviews,
           steps   |-> [c \in Components |-> StepStatus(c, artifacts)],
           for_deep_dive |-> Readiness(artifacts).for_deep_dive,
           for_memo      |-> Readiness(artifacts).for_memo]

-----------------------------------------------------------------------------
(* The release manifest.  A tree is the set of files that exist; a group of
   capabilities, the set of files it requires. *)

\* _capability_status
Capable(group, tree) == group \subseteq tree

ReleaseStatus(groups, tree, readiness) ==
  CASE \E g \in groups : ~Capable(g, tree)                             -> "BLOCKED"
    [] (\A g \in groups : Capable(g, tree)) /\ readiness = "PASS"      -> "MVP_COMPLETE"
    [] OTHER                                                           -> "MVP_COMPLETE_WITH_LIMITATIONS"

\* The evidence is embedded as it is; nothing looks into it.
QualityEvidence(evidence) == IF evidence = None THEN "NOT_PROVIDED" ELSE evidence

GateStatus(gates) == IF gates = None THEN "NOT_RUN" ELSE gates

\* _manual_review_items
ReleaseReviewItems(groups, index, tree, readiness, gates) ==
  (IF \E g \in groups : ~Capable(g, tree) THEN {"capability"} ELSE {})
    \cup (IF index \subseteq tree THEN {} ELSE {"artifact"})
    \cup (IF readiness = "PASS" THEN {} ELSE {"readiness"})
    \cup (IF GateStatus(gates) \in {"PASS", "OK"} THEN {} ELSE {"gates"})

\* build_release_manifest
ReleaseManifest(groups, index, tree, readiness, gates, evidence) ==
  [status   |-> ReleaseStatus(groups, tree, readiness),
   reviews  |-> ReleaseReviewItems(groups, index, tree, readiness, gates),
   gates    |-> GateStatus(gates),
   evidence |-> QualityEvidence(evidence)]
=============================================================================
