----------------------------- MODULE Readiness ------------------------------
(***************************************************************************)
(* Whether a release is ready for production: the scope it may be used in  *)
(* (governance/legal_scope.py) and the sources of its data                 *)
(* (sources/real_sources.py).                                              *)
(*                                                                         *)
(* A scope is None or [usage, commercial, external, reviewed].  A source   *)
(* of the registry is [type, status, required]; its file is None, "marked" *)
(* when it or its path says that it is a template or synthetic, or "real". *)
(***************************************************************************)
EXTENDS FiniteSets

CONSTANTS None

InternalScopes == {"internal_personal_educational", "internal_non_commercial_prototype"}

\* validate_legal_scope: whatever leaves the internal use has been reviewed.
LegalScopeStatus(scope) ==
  IF scope = None THEN "FAIL"
  ELSE IF /\ scope.usage # None
          /\ scope.usage \in InternalScopes \/ scope.reviewed
          /\ scope.commercial \/ scope.external => scope.reviewed
       THEN "PASS" ELSE "FAIL"

ReadyStatuses    == {"implemented", "implemented_optional", "populated", "real_curated", "live_available"}
NotReadyStatuses == {"template_needs_population", "missing", "synthetic", "unknown"}

\* _looks_template and _file_contains_template_marker
LooksTemplate(source, file) ==
  file = "marked" \/ source.status \in {"template_needs_population", "synthetic"}

\* A live provider is ready by its status alone; a file has to be there, real,
\* and not declared unready.
Ready(source, file) ==
  \/ source.type = "live_provider" /\ source.status \in ReadyStatuses
  \/ file # None /\ ~LooksTemplate(source, file) /\ source.status \notin NotReadyStatuses

\* validate_source_registry for production; the registry is a function, None
\* without a file.
SourceRegistryStatus(registry, files) ==
  IF registry = None THEN "NOT_READY"
  ELSE IF \A id \in DOMAIN registry : registry[id].required => Ready(registry[id], files[id])
       THEN "PASS" ELSE "NOT_READY"

\* The readiness of release-package: computed, or what the operator says.
ProductionReadiness(argument, scope, registry, files) ==
  IF argument # "auto" THEN argument
  ELSE IF LegalScopeStatus(scope) = "PASS" /\ SourceRegistryStatus(registry, files) = "PASS"
       THEN "PASS" ELSE "NOT_READY"
=============================================================================
