----------------------------- MODULE Workbench ------------------------------
(***************************************************************************)
(* The analyst's workbench: what is computed from the evidence on one      *)
(* company (Evidence), the payload that brings the evidence (Enrichment),  *)
(* and the desks that read the artifacts of a run: portfolio audit,        *)
(* watchlist, thesis, comparison of two runs, workflow package, release    *)
(* manifest and decision journal.  The desks share no memory, only files   *)
(* that arrive in any order, so each behaviour looks at one of them.       *)
(***************************************************************************)
EXTENDS Evidence, Sequences

CONSTANTS
  Parts,                             \* the parts to look at
  Cash, ManyUnknownChecks,
  Holdings, Watched,                 \* holdings lists; priorities of tickers 1 and 2
  Audits, RiskFindings, ThesisFiles, \* what the files of a ticker may say
  Theses, ContextValues(_), Within(_, _),
  Runs, CheckOrder,                  \* what an analysis may result in, and its order
  Artifacts, Packaged,               \* artifacts of the components of a package that vary
  Capabilities, IndexedFiles,        \* the file groups of a release, and its index
  Scopes, Registries, SourceIds,     \* legal scopes, source registries and their sources
  Writers, DecisionType, MaxTears,
  Today, Window, DefaultTtl, Snapshots(_), Provided(_), BondExports, PremiumFiles, AverageFiles, Packs,
  Overrides(_), Filings(_), MaxFilings,
  Companies, Drivers(_),             \* the valuation inputs of a company; what its drivers may be
  Scale

ASSUME WritersAssumption == IsFiniteSet(Writers) /\ "torn" \notin Writers /\ MaxTears \in Nat
\* A thesis file is a list of rules.
ASSUME ThesesAssumption == \A thesis \in Theses : IsFiniteSet(DOMAIN thesis)
\* Every analysis has the same checks, whatever it finds.
ASSUME RunsAssumption ==
  /\ \A r, s \in Runs : DOMAIN r.results = DOMAIN s.results
  /\ \A r \in Runs : /\ IsFiniteSet(DOMAIN r.results) /\ IsFiniteSet(DOMAIN r.lineage)
                     /\ IsFiniteSet(r.missing)
\* An audit draws its status and its usage from the type of the company.
ASSUME AuditsAssumption ==
  \A a \in Audits : /\ a.unknown \in Nat
                     /\ {a.level, a.risk} \subseteq A!Levels
                     /\ a.status = A!ApplicabilityStatus(a.type)
                     /\ a.usage = A!AllowedUsage(a.type)
\* The findings of the business risk are counted.
ASSUME DesksAssumption ==
  RiskFindings \subseteq Nat /\ ManyUnknownChecks \in Nat \ {0} /\ Cash \notin Nat
ASSUME ArtifactsAssumption == \A a \in Artifacts : a.unknown \in Nat
ASSUME RegistriesAssumption == \A r \in Registries \ {None} : DOMAIN r \subseteq SourceIds
\* None is no number, no name of a source, and no scores of an axis.
ASSUME NoneAssumption ==
  None \notin Nat \cup {"manual_override"} \cup [score : Nat, coverage : Nat]

VARIABLES lines, open, recorder, tears, failures,   \* the decision journal
          field, cell, conflicts, facts, updates    \* the payload

P == INSTANCE Portfolio
L == INSTANCE Watchlist
T == INSTANCE Thesis
Q == INSTANCE Comparison
W == INSTANCE Workflow
G == INSTANCE Readiness
J == INSTANCE Journal
N == INSTANCE Enrichment
M == INSTANCE Memo
S == INSTANCE Sensitivity

\* An operator overrides a figure by a figure or by nothing.
ASSUME OverridesAssumption ==
  \A f \in N!Fields \ N!Series : \A spec \in Overrides(f) : spec.value \in Int \cup {None}

\* A filing has a date and the end of a period, and may lack the fiscal year.
ASSUME FilingsAssumption ==
  \A f \in N!Fields : \A x \in Filings(f) : {x.filed, x.end} \subseteq Int /\ x.fy \in Int \cup {None}

\* A company whose valuation is varied is valued by a closed formula; its drivers
\* are numbers, the rates small next to the scale of values, which the first six
\* differences of a rate and a growth divide.
Small(x) == x = None \/ (x \in Int /\ 6 * x <= Scale /\ -6 * x <= Scale)
ASSUME DriversAssumption ==
  /\ Scale \in Nat \ {0} /\ Scale % 60 = 0 /\ None \notin Int
  /\ \A c \in Companies :
       /\ "company_type" \in DOMAIN c
       /\ c.company_type \in {"bank", "insurance", "other_financial"}
       /\ \A f \in {"discount_rate", "long_run_growth", "risk_free_rate", "equity_risk_premium"} :
            /\ f \in DOMAIN c => Small(c[f])
            /\ f \in DOMAIN Drivers(c) => \A x \in Drivers(c)[f] : Small(x)
       /\ "expected_dps" \in DOMAIN c => c.expected_dps \in Int \cup {None}
       /\ "expected_dps" \in DOMAIN Drivers(c) => Drivers(c)["expected_dps"] \subseteq Int

journal == <<lines, open, recorder, tears, failures>>
payload == <<field, cell, conflicts, facts, updates>>
vars    == <<subject, evidence, journal, payload>>

-----------------------------------------------------------------------------
(* Files of the desks *)

Tickers == {1, 2}
\* A holdings list has a column of tickers, of weights and of values.
ASSUME HoldingsAssumption ==
  /\ None \notin Int
  /\ \A rows \in Holdings : /\ IsFiniteSet(DOMAIN rows)
                            /\ \A i \in DOMAIN rows : /\ rows[i].ticker \in Tickers \cup {Cash}
                                                       /\ {rows[i].weight, rows[i].value} \subseteq Int \cup {None}
\* The priorities of a watchlist.
ASSUME WatchedAssumption == \A p \in Watched : \A t \in Tickers : p[t] \in DOMAIN L!PriorityWeight
FileKinds == {"audit", "risk", "thesis"}
FilesFor(kind) == CASE kind = "audit" -> Audits [] kind = "risk" -> RiskFindings [] kind = "thesis" -> ThesisFiles

\* load_artifact_map of both desks: the files of each ticker.
Filed == [t \in Tickers \cup {Cash} |->
            IF t = Cash THEN [audit |-> None, risk |-> None, thesis |-> None]
            ELSE [k \in FileKinds |-> evidence[<<t, k>>]]]

Portfolio == P!BuildPortfolioAudit(subject.rows, Filed)

WatchRows  == [t \in Tickers |-> [ticker |-> t, priority |-> subject.priorities[t]]]
WatchFiles == [t \in Tickers |-> Filed[t]]
Watchlist  == L!AuditWatchlist(WatchRows, WatchFiles)

\* The memo on a ticker, with all other artifacts but perhaps the one of the
\* sensitivity, and the portfolio audit of the same files.
MemoOn(t, fragility) ==
  M!InvestmentMemo(Filed[t],
    [explained |-> TRUE, decided |-> TRUE, worded |-> FALSE, fragility |-> fragility,
     ranged |-> fragility # "UNKNOWN", exposure |-> P!WeightOf(subject.rows, P!Unaudited(subject.rows, Filed))])

\* What the drivers of a company's value are at present.
ValuedOn    == Over(evidence, Over(subject.of, NoInputs))
Sensitivity == S!RunSensitivity(ValuedOn)

ThesisFields(thesis) == {thesis[i].field : i \in DOMAIN thesis} \ {None}

\* The components of a package that do not vary are missing.
Package == Over(evidence, Without(W!Components))

Manifest == W!ReleaseManifest(Capabilities, IndexedFiles,
                              {f \in IndexedFiles \cup UNION Capabilities : evidence.tree[f]},
                              G!ProductionReadiness(subject.argument, subject.scope,
                                                    subject.registry, evidence.sources),
                              evidence.gates, evidence.proof)

-----------------------------------------------------------------------------

DeskInit ==
  \/ /\ "desk" \in Parts
     /\ \E rows \in Holdings, p \in Watched :
          subject = [part |-> "desk", rows |-> rows, priorities |-> p]
     /\ evidence = Without(Tickers \X FileKinds)
  \/ /\ "thesis" \in Parts
     /\ \E thesis \in Theses :
          /\ subject = [part |-> "thesis", of |-> thesis]
          /\ evidence = Without(ThesisFields(thesis))
  \/ /\ "comparison" \in Parts
     /\ subject = [part |-> "comparison"]
     /\ evidence = [previous |-> None, current |-> None]
  \/ /\ "package" \in Parts
     /\ subject = [part |-> "package"]
     /\ evidence = Without(Packaged)
  \/ /\ "release" \in Parts
     /\ \E argument \in {"auto", "PASS", "NOT_READY"}, scope \in Scopes, registry \in Registries :
          subject = [part |-> "release", argument |-> argument, scope |-> scope, registry |-> registry]
     /\ evidence = [tree |-> [f \in IndexedFiles \cup UNION Capabilities |-> FALSE],
                    sources |-> Without(SourceIds), gates |-> None, proof |-> None]
  \/ /\ "sensitivity" \in Parts
     /\ \E company \in Companies :
          /\ subject = [part |-> "sensitivity", of |-> company]
          /\ evidence = Without(DOMAIN Drivers(company))

Init ==
  /\ J!JournalInit
  /\ \/ "evidence" \in Parts /\ EvidenceInit
     \/ DeskInit
     \/ \E part \in {"journal", "payload"} \cap Parts :
          subject = [part |-> part] /\ evidence = <<>>
  /\ IF subject.part = "payload" THEN N!EnrichmentInit
     ELSE field = None /\ cell = None /\ conflicts = {} /\ facts = {} /\ updates = None

\* A file of a ticker is written.
FileArrives ==
  /\ subject.part = "desk"
  /\ \E f \in DOMAIN evidence :
       /\ evidence[f] = None
       /\ \E x \in FilesFor(f[2]) : evidence' = [evidence EXCEPT ![f] = x]
  /\ UNCHANGED <<subject, journal, payload>>

\* The artifacts say more of what the rules of a thesis look at.
ContextGrows ==
  /\ subject.part = "thesis"
  /\ \E f \in DOMAIN evidence :
       /\ evidence[f] = None
       /\ \E x \in ContextValues(f) : evidence' = [evidence EXCEPT ![f] = x]
  /\ UNCHANGED <<subject, journal, payload>>

\* Another analysis of the company.
NextRun ==
  /\ subject.part = "comparison"
  /\ \E run \in Runs : evidence' = [previous |-> evidence.current, current |-> run]
  /\ UNCHANGED <<subject, journal, payload>>

ArtifactArrives ==
  /\ subject.part = "package"
  /\ \E c \in Packaged, a \in Artifacts : evidence[c] = None /\ evidence' = [evidence EXCEPT ![c] = a]
  /\ UNCHANGED <<subject, journal, payload>>

\* A rate, a growth or a dividend gets a value, or another one.
DriverMoves ==
  /\ subject.part = "sensitivity"
  /\ \E d \in DOMAIN evidence : \E x \in Drivers(subject.of)[d] : evidence' = [evidence EXCEPT ![d] = x]
  /\ UNCHANGED <<subject, journal, payload>>

\* A file of the release is written, or a report on it.
ReleaseGrows ==
  /\ subject.part = "release"
  /\ \/ \E f \in DOMAIN evidence.tree :
          ~evidence.tree[f] /\ evidence' = [evidence EXCEPT !.tree[f] = TRUE]
     \/ \E id \in SourceIds, file \in {"marked", "real"} :
          evidence.sources[id] \in {None, "marked"} /\ evidence' = [evidence EXCEPT !.sources[id] = file]
     \/ \E report \in {"gates", "proof"}, verdict \in {"PASS", "FAIL"} :
          evidence[report] = None /\ evidence' = [evidence EXCEPT ![report] = verdict]
  /\ UNCHANGED <<subject, journal, payload>>

Gathers ==
  /\ subject.part \in {"check", "valuation", "risk", "audit"}
  /\ EvidenceStep
  /\ UNCHANGED <<journal, payload>>

Journals ==
  /\ subject.part = "journal"
  /\ J!JournalStep
  /\ UNCHANGED <<subject, evidence, payload>>

Enriches ==
  /\ subject.part = "payload"
  /\ N!EnrichmentStep
  /\ UNCHANGED <<subject, evidence, journal>>

Next ==
  \/ FileArrives \/ ContextGrows \/ NextRun \/ ArtifactArrives \/ ReleaseGrows
  \/ DriverMoves
  \/ Gathers \/ Journals \/ Enriches

Spec == Init /\ [][Next]_vars

-----------------------------------------------------------------------------
(* What holds *)

ConfidenceRank == [UNKNOWN |-> 0, LOW |-> 1, MEDIUM |-> 2, HIGH |-> 3]
RiskRank       == [LOW |-> 0, MEDIUM |-> 1, HIGH |-> 2, UNKNOWN |-> 3]

\* What is not audited weighs as the worst: an audit that arrives, whatever it
\* says, never lowers the confidence in a portfolio nor raises its risk
\* (audit/portfolio_audit.py, the weighted averages).
MissingAuditsWeighWorst ==
  [][subject.part = "desk" =>
       LET before == Portfolio
           after  == Portfolio'
       IN /\ ConfidenceRank[after.confidence] >= ConfidenceRank[before.confidence]
          /\ RiskRank[after.risk] <= RiskRank[before.risk]]_<<subject, evidence>>

\* Among rows of the same priority, one that needs a manual review or data never
\* stands before one that can be researched now (research/watchlist.py, the
\* scores of the queue).
ResearchableFirst ==
  subject.part = "desk" =>
    LET w == Watchlist IN
    \A i, j \in DOMAIN w.queue :
      i < j /\ subject.priorities[w.queue[i]] = subject.priorities[w.queue[j]]
        => (w.bucket[w.queue[j]] = "Researchable Now" => w.bucket[w.queue[i]] = "Researchable Now")

\* What the watchlist calls researchable the portfolio audit does not send to
\* review, except for its provider or its thesis, which the watchlist does not
\* look at; and a memo on a holding that asks for no review is on one that the
\* watchlist calls researchable, that the portfolio audit does not review, in a
\* portfolio with no unaudited weight (research/watchlist.py,
\* audit/portfolio_audit.py, reporting/investment_memo.py).
DesksAgree ==
  subject.part = "desk" =>
    LET bucket == Watchlist.bucket IN
    \A t \in Tickers :
      /\ bucket[t] = "Researchable Now" => P!Reviews(t, Filed[t]) \subseteq {"provider", "thesis"}
      /\ MemoOn(t, "LOW").reason = "GENERATED" =>
           bucket[t] = "Researchable Now" /\ P!Reviews(t, Filed[t]) = {} /\ "unknown" \notin Portfolio.items

\* A thesis gets sharper with the context: a broken one stays broken, a known
\* status is never lost, and a watch metric that triggered is not forgotten
\* (research/thesis.py).
ThesisOnlySharpens ==
  [][subject.part = "thesis" =>
       LET before  == T!ThesisStatus(subject.of, evidence)
           after   == T!ThesisStatus(subject.of, evidence)'
           watched == \E i \in T!Kept(subject.of) :
                        /\ subject.of[i].category = T!WatchMetric
                        /\ T!EvaluateRule(subject.of[i], evidence) = "TRIGGERED"
       IN /\ before = "BROKEN" => after = "BROKEN"
          /\ before # "UNKNOWN" => after # "UNKNOWN"
          /\ before = "WATCH" /\ watched => after \in {"WATCH", "BROKEN"}]_<<subject, evidence>>

AuditOf(run)  == IF run = None THEN None ELSE Q!AuditArtifact(run)
OutputOf(run) == IF run = None THEN None ELSE Q!EngineArtifact(run, CheckOrder)

\* Two audits compare as unchanged only when no check of the later one is
\* unknown, none of its inputs is missing, and on each axis as many checks
\* passed and as many failed as before (research/run_comparison.py).
ComparisonIsHonest ==
  subject.part = "comparison" /\ Q!CompareRuns(AuditOf(evidence.previous), AuditOf(evidence.current)).status = "PASS" =>
    LET p == evidence.previous
        c == evidence.current
    IN /\ c.missing = {}
       /\ \A x \in DOMAIN c.results : c.results[x] # "UNKNOWN"
       /\ \A axis \in Q!AxesOf(c), r \in {"PASS", "FAIL"} :
            Cardinality(Q!Having(p, axis, {r})) = Cardinality(Q!Having(c, axis, {r}))

\* A package that passes has its audit, of a sound provider, and no artifact in
\* it, required or not, says unknown or misses an input; a release that leaves
\* nothing to review is complete, and unless the operator declared it ready,
\* it is used where it may be and no file that its data needs is a template
\* (research/workflow_package.py, release/manifest.py, sources/real_sources.py).
CleanPackagesHideNothing ==
  /\ subject.part = "package" /\ W!WorkflowPackage(Package).status = "PASS" =>
       /\ evidence["audit_summary"] # None /\ ~evidence["audit_summary"].degraded
       /\ \A c \in W!Present(Package) : Package[c].unknown = 0 /\ Package[c].missing = {}
  /\ subject.part = "release" /\ Manifest.reviews = {} =>
       /\ Manifest.status = "MVP_COMPLETE"
       /\ \A f \in DOMAIN evidence.tree : evidence.tree[f]
       /\ evidence.gates = "PASS"
       /\ subject.argument = "auto" =>
            /\ subject.scope.commercial => subject.scope.reviewed
            /\ \A id \in DOMAIN subject.registry :
                 subject.registry[id].required /\ subject.registry[id].type # "live_provider"
                   => evidence.sources[id] = "real"

\* Dividends that grow at the long-run rate are valued LOW or MEDIUM in fragility
\* only if every scenario has a value and the bear case is no better, and the
\* bull case no worse, than the base case; and the base case of the range is the
\* valuation, whatever the model: unless a given rate is zero, which the scenarios
\* take for none (sensitivity/scenario_runner.py, sensitivity/fragility.py).
LowFragilityIsEarned ==
  subject.part = "sensitivity" =>
    LET s == Sensitivity
        v == ValuedOn
    IN s.reason = "COMPUTED" /\ 0 \notin {v.discount_rate, v.long_run_growth} =>
         /\ s.fragility \in {"LOW", "MEDIUM"} /\ S!V!Model(v) = "ddm" /\ v.ddm_growth = None =>
              /\ s.unpriced = {}
              /\ s.range["bear"] <= s.range["base"]
              /\ s.range["base"] <= s.range["bull"]
         /\ S!BaseRate(v) > S!BaseGrowth(v) => s.range["base"] = s.base

\* See Journal.
JournalKeepsDecisions == subject.part = "journal" => J!JournalKeepsDecisions

\* See Enrichment.
FiguresChangeOnRecord ==
  [][subject.part = "payload" => N!FigureChangesOnRecord]_payload

\* See Enrichment.
OperatorOutranksFilings ==
  [][subject.part = "payload" => N!OperatorOutranksFiling]_payload

\* See Enrichment.
AmendmentsNeverRewind ==
  [][subject.part = "payload" => N!AmendmentRewindsNothing]_payload

-----------------------------------------------------------------------------
(* A statement of the repository that the code does not keep *)

\* "If a check becomes UNKNOWN, if the current artifact still contains UNKNOWN
\* checks [...] the comparison returns `PASS_WITH_LIMITATIONS` with
\* `RUN_COMPARISON_UNKNOWN_PRESERVED`" (docs/run_comparison.md), here of two
\* outputs of the engine.
NewUnknownIsReported ==
  subject.part = "comparison" /\ evidence.previous # None =>
    ((\E x \in DOMAIN evidence.current.results : evidence.current.results[x] = "UNKNOWN")
       => Q!CompareRuns(OutputOf(evidence.previous), OutputOf(evidence.current)).reason = "UNKNOWN_PRESERVED")
=============================================================================
