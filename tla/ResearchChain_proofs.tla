----------------------- MODULE ResearchChain_proofs ------------------------
(***************************************************************************)
(* Theorems about ResearchChain, for every set of executions and           *)
(* directories and every bound.                                            *)
(***************************************************************************)
EXTENDS ResearchChainInv, FiniteSetTheorems, TLAPS

\* The sets of step names are disjoint where the actions rely on it.
LEMMA StepNames ==
  /\ ArtifactSteps \subseteq StepIds
  /\ \A s \in ArtifactSteps : s \in Kinds /\ NextStep[s] \in ArtifactSteps \cup {"report"}
  /\ "report" \in Kinds
  /\ \A s \in StepIds : Verdicts(s) \subseteq StepStatuses
<1>1. ArtifactSteps \subseteq StepIds
  BY DEF StepIds
<1>2. ASSUME NEW s \in ArtifactSteps
      PROVE  s \in Kinds /\ NextStep[s] \in ArtifactSteps \cup {"report"}
  <2>1. s \in Kinds
    BY ChainAssumption
  <2>2. s \in {"audit", "sensitivity", "explain", "business_risk", "conflict_report", "memo"}
    BY DEF ArtifactSteps, Producers
  <2>3. NextStep[s] \in ArtifactSteps \cup {"report"}
    BY <2>2 DEF NextStep, ArtifactSteps, Producers
  <2> QED BY <2>1, <2>3
<1>3. "report" \in Kinds
  BY ChainAssumption
<1>4. \A s \in StepIds : Verdicts(s) \subseteq StepStatuses
  BY DEF Verdicts, StepStatuses
<1> QED BY <1>1, <1>2, <1>3, <1>4

\* Every path the code makes is a path.
LEMMA PathTypes ==
  ASSUME TypeOK, NEW c \in Chains, NEW k \in Kinds
  PROVE  PathOf(c, k) \in Paths
BY ChainAssumption DEF TypeOK, PathOf, Paths

\* Opening and completing a file keep the set of files well typed.
LEMMA FileTypes ==
  ASSUME files \subseteq Files, NEW p \in Paths, NEW r \in Nat
  PROVE  /\ Truncate(p) => files' \subseteq Files
         /\ WriteOut(p, r) => files' \subseteq Files
<1>1. Without(p) \subseteq Files
  BY DEF Without
<1>2. /\ [path |-> p, whole |-> FALSE, about |-> 0] \in Files
      /\ [path |-> p, whole |-> TRUE, about |-> r] \in Files
  BY DEF Files
<1> QED BY <1>1, <1>2 DEF Truncate, WriteOut

\* A registered row keeps the table well typed.
LEMMA RegisterType ==
  ASSUME artifacts \in [Kinds -> Seq(Rows)],
         NEW k \in Kinds, NEW r \in Nat, NEW p \in Paths, NEW n \in Nat,
         Register(k, r, p, n)
  PROVE  artifacts' \in [Kinds -> Seq(Rows)]
<1> DEFINE x == [run |-> r, path |-> p, at |-> n]
<1>1. x \in Rows
  BY DEF Rows
<1>2. Append(artifacts[k], x) \in Seq(Rows)
  BY <1>1
<1>3. artifacts' = [artifacts EXCEPT ![k] = Append(@, x)]
  BY DEF Register
<1> QED BY <1>2, <1>3

\* latest_artifact returns a row number or 0.
LEMMA LatestType ==
  ASSUME TypeOK, NEW k \in Kinds
  PROVE  LatestArtifact(k) \subseteq Nat
<1>1. artifacts[k] \in Seq(Rows)
  BY DEF TypeOK, IndexTypeOK
<1>2. Present(k) \subseteq Nat
  BY <1>1 DEF Present
<1> QED BY <1>2 DEF LatestArtifact

\* What the memo loads is a run or 0.
LEMMA LoadedType ==
  ASSUME TypeOK, NEW k \in Kinds, NEW i \in Nat
  PROVE  Loaded(k, i) \subseteq Nat
BY DEF Loaded, TypeOK, IndexTypeOK, Files

-----------------------------------------------------------------------------
(* Type correctness *)

Locations == {"idle", "report"} \cup StepIds \cup Ended
Phases == {"start", "writing", "insert"}

\* Ending a step keeps the positions and statuses well typed.
LEMMA FinishType ==
  ASSUME TypeOK, NEW c \in Chains, NEW s \in StepIds, NEW st \in StepStatuses,
         NEW next \in Locations, Finish(c, s, st, next)
  PROVE  /\ at' \in [Chains -> Locations]
         /\ phase' \in [Chains -> Phases]
         /\ status' \in [Chains -> [StepIds -> StepStatuses]]
<1>1. at' \in [Chains -> Locations]
  BY DEF TypeOK, Finish, Locations
<1>2. phase' \in [Chains -> Phases]
  BY DEF TypeOK, Finish, Phases
<1>3. status[c] \in [StepIds -> StepStatuses]
  BY DEF TypeOK
<1>4. [status[c] EXCEPT ![s] = st] \in [StepIds -> StepStatuses]
  BY <1>3
<1>5. status' = [status EXCEPT ![c] = [status[c] EXCEPT ![s] = st]]
  BY DEF Finish
<1>6. status' \in [Chains -> [StepIds -> StepStatuses]]
  BY <1>4, <1>5 DEF TypeOK
<1> QED BY <1>1, <1>2, <1>6

\* One action at a time, the types are kept.
LEMMA TypeStep == TypeOK /\ MemoOK /\ [Next]_vars => TypeOK'
<1> SUFFICES ASSUME TypeOK, MemoOK, [Next]_vars PROVE TypeOK'
  OBVIOUS
<1> USE ChainAssumption, MaxClockIsNat DEF Locations, Phases, StepStatuses
<1>names. /\ {"payload", "engine", "persist", "audit"} \subseteq StepIds
          /\ {"report", "engine", "persist", "audit"} \cup Ended \subseteq Locations
          /\ {"PASS", "FAIL", "SKIPPED"} \subseteq StepStatuses
  BY DEF StepIds, Preparation, ArtifactSteps, Producers, Ended
<1>1. ASSUME NEW c \in Chains, Begin(c) PROVE TypeOK'
  BY <1>1 DEF Begin, TypeOK, IndexTypeOK, indexVars, countVars, StepIds, Preparation
<1>2. ASSUME NEW c \in Chains, PayloadBuilt(c) PROVE TypeOK'
  <2>1. warned' \in [Chains -> BOOLEAN] /\ limits' \in Nat
    BY <1>2 DEF PayloadBuilt, Limited, TypeOK
  <2>2. Finish(c, "payload", "PASS", "engine")
    BY <1>2 DEF PayloadBuilt
  <2>3. UNCHANGED <<indexVars, failed, run, stamp, resolved, inputs, package, outputs, holder,
                    nextRun, faults, kills, deletes>>
    BY <1>2 DEF PayloadBuilt
  <2> QED BY <2>1, <2>2, <2>3, <1>names, FinishType DEF TypeOK, IndexTypeOK, indexVars
<1>3. ASSUME NEW c \in Chains, EngineRuns(c) PROVE TypeOK'
  <2>1. Finish(c, "engine", "PASS", "persist")
    BY <1>3 DEF EngineRuns
  <2> QED BY <2>1, <1>3, <1>names, FinishType
          DEF EngineRuns, TypeOK, IndexTypeOK, indexVars, countVars
<1>4. ASSUME NEW c \in Chains, PreparationFails(c) PROVE TypeOK'
  <2>1. at[c] \in StepIds /\ Finish(c, at[c], "FAIL", "report") /\ faults' \in Nat
    BY <1>4, <1>names DEF PreparationFails, Fault, TypeOK
  <2> QED BY <2>1, <1>4, <1>names, FinishType
          DEF PreparationFails, TypeOK, IndexTypeOK, indexVars
<1>5. ASSUME NEW c \in Chains, RunCreated(c) PROVE TypeOK'
  BY <1>5 DEF RunCreated, TypeOK, IndexTypeOK, indexVars, countVars
<1>6. ASSUME NEW c \in Chains, OutputSaved(c) PROVE TypeOK'
  <2>1. Finish(c, "persist", "PASS", "audit")
    BY <1>6 DEF OutputSaved
  <2> QED BY <2>1, <1>6, <1>names, FinishType
          DEF OutputSaved, TypeOK, IndexTypeOK, indexVars, countVars
<1>7. ASSUME NEW c \in Chains, PersistFails(c) PROVE TypeOK'
  <2>1. Finish(c, "persist", "FAIL", "report")
    BY <1>7 DEF PersistFails
  <2>2. faults' \in Nat /\ holder' \in Chains \cup {NoChain}
    BY <1>7 DEF PersistFails, Fault, Busy, TypeOK
  <2>3. UNCHANGED <<indexVars, failed, warned, run, stamp, resolved, inputs, package,
                    outputs, nextRun, limits, kills, deletes>>
    BY <1>7 DEF PersistFails
  <2> QED BY <2>1, <2>2, <2>3, <1>names, FinishType DEF TypeOK, IndexTypeOK, indexVars
<1>8. ASSUME NEW c \in Chains, NEW s \in Kinds, StartWriting(c, s) PROVE TypeOK'
  <2>1. files' \subseteq Files
    BY <1>8, PathTypes, FileTypes DEF StartWriting, TypeOK, IndexTypeOK
  <2> QED BY <2>1, <1>8 DEF StartWriting, TypeOK, IndexTypeOK, countVars
<1>9. ASSUME NEW c \in Chains, FileWritten(c) PROVE TypeOK'
  <2>1. at[c] \in Kinds
    BY <1>9, StepNames DEF FileWritten
  <2>2. About(c, at[c]) \in Nat
    <3>1. CASE at[c] = "memo"
      <4>1. inputs[c] \in Seq(Nat) /\ Len(inputs[c]) = 4
        BY <1>9, <3>1 DEF FileWritten, MemoOK, MemoInputs, TypeOK
      <4> QED BY <4>1, <3>1 DEF About
    <3>2. CASE at[c] # "memo"
      BY <3>2 DEF About, TypeOK
    <3> QED BY <3>1, <3>2
  <2>3. files' \subseteq Files
    BY <1>9, <2>1, <2>2, PathTypes, FileTypes DEF FileWritten, TypeOK, IndexTypeOK
  <2> QED BY <2>3, <1>9 DEF FileWritten, TypeOK, IndexTypeOK, countVars
<1>10. ASSUME NEW c \in Chains, at[c] \in ArtifactSteps, RegisterArtifact(c)
       PROVE  artifacts' \in [Kinds -> Seq(Rows)]
  <2>1. at[c] \in Kinds
    BY <1>10, StepNames
  <2> QED BY <2>1, <1>10, PathTypes, RegisterType DEF RegisterArtifact, TypeOK, IndexTypeOK
<1>11. ASSUME NEW c \in Chains, Indexed(c) PROVE TypeOK'
  <2>1. at[c] \in StepIds /\ NextStep[at[c]] \in Locations
    BY <1>11, StepNames DEF Indexed
  <2>2. PICK st \in Verdicts(at[c]) :
          Limited(st # "PASS") /\ Finish(c, at[c], st, NextStep[at[c]])
    BY <1>11 DEF Indexed
  <2>3. st \in StepStatuses
    BY <2>1, <2>2, StepNames
  <2>4. limits' \in Nat
    BY <2>2 DEF Limited, TypeOK
  <2>5. artifacts' \in [Kinds -> Seq(Rows)]
    BY <1>10, <1>11 DEF Indexed
  <2>6. UNCHANGED <<files, clock, failed, warned, run, stamp, resolved, inputs, package,
                    outputs, holder, nextRun, faults, kills, deletes>>
    BY <1>11 DEF Indexed
  <2>7. /\ at' \in [Chains -> Locations]
        /\ phase' \in [Chains -> Phases]
        /\ status' \in [Chains -> [StepIds -> StepStatuses]]
    BY <2>1, <2>2, <2>3, FinishType
  <2> QED BY <2>4, <2>5, <2>6, <2>7 DEF TypeOK, IndexTypeOK
<1>12. ASSUME NEW c \in Chains, StepFails(c) PROVE TypeOK'
  <2>1. at[c] \in StepIds /\ NextStep[at[c]] \in Locations
    BY <1>12, StepNames DEF StepFails
  <2>2. Finish(c, at[c], "FAIL", NextStep[at[c]])
    BY <1>12 DEF StepFails
  <2>3. artifacts' \in [Kinds -> Seq(Rows)]
    <3>1. at[c] \in ArtifactSteps /\ (UNCHANGED artifacts \/ RegisterArtifact(c))
      BY <1>12 DEF StepFails
    <3> QED BY <3>1, <1>10 DEF TypeOK, IndexTypeOK
  <2>4. faults' \in Nat
    BY <1>12 DEF StepFails, Fault, Busy, TypeOK
  <2>5. failed' \in [Chains -> SUBSET ArtifactSteps]
    BY <1>12 DEF StepFails, TypeOK
  <2>6. UNCHANGED <<files, clock, warned, run, stamp, resolved, inputs, package,
                    outputs, holder, nextRun, limits, kills, deletes>>
    BY <1>12 DEF StepFails
  <2> QED BY <2>1, <2>2, <2>3, <2>4, <2>5, <2>6, <1>names, FinishType DEF TypeOK, IndexTypeOK
<1>13. ASSUME NEW n \in 1..Len(MemoInputs) PROVE MemoInputs[n] \in Kinds
  <2>1. MemoInputs[n] \in {"audit", "explain", "sensitivity", "business_risk"}
    BY DEF MemoInputs
  <2> QED BY <2>1 DEF ArtifactSteps, Producers
<1>14. ASSUME NEW c \in Chains, ResolveInput(c) PROVE TypeOK'
  <2>1. resolved[c] \in Seq(Nat)
    BY DEF TypeOK
  <2>2. Len(resolved[c]) + 1 \in 1..Len(MemoInputs)
    BY <2>1, <1>14 DEF ResolveInput, MemoInputs
  <2>3. LatestArtifact(MemoInputs[Len(resolved[c]) + 1]) \subseteq Nat
    BY <2>2, <1>13, LatestType
  <2>4. PICK i \in Nat : resolved' = [resolved EXCEPT ![c] = Append(@, i)]
    BY <2>3, <1>14 DEF ResolveInput
  <2>5. Append(resolved[c], i) \in Seq(Nat)
    BY <2>1, <2>4
  <2>6. resolved' \in [Chains -> Seq(Nat)]
    BY <2>4, <2>5 DEF TypeOK
  <2>7. faults' \in Nat
    BY <1>14 DEF ResolveInput, Fault, TypeOK
  <2> QED BY <2>6, <2>7, <1>14 DEF ResolveInput, TypeOK, IndexTypeOK, indexVars
<1>15. ASSUME NEW c \in Chains, MemoSkipped(c) PROVE TypeOK'
  <2>1. Finish(c, "memo", "SKIPPED", "report") /\ "memo" \in StepIds
    BY <1>15 DEF MemoSkipped, StepIds, ArtifactSteps
  <2> QED BY <2>1, <1>15, <1>names, FinishType
          DEF MemoSkipped, TypeOK, IndexTypeOK, indexVars, countVars
<1>16. ASSUME NEW c \in Chains, LoadInput(c) PROVE TypeOK'
  <2> DEFINE n == Len(inputs[c]) + 1
  <2>1. inputs[c] \in Seq(Nat) /\ resolved[c] \in Seq(Nat) /\ inputs \in [Chains -> Seq(Nat)]
    BY DEF TypeOK
  <2>2. n \in 1..Len(MemoInputs) /\ n \in 1..Len(resolved[c])
    BY <2>1, <1>16 DEF LoadInput, AllResolved, MemoInputs
  <2>3. PICK r \in Loaded(MemoInputs[n], resolved[c][n]) :
          inputs' = [inputs EXCEPT ![c] = Append(@, r)]
    BY <1>16 DEF LoadInput
  <2>4. resolved[c][n] \in Nat
    BY <2>1, <2>2
  <2>5. r \in Nat
    BY <2>2, <2>3, <2>4, <1>13, LoadedType
  <2>6. Append(inputs[c], r) \in Seq(Nat)
    BY <2>1, <2>5
  <2>7. inputs' \in [Chains -> Seq(Nat)]
    BY <2>1, <2>3, <2>6
  <2> QED BY <2>7, <1>16 DEF LoadInput, TypeOK, IndexTypeOK, indexVars, countVars
<1>17. ASSUME NEW c \in Chains, LoadRaises(c) PROVE TypeOK'
  <2>1. Finish(c, "memo", "FAIL", "report") /\ "memo" \in ArtifactSteps /\ "memo" \in StepIds
    BY <1>17 DEF LoadRaises, StepIds, ArtifactSteps
  <2>2. failed' \in [Chains -> SUBSET ArtifactSteps]
    BY <1>17, <2>1 DEF LoadRaises, TypeOK
  <2>3. UNCHANGED <<indexVars, warned, run, stamp, resolved, inputs, package,
                    outputs, holder, nextRun, countVars>>
    BY <1>17 DEF LoadRaises
  <2> QED BY <2>1, <2>2, <2>3, <1>names, FinishType
          DEF TypeOK, IndexTypeOK, indexVars, countVars
<1>18. ASSUME NEW c \in Chains, StartReport(c) PROVE TypeOK'
  <2>1. files' \subseteq Files
    BY <1>18, StepNames, PathTypes, FileTypes DEF StartReport, TypeOK, IndexTypeOK
  <2>2. Overall(c) \in {"PASS", "PASS_WITH_LIMITATIONS", "FAIL"}
    BY DEF Overall
  <2>3. UnknownChecks(EngineOutput) \in Nat
    BY EngineOutputFinite, FS_Subset, FS_CardinalityType DEF UnknownChecks
  <2>4. package' \in [Chains -> Packages]
    BY <1>18, <2>2, <2>3 DEF StartReport, TypeOK, Packages
  <2> QED BY <2>1, <2>4, <1>18 DEF StartReport, TypeOK, IndexTypeOK, countVars
<1>19. ASSUME NEW c \in Chains, ReportWritten(c) PROVE TypeOK'
  <2>1. package[c].run \in Nat
    BY DEF TypeOK, Packages
  <2>2. files' \subseteq Files
    BY <1>19, <2>1, StepNames, PathTypes, FileTypes DEF ReportWritten, TypeOK, IndexTypeOK
  <2> QED BY <2>2, <1>19 DEF ReportWritten, TypeOK, IndexTypeOK, countVars
<1>20. ASSUME NEW c \in Chains, NEW how \in Ended, Leave(c, how)
       PROVE  at' \in [Chains -> Locations] /\ holder' \in Chains \cup {NoChain}
  BY <1>20, <1>names DEF Leave, TypeOK
<1>21. ASSUME NEW c \in Chains, ReportRegistered(c) PROVE TypeOK'
  <2>1. package[c].run \in Nat
    BY DEF TypeOK, Packages
  <2>2. artifacts' \in [Kinds -> Seq(Rows)]
    BY <1>21, <2>1, StepNames, PathTypes, RegisterType DEF ReportRegistered, TypeOK, IndexTypeOK
  <2>3. Leave(c, "done") /\ "done" \in Ended
    BY <1>21 DEF ReportRegistered, Ended
  <2> QED BY <2>2, <2>3, <1>20, <1>21 DEF ReportRegistered, TypeOK, IndexTypeOK, countVars
<1>22. ASSUME NEW c \in Chains, ReportNotRegistered(c) PROVE TypeOK'
  <2>1. faults' \in Nat
    BY <1>22 DEF ReportNotRegistered, Fault, TypeOK
  <2>2. Leave(c, "done") /\ "done" \in Ended
    BY <1>22 DEF ReportNotRegistered, Ended
  <2> QED BY <2>1, <2>2, <1>20, <1>22 DEF ReportNotRegistered, TypeOK, IndexTypeOK, indexVars
<1>23. ASSUME NEW c \in Chains PROVE [package EXCEPT ![c] = NoPackage] \in [Chains -> Packages]
  BY DEF TypeOK, Packages, NoPackage
<1>24. ASSUME NEW c \in Chains, ReportRaises(c) PROVE TypeOK'
  <2>1. faults' \in Nat
    BY <1>24 DEF ReportRaises, Fault, TypeOK
  <2>2. Leave(c, "raised") /\ "raised" \in Ended
    BY <1>24 DEF ReportRaises, Ended
  <2> QED BY <2>1, <2>2, <1>20, <1>23, <1>24
          DEF ReportRaises, TypeOK, IndexTypeOK, indexVars
<1>25. ASSUME NEW c \in Chains, Kill(c) PROVE TypeOK'
  <2>1. Leave(c, "killed") /\ "killed" \in Ended
    BY <1>25 DEF Kill, Ended
  <2> QED BY <2>1, <1>20, <1>23, <1>25 DEF Kill, TypeOK, IndexTypeOK, indexVars
<1>26. ASSUME Delete PROVE TypeOK'
  BY <1>26 DEF Delete, DeleteFile, TypeOK, IndexTypeOK, chainVars
<1>27. ASSUME TimePasses PROVE TypeOK'
  BY <1>27 DEF TimePasses, Tick, TypeOK, IndexTypeOK, chainVars, countVars
<1>28. ASSUME UNCHANGED vars PROVE TypeOK'
  BY <1>28 DEF vars, TypeOK, IndexTypeOK, indexVars, chainVars, countVars
<1>29. ASSUME NEW c \in Chains, Produce(c) PROVE TypeOK'
  BY <1>29, <1>8, StepNames DEF Produce, ArtifactSteps
<1>30. ASSUME NEW c \in Chains, WriteMemo(c) PROVE TypeOK'
  BY <1>30, <1>8, StepNames DEF WriteMemo, ArtifactSteps
<1> QED
  BY <1>1, <1>2, <1>3, <1>4, <1>5, <1>6, <1>7, <1>9, <1>11, <1>12, <1>14, <1>15, <1>16, <1>17,
     <1>18, <1>19, <1>21, <1>22, <1>24, <1>25, <1>26, <1>27, <1>28, <1>29, <1>30
     DEF Next, ChainStep, Idle

-----------------------------------------------------------------------------
(* What a step does to the position of an execution, its run and its result *)

coreVars == <<at, phase, status, run, outputs, nextRun, package>>

\* An execution begins or computes a payload or its output.
Prepares(c) ==
  /\ \/ at[c] = "idle" /\ at' = [at EXCEPT ![c] = "payload"] /\ UNCHANGED <<phase, status>>
     \/ at[c] = "payload" /\ Finish(c, "payload", "PASS", "engine")
     \/ at[c] = "engine" /\ Finish(c, "engine", "PASS", "persist")
  /\ UNCHANGED <<run, outputs, nextRun, package>>

\* A step that the others depend on fails.
GivesUp(c) ==
  /\ at[c] \in Preparation
  /\ Finish(c, at[c], "FAIL", "report")
  /\ UNCHANGED <<run, outputs, nextRun, package>>

DrawsRun(c) ==
  /\ at[c] = "persist"
  /\ run' = [run EXCEPT ![c] = nextRun]
  /\ nextRun' = nextRun + 1
  /\ phase' = [phase EXCEPT ![c] = "insert"]
  /\ UNCHANGED <<at, status, outputs, package>>

Publishes(c) ==
  /\ at[c] = "persist" /\ phase[c] = "insert"
  /\ outputs' = outputs \cup {run[c]}
  /\ Finish(c, "persist", "PASS", "audit")
  /\ UNCHANGED <<run, nextRun, package>>

\* Half-way through a step that writes a file.
Advances(c) ==
  /\ at[c] \in ArtifactSteps \cup {"report"}
  /\ at[c] = "report" => phase[c] # "start"
  /\ at[c] = "memo" => Len(inputs[c]) = Len(MemoInputs)
  /\ \E ph \in Phases : phase' = [phase EXCEPT ![c] = ph]
  /\ UNCHANGED <<at, status, run, outputs, nextRun, package>>

\* One of the six later steps ends.
EndsStep(c) ==
  /\ at[c] \in ArtifactSteps
  /\ \E st \in StepStatuses :
       /\ at[c] = "memo" \/ st # "SKIPPED"
       /\ Finish(c, at[c], st, NextStep[at[c]])
  /\ UNCHANGED <<run, outputs, nextRun, package>>

Concludes(c) ==
  /\ at[c] = "report" /\ phase[c] = "start"
  /\ \E x \in Packages : x.status = Overall(c) /\ package' = [package EXCEPT ![c] = x]
  /\ phase' = [phase EXCEPT ![c] = "writing"]
  /\ UNCHANGED <<at, status, run, outputs, nextRun>>

Returns(c) ==
  /\ at[c] = "report" /\ phase[c] = "insert"
  /\ at' = [at EXCEPT ![c] = "done"]
  /\ UNCHANGED <<phase, status, run, outputs, nextRun, package>>

IsLost(c) ==
  /\ Running(c)
  /\ \E how \in {"raised", "killed"} : at' = [at EXCEPT ![c] = how]
  /\ package' = [package EXCEPT ![c] = NoPackage]
  /\ UNCHANGED <<phase, status, run, outputs, nextRun>>

CoreStep(c) ==
  \/ Prepares(c)
  \/ GivesUp(c)
  \/ DrawsRun(c)
  \/ Publishes(c)
  \/ Advances(c)
  \/ EndsStep(c)
  \/ Concludes(c)
  \/ Returns(c)
  \/ IsLost(c)

\* Every action is one of these to the core, or does nothing to it.
LEMMA CoreSteps ==
  ASSUME TypeOK, MemoOK, [Next]_vars
  PROVE  UNCHANGED coreVars \/ \E c \in Chains : CoreStep(c)
<1> USE DEF coreVars
<1>1. ASSUME NEW c \in Chains, Begin(c) \/ PayloadBuilt(c) \/ EngineRuns(c)
      PROVE  Prepares(c)
  BY <1>1 DEF Begin, PayloadBuilt, EngineRuns, Prepares
<1>2. ASSUME NEW c \in Chains, PreparationFails(c) \/ PersistFails(c) PROVE GivesUp(c)
  BY <1>2 DEF PreparationFails, PersistFails, GivesUp, Preparation
<1>3. ASSUME NEW c \in Chains, RunCreated(c) PROVE DrawsRun(c)
  BY <1>3 DEF RunCreated, DrawsRun
<1>4. ASSUME NEW c \in Chains, OutputSaved(c) PROVE Publishes(c)
  BY <1>4 DEF OutputSaved, Publishes
<1>5. ASSUME NEW c \in Chains, Produce(c) PROVE Advances(c)
  BY <1>5 DEF Produce, StartWriting, Advances, ArtifactSteps, Producers, Phases
<1>6. ASSUME NEW c \in Chains, WriteMemo(c) PROVE Advances(c)
  BY <1>6 DEF WriteMemo, AllResolved, StartWriting, Advances, ArtifactSteps, Phases
<1>7. ASSUME NEW c \in Chains, FileWritten(c) PROVE Advances(c)
  BY <1>7 DEF FileWritten, MemoOK, Advances, ArtifactSteps, Producers, Phases
<1>8. ASSUME NEW c \in Chains, ReportWritten(c) PROVE Advances(c)
  BY <1>8 DEF ReportWritten, Advances, ArtifactSteps, Phases
<1>9. ASSUME NEW c \in Chains, Indexed(c) PROVE EndsStep(c)
  <2>1. PICK st \in Verdicts(at[c]) : Finish(c, at[c], st, NextStep[at[c]])
    BY <1>9 DEF Indexed
  <2>2. st \in StepStatuses \ {"SKIPPED"}
    BY <2>1 DEF Verdicts, StepStatuses
  <2> QED BY <1>9, <2>1, <2>2 DEF Indexed, EndsStep
<1>10. ASSUME NEW c \in Chains, StepFails(c) PROVE EndsStep(c)
  BY <1>10 DEF StepFails, EndsStep, StepStatuses
<1>11. ASSUME NEW c \in Chains, MemoSkipped(c) \/ LoadRaises(c) PROVE EndsStep(c)
  BY <1>11 DEF MemoSkipped, LoadRaises, AllResolved, EndsStep, StepStatuses, ArtifactSteps,
               NextStep
<1>12. ASSUME NEW c \in Chains, StartReport(c) PROVE Concludes(c)
  <2>1. package'[c] \in Packages
    BY <1>12, TypeStep DEF TypeOK, Next, ChainStep
  <2>2. package' = [package EXCEPT ![c] = package'[c]] /\ package'[c].status = Overall(c)
    BY <1>12 DEF StartReport, TypeOK
  <2> QED BY <1>12, <2>1, <2>2 DEF StartReport, Concludes
<1>13. ASSUME NEW c \in Chains, ReportRegistered(c) \/ ReportNotRegistered(c) PROVE Returns(c)
  BY <1>13 DEF ReportRegistered, ReportNotRegistered, Leave, Returns
<1>14. ASSUME NEW c \in Chains, ReportRaises(c) \/ Kill(c) PROVE IsLost(c)
  BY <1>14 DEF ReportRaises, Kill, Leave, IsLost, Running, Ended
<1>15. ASSUME NEW c \in Chains, ResolveInput(c) \/ LoadInput(c) PROVE UNCHANGED coreVars
  BY <1>15 DEF ResolveInput, LoadInput
<1>16. ASSUME Delete \/ TimePasses \/ UNCHANGED vars PROVE UNCHANGED coreVars
  BY <1>16 DEF Delete, TimePasses, vars, chainVars
<1> QED
  BY <1>1, <1>2, <1>3, <1>4, <1>5, <1>6, <1>7, <1>8, <1>9, <1>10, <1>11, <1>12, <1>13, <1>14,
     <1>15, <1>16 DEF Next, ChainStep, Idle, CoreStep

-----------------------------------------------------------------------------
(* The parts of the invariant that are about the core *)

CoreInv == RunsOK /\ StageOK /\ StatusOK /\ PackageOK

\* What a step changes in the state of the executions that do not take it.
LEMMA OthersKept ==
  ASSUME TypeOK, NEW c \in Chains, CoreStep(c), NEW d \in Chains \ {c}
  PROVE  /\ at'[d] = at[d] /\ phase'[d] = phase[d] /\ status'[d] = status[d]
         /\ run'[d] = run[d] /\ package'[d] = package[d]
BY DEF TypeOK, CoreStep, Prepares, GivesUp, DrawsRun, Publishes, Advances, EndsStep, Concludes,
       Returns, IsLost, Finish

\* Runs stay unique.
LEMMA RunsStep ==
  ASSUME TypeOK, CoreInv, NEW c \in Chains, CoreStep(c)
  PROVE  RunsOK'
<1>1. CASE DrawsRun(c)
  BY <1>1 DEF DrawsRun, TypeOK, CoreInv, RunsOK
<1>2. CASE Publishes(c)
  <2>1. run[c] \in 1..(nextRun - 1)
    BY <1>2 DEF Publishes, TypeOK, CoreInv, RunsOK, StageOK
  <2> QED BY <1>2, <2>1 DEF Publishes, TypeOK, CoreInv, RunsOK
<1>3. CASE UNCHANGED <<run, outputs, nextRun>>
  BY <1>3 DEF CoreInv, RunsOK
<1> QED
  BY <1>1, <1>2, <1>3
     DEF CoreStep, Prepares, GivesUp, Advances, EndsStep, Concludes, Returns, IsLost

\* Whether a run is in the database changes when its output is committed only.
LEMMA PersistedStep ==
  ASSUME TypeOK, CoreInv, NEW c \in Chains, CoreStep(c)
  PROVE  /\ \A d \in Chains \ {c} : Persisted(d)' <=> Persisted(d)
         /\ Publishes(c) => Persisted(c)'
         /\ ~Publishes(c) => (Persisted(c)' <=> Persisted(c))
<1>1. CASE DrawsRun(c)
  <2>1. nextRun \notin outputs
    BY DEF TypeOK, CoreInv, RunsOK
  <2>2. ~Persisted(c) /\ ~Persisted(c)' /\ ~Publishes(c)
    <3>1. ~Persisted(c)
      BY <1>1 DEF DrawsRun, CoreInv, StageOK
    <3>2. run'[c] = nextRun /\ outputs' = outputs
      BY <1>1 DEF DrawsRun, TypeOK
    <3>3. at' = at
      BY <1>1 DEF DrawsRun
    <3>4. ~Publishes(c)
      BY <1>1, <3>3 DEF Publishes, Finish, TypeOK, DrawsRun
    <3> QED BY <2>1, <3>1, <3>2, <3>4 DEF Persisted
  <2>3. \A d \in Chains \ {c} : Persisted(d)' <=> Persisted(d)
    BY <1>1, OthersKept DEF Persisted, DrawsRun
  <2> QED BY <2>2, <2>3
<1>2. CASE Publishes(c)
  <2>1. run[c] # 0 /\ run' = run /\ outputs' = outputs \cup {run[c]}
    BY <1>2 DEF Publishes, CoreInv, StageOK
  <2>2. \A d \in Chains \ {c} : run[d] # run[c]
    BY <2>1 DEF CoreInv, RunsOK
  <2> QED BY <1>2, <2>1, <2>2 DEF Persisted
<1>3. CASE UNCHANGED <<run, outputs>>
  BY <1>3 DEF Persisted, Publishes, CoreInv, StageOK
<1> QED
  BY <1>1, <1>2, <1>3
     DEF CoreStep, Prepares, GivesUp, Advances, EndsStep, Concludes, Returns, IsLost

\* StageOK, StatusOK and PackageOK for one execution.
StageOf(c) ==
  /\ at[c] \in {"idle", "payload", "engine"} => run[c] = 0
  /\ at[c] = "persist" => ~Persisted(c)
  /\ at[c] = "persist" /\ phase[c] = "insert" => run[c] # 0
  /\ at[c] \in {"idle"} \cup Preparation => \A s \in Preparation : status[c][s] # "FAIL"
  /\ at[c] \in ArtifactSteps => Persisted(c)
  /\ at[c] \in {"report", "done"} =>
       (Persisted(c) <=> \A s \in Preparation : status[c][s] # "FAIL")
  /\ Persisted(c) => \A s \in Preparation : status[c][s] # "FAIL"

StatusOf(c) ==
  \A p \in Producers :
    /\ Persisted(c) /\ at[c] \in After(p) \ {"raised", "killed"} => status[c][p] # "SKIPPED"
    /\ ~Persisted(c) => status[c][p] = "SKIPPED"

PackageOf(c) ==
  (at[c] = "report" /\ phase[c] # "start") \/ at[c] = "done" =>
    (package[c].status = "FAIL" <=> ~Persisted(c))

LEMMA PartsByExecution ==
  /\ StageOK <=> \A c \in Chains : StageOf(c)
  /\ StatusOK <=> \A c \in Chains : StatusOf(c)
  /\ PackageOK <=> \A c \in Chains : PackageOf(c)
BY DEF StageOK, StageOf, StatusOK, StatusOf, PackageOK, PackageOf

\* A step changes nothing of this for the executions that do not take it.
LEMMA OtherParts ==
  ASSUME TypeOK, CoreInv, NEW c \in Chains, CoreStep(c), NEW d \in Chains \ {c}
  PROVE  StageOf(d)' /\ StatusOf(d)' /\ PackageOf(d)'
<1>1. /\ at'[d] = at[d] /\ phase'[d] = phase[d] /\ status'[d] = status[d]
      /\ run'[d] = run[d] /\ package'[d] = package[d]
  BY OthersKept
<1>2. Persisted(d)' <=> Persisted(d)
  BY PersistedStep
<1>3. StageOf(d) /\ StatusOf(d) /\ PackageOf(d)
  BY PartsByExecution DEF CoreInv
<1>4. StageOf(d)'
  BY <1>1, <1>2, <1>3 DEF StageOf
<1>5. StatusOf(d)'
  BY <1>1, <1>2, <1>3 DEF StatusOf, After
<1>6. PackageOf(d)'
  BY <1>1, <1>2, <1>3 DEF PackageOf
<1> QED BY <1>4, <1>5, <1>6

\* Ending step s of an execution changes its status of s alone.
LEMMA FinishEffect ==
  ASSUME TypeOK, NEW c \in Chains, NEW s \in StepIds, NEW st, NEW next, Finish(c, s, st, next)
  PROVE  /\ at'[c] = next /\ phase'[c] = "start" /\ status'[c][s] = st
         /\ \A t \in StepIds \ {s} : status'[c][t] = status[c][t]
BY DEF Finish, TypeOK

\* Where the run of an execution stands keeps agreeing with its position.
LEMMA StageStep ==
  ASSUME TypeOK, CoreInv, NEW c \in Chains, CoreStep(c)
  PROVE  StageOf(c)'
<1> USE DEF Preparation
<1>0. StageOf(c)
  BY PartsByExecution DEF CoreInv
<1>persisted. /\ Publishes(c) => Persisted(c)'
              /\ ~Publishes(c) => (Persisted(c)' <=> Persisted(c))
  BY PersistedStep
<1>zero. run[c] = 0 => ~Persisted(c)
  BY DEF CoreInv, RunsOK, Persisted
<1>names. /\ Preparation \subseteq StepIds /\ ArtifactSteps \subseteq StepIds
          /\ Preparation \cap ArtifactSteps = {}
          /\ ({"idle", "report"} \cup Ended) \cap (Preparation \cup ArtifactSteps) = {}
  BY DEF StepIds, Ended, ArtifactSteps, Producers
<1>1. CASE Prepares(c)
  <2>1. ~Publishes(c) /\ run'[c] = run[c] /\ run[c] = 0
    BY <1>1, <1>0 DEF Prepares, Publishes, StageOf
  <2>2. /\ at'[c] \in Preparation /\ phase'[c] \in {"start", phase[c]}
        /\ at'[c] = "persist" => phase'[c] = "start"
    BY <1>1, <1>names, FinishEffect DEF Prepares, TypeOK
  <2>3. \A s \in Preparation : status'[c][s] # "FAIL"
    BY <1>1, <1>0, <1>names, FinishEffect DEF Prepares, StageOf
  <2> QED BY <2>1, <2>2, <2>3, <1>zero, <1>persisted, <1>names DEF StageOf
<1>2. CASE GivesUp(c)
  <2>1. ~Publishes(c) /\ ~Persisted(c)
    BY <1>2, <1>0, <1>zero DEF GivesUp, Publishes, StageOf, Persisted
  <2>2. at'[c] = "report" /\ status'[c][at[c]] = "FAIL" /\ at[c] \in Preparation
    BY <1>2, <1>names, FinishEffect DEF GivesUp
  <2> QED BY <2>1, <2>2, <1>persisted, <1>names DEF StageOf
<1>3. CASE DrawsRun(c)
  <2>1. ~Publishes(c)
    BY <1>3 DEF DrawsRun, Publishes, Finish, TypeOK
  <2>2. at'[c] = "persist" /\ status'[c] = status[c] /\ run'[c] # 0
    BY <1>3 DEF DrawsRun, TypeOK
  <2>3. "persist" \notin ArtifactSteps
    BY <1>names
  <2> QED BY <2>1, <2>2, <2>3, <1>0, <1>3, <1>persisted DEF StageOf, DrawsRun
<1>4. CASE Publishes(c)
  <2>1. at'[c] = "audit" /\ \A s \in Preparation : status'[c][s] # "FAIL"
    BY <1>4, <1>0, <1>names, FinishEffect DEF Publishes, StageOf
  <2>2. at'[c] \notin Preparation \cup {"idle", "report", "done"}
    BY <2>1
  <2> QED BY <2>1, <2>2, <1>4, <1>persisted DEF StageOf
<1>5. CASE Advances(c)
  <2>1. ~Publishes(c) /\ at'[c] = at[c] /\ status'[c] = status[c] /\ run'[c] = run[c]
    BY <1>5, <1>names DEF Advances, Publishes
  <2>2. at[c] \notin {"idle"} \cup Preparation
    BY <1>5, <1>names DEF Advances
  <2> QED BY <2>1, <2>2, <1>0, <1>persisted DEF StageOf
<1>6. CASE EndsStep(c)
  <2>1. ~Publishes(c) /\ at[c] \in ArtifactSteps /\ Persisted(c)
    BY <1>6, <1>0, <1>names DEF EndsStep, Publishes, StageOf
  <2>2. at'[c] \in ArtifactSteps \cup {"report"}
    BY <1>6, <2>1, <1>names, StepNames, FinishEffect DEF EndsStep
  <2>3. \A s \in Preparation : status'[c][s] = status[c][s]
    BY <1>6, <2>1, <1>names, FinishEffect DEF EndsStep
  <2>4. at'[c] \notin {"idle"} \cup Preparation
    BY <2>2, <1>names
  <2> QED BY <2>1, <2>3, <2>4, <1>0, <1>persisted DEF StageOf
<1>7. CASE Concludes(c)
  <2>1. ~Publishes(c) /\ at'[c] = "report" /\ status'[c] = status[c] /\ at[c] = "report"
    BY <1>7 DEF Concludes, Publishes
  <2> QED BY <2>1, <1>0, <1>persisted, <1>names DEF StageOf
<1>8. CASE Returns(c)
  <2>1. ~Publishes(c) /\ at'[c] = "done" /\ status'[c] = status[c] /\ at[c] = "report"
    BY <1>8 DEF Returns, Publishes, TypeOK
  <2>2. "done" \notin ArtifactSteps
    BY <1>names DEF Ended
  <2> QED BY <2>1, <2>2, <1>0, <1>persisted DEF StageOf
<1>9. CASE IsLost(c)
  <2>1. at'[c] \in {"raised", "killed"} /\ status'[c] = status[c]
    BY <1>9 DEF IsLost, TypeOK
  <2>2. ~Publishes(c)
    BY <2>1, <1>names, FinishEffect DEF Publishes
  <2>3. {"raised", "killed"} \cap ArtifactSteps = {}
    BY <1>names DEF Ended
  <2> QED BY <2>1, <2>2, <2>3, <1>0, <1>persisted DEF StageOf
<1> QED
  BY <1>1, <1>2, <1>3, <1>4, <1>5, <1>6, <1>7, <1>8, <1>9 DEF CoreStep

\* The steps a producer can be left for, as the actions use them.
LEMMA AfterFacts ==
  ASSUME NEW p \in Producers
  PROVE  /\ After(p) \cap ({p, "idle"} \cup Preparation) = {}
         /\ {"memo", "report"} \cup Ended \subseteq After(p)
         /\ NextStep[p] \in After(p)
         /\ \A s \in ArtifactSteps :
              /\ NextStep[s] \in After(p) => s = p \/ s \in After(p)
              /\ s \in After(p) => NextStep[s] \in After(p)
<1>1. p \in {"audit", "sensitivity", "explain", "business_risk", "conflict_report"}
  BY DEF Producers
<1>2. CASE p = "audit"
  BY <1>2 DEF After, Ended, Preparation, NextStep, ArtifactSteps, Producers
<1>3. CASE p = "sensitivity"
  BY <1>3 DEF After, Ended, Preparation, NextStep, ArtifactSteps, Producers
<1>4. CASE p = "explain"
  BY <1>4 DEF After, Ended, Preparation, NextStep, ArtifactSteps, Producers
<1>5. CASE p = "business_risk"
  BY <1>5 DEF After, Ended, Preparation, NextStep, ArtifactSteps, Producers
<1>6. CASE p = "conflict_report"
  BY <1>6 DEF After, Ended, Preparation, NextStep, ArtifactSteps, Producers
<1> QED BY <1>1, <1>2, <1>3, <1>4, <1>5, <1>6

\* Each producer is attempted before it is left.
LEMMA StatusStep ==
  ASSUME TypeOK, CoreInv, NEW c \in Chains, CoreStep(c)
  PROVE  StatusOf(c)'
<1> SUFFICES ASSUME NEW p \in Producers
             PROVE  /\ Persisted(c)' /\ at'[c] \in After(p) \ {"raised", "killed"}
                         => status'[c][p] # "SKIPPED"
                    /\ ~Persisted(c)' => status'[c][p] = "SKIPPED"
  BY DEF StatusOf, After
<1>0. StageOf(c) /\ StatusOf(c)
  BY PartsByExecution DEF CoreInv
<1>persisted. /\ Publishes(c) => Persisted(c)'
              /\ ~Publishes(c) => (Persisted(c)' <=> Persisted(c))
  BY PersistedStep
<1>names. /\ Preparation \subseteq StepIds /\ ArtifactSteps \subseteq StepIds
          /\ Preparation \cap ArtifactSteps = {} /\ p \in ArtifactSteps
          /\ p # "memo"
          /\ "persist" \in Preparation
  BY DEF StepIds, ArtifactSteps, Producers, Preparation
<1>after. /\ After(p) \cap ({p, "idle"} \cup Preparation) = {}
          /\ {"memo", "report"} \cup Ended \subseteq After(p)
          /\ \A s \in ArtifactSteps : NextStep[s] \in After(p) => s = p \/ s \in After(p)
  BY AfterFacts
<1>1. CASE Prepares(c) \/ GivesUp(c)
  <2>1. ~Persisted(c) /\ ~Publishes(c)
    BY <1>1, <1>0 DEF Prepares, GivesUp, Publishes, StageOf, Preparation, CoreInv, RunsOK,
                      Persisted
  <2>2. status'[c][p] = status[c][p]
    BY <1>1, <1>names, FinishEffect DEF Prepares, GivesUp, Preparation
  <2> QED BY <2>1, <2>2, <1>0, <1>persisted DEF StatusOf
<1>2. CASE DrawsRun(c)
  <2>1. at'[c] = "persist" /\ status' = status /\ ~Publishes(c)
    BY <1>2 DEF DrawsRun, Publishes, Finish, TypeOK
  <2> QED BY <2>1, <1>0, <1>persisted, <1>after, <1>names DEF StatusOf
<1>3. CASE Publishes(c)
  <2>1. at'[c] = "audit"
    BY <1>3, <1>names, FinishEffect DEF Publishes
  <2>2. "audit" \notin After(p)
    BY DEF After, Ended
  <2> QED BY <2>1, <2>2, <1>3, <1>persisted
<1>4. CASE Advances(c) \/ Concludes(c)
  <2>1. at' = at /\ status' = status /\ ~Publishes(c)
    BY <1>4, <1>names DEF Advances, Concludes, Publishes
  <2> QED BY <2>1, <1>0, <1>persisted DEF StatusOf
<1>5. CASE EndsStep(c)
  <2>1. PICK st \in StepStatuses :
          /\ at[c] = "memo" \/ st # "SKIPPED"
          /\ Finish(c, at[c], st, NextStep[at[c]])
    BY <1>5 DEF EndsStep
  <2>2. at[c] \in ArtifactSteps /\ Persisted(c) /\ ~Publishes(c)
    BY <1>5, <1>0, <1>names DEF EndsStep, StageOf, Publishes
  <2>3. at'[c] = NextStep[at[c]] /\ (at[c] = p => status'[c][p] = st)
        /\ (at[c] # p => status'[c][p] = status[c][p])
    BY <2>1, <2>2, <1>names, FinishEffect
  <2>4. at[c] \notin {"raised", "killed"}
    BY <2>2 DEF ArtifactSteps, Producers
  <2> QED BY <2>1, <2>2, <2>3, <2>4, <1>0, <1>persisted, <1>after, <1>names DEF StatusOf
<1>6. CASE Returns(c)
  <2>1. at[c] = "report" /\ status' = status /\ ~Publishes(c)
    BY <1>6 DEF Returns, Publishes
  <2> QED BY <2>1, <1>0, <1>persisted, <1>after DEF StatusOf
<1>7. CASE IsLost(c)
  <2>1. at'[c] \in {"raised", "killed"} /\ status' = status
    BY <1>7 DEF IsLost, TypeOK
  <2>2. ~Publishes(c)
    BY <2>1, <1>names, FinishEffect DEF Publishes
  <2> QED BY <2>1, <2>2, <1>0, <1>persisted DEF StatusOf
<1> QED
  BY <1>1, <1>2, <1>3, <1>4, <1>5, <1>6, <1>7 DEF CoreStep

\* The status of the chain says whether its run is in the database.
LEMMA PackageStep ==
  ASSUME TypeOK, CoreInv, NEW c \in Chains, CoreStep(c)
  PROVE  PackageOf(c)'
<1>0. StageOf(c) /\ PackageOf(c)
  BY PartsByExecution DEF CoreInv
<1>persisted. ~Publishes(c) => (Persisted(c)' <=> Persisted(c))
  BY PersistedStep
<1>names. Preparation \subseteq StepIds /\ ArtifactSteps \subseteq StepIds
  BY DEF StepIds
<1>1. CASE Prepares(c) \/ GivesUp(c) \/ Publishes(c) \/ EndsStep(c)
  <2>1. /\ at'[c] # "report" \/ phase'[c] = "start"
        /\ at'[c] # "done"
    <3>1. CASE at[c] = "idle"
      BY <1>1, <3>1, <1>names, FinishEffect
         DEF Prepares, GivesUp, Publishes, EndsStep, Preparation, ArtifactSteps, Producers, TypeOK
    <3>2. CASE at[c] # "idle"
      <4>1. PICK st \in StepStatuses, next \in Locations \ Ended :
              at[c] \in StepIds /\ Finish(c, at[c], st, next)
        BY <1>1, <3>2, <1>names, StepNames
           DEF Prepares, GivesUp, Publishes, EndsStep, StepStatuses, Locations, Ended, StepIds,
               Preparation, ArtifactSteps, Producers
      <4> QED BY <4>1, FinishEffect DEF Ended
    <3> QED BY <3>1, <3>2
  <2> QED BY <2>1 DEF PackageOf
<1>2. CASE DrawsRun(c)
  <2>1. at'[c] = "persist"
    BY <1>2 DEF DrawsRun
  <2> QED BY <2>1 DEF PackageOf
<1>3. CASE Advances(c)
  <2>1. /\ at' = at /\ package' = package /\ ~Publishes(c)
        /\ at[c] = "report" => phase[c] # "start"
        /\ at[c] # "done"
    BY <1>3 DEF Advances, Publishes, ArtifactSteps, Producers
  <2> QED BY <2>1, <1>0, <1>persisted DEF PackageOf
<1>4. CASE Concludes(c)
  <2>1. ~Publishes(c) /\ at[c] = "report" /\ package'[c].status = Overall(c)
    BY <1>4 DEF Concludes, Publishes, TypeOK
  <2>2. Overall(c) = "FAIL" <=> \E s \in Preparation : status[c][s] = "FAIL"
    BY DEF Overall
  <2> QED BY <2>1, <2>2, <1>0, <1>persisted DEF PackageOf, StageOf
<1>5. CASE Returns(c)
  <2>1. ~Publishes(c) /\ at[c] = "report" /\ phase[c] = "insert" /\ package' = package
    BY <1>5 DEF Returns, Publishes
  <2> QED BY <2>1, <1>0, <1>persisted DEF PackageOf
<1>6. CASE IsLost(c)
  <2>1. at'[c] \in {"raised", "killed"}
    BY <1>6 DEF IsLost, TypeOK
  <2> QED BY <2>1 DEF PackageOf
<1> QED
  BY <1>1, <1>2, <1>3, <1>4, <1>5, <1>6 DEF CoreStep

\* Together: the core keeps its invariant.
LEMMA CoreInvStep ==
  ASSUME TypeOK, MemoOK, CoreInv, [Next]_vars
  PROVE  CoreInv'
<1>1. CASE UNCHANGED coreVars
  BY <1>1 DEF coreVars, CoreInv, RunsOK, StageOK, StatusOK, PackageOK, Persisted, After
<1>2. ASSUME NEW c \in Chains, CoreStep(c) PROVE CoreInv'
  <2>1. \A d \in Chains : StageOf(d)' /\ StatusOf(d)' /\ PackageOf(d)'
    BY <1>2, OtherParts, StageStep, StatusStep, PackageStep
  <2>2. RunsOK'
    BY <1>2, RunsStep
  <2>3. StageOK' /\ StatusOK' /\ PackageOK'
    BY <2>1 DEF StageOK, StageOf, StatusOK, StatusOf, PackageOK, PackageOf
  <2> QED BY <2>2, <2>3 DEF CoreInv
<1> QED BY <1>1, <1>2, CoreSteps

-----------------------------------------------------------------------------
(* The memo's inputs *)

\* Only a memo step that has not begun to write loads documents.
LEMMA InputSteps ==
  ASSUME TypeOK, [Next]_vars
  PROVE  \/ UNCHANGED inputs
         \/ /\ UNCHANGED <<at, phase>>
            /\ \E c \in Chains : phase[c] = "start" /\ \A d \in Chains \ {c} : inputs'[d] = inputs[d]
<1>1. ASSUME NEW c \in Chains, ChainStep(c), ~LoadInput(c) PROVE UNCHANGED inputs
  BY <1>1 DEF ChainStep, PayloadBuilt, EngineRuns, PreparationFails, RunCreated, OutputSaved,
     PersistFails, Produce, StartWriting, FileWritten, Indexed, StepFails, ResolveInput,
     MemoSkipped, LoadRaises, WriteMemo, StartReport, ReportWritten, ReportRegistered,
     ReportNotRegistered, ReportRaises
<1>2. ASSUME NEW c \in Chains, LoadInput(c)
      PROVE  /\ UNCHANGED <<at, phase>> /\ phase[c] = "start"
             /\ \A d \in Chains \ {c} : inputs'[d] = inputs[d]
  BY <1>2 DEF LoadInput, AllResolved, TypeOK
<1>3. ASSUME NEW c \in Chains, Begin(c) \/ Kill(c) PROVE UNCHANGED inputs
  BY <1>3 DEF Begin, Kill
<1>4. ASSUME Delete \/ TimePasses \/ UNCHANGED vars PROVE UNCHANGED inputs
  BY <1>4 DEF Delete, TimePasses, vars, chainVars
<1> QED BY <1>1, <1>2, <1>3, <1>4 DEF Next, Idle

\* A memo is not written before all its inputs are loaded.
LEMMA MemoStep ==
  ASSUME TypeOK, MemoOK, [Next]_vars
  PROVE  MemoOK'
<1>1. CASE UNCHANGED <<at, phase>> /\ UNCHANGED inputs
  BY <1>1 DEF MemoOK, MemoInputs
<1>2. CASE /\ UNCHANGED <<at, phase>>
           /\ \E c \in Chains : phase[c] = "start" /\ \A d \in Chains \ {c} : inputs'[d] = inputs[d]
  BY <1>2 DEF MemoOK, MemoInputs
<1>3. ASSUME UNCHANGED inputs, NEW c \in Chains, CoreStep(c) PROVE MemoOK'
  <2>1. ASSUME at'[c] = "memo", phase'[c] # "start" PROVE Len(inputs[c]) = Len(MemoInputs)
    <3>1. CASE Advances(c)
      BY <3>1, <2>1 DEF Advances
    <3>2. CASE Prepares(c) \/ GivesUp(c) \/ Publishes(c) \/ EndsStep(c)
      <4>1. phase'[c] = "start" \/ at'[c] = "payload"
        BY <3>2 DEF Prepares, GivesUp, Publishes, EndsStep, Finish, TypeOK
      <4> QED BY <4>1, <2>1
    <3>3. CASE DrawsRun(c) \/ Concludes(c)
      BY <3>3, <2>1 DEF DrawsRun, Concludes
    <3>4. CASE Returns(c) \/ IsLost(c)
      BY <3>4, <2>1 DEF Returns, IsLost, TypeOK
    <3> QED BY <1>3, <3>1, <3>2, <3>3, <3>4 DEF CoreStep
  <2>2. \A d \in Chains \ {c} : at'[d] = at[d] /\ phase'[d] = phase[d]
    BY <1>3, OthersKept
  <2> QED BY <1>3, <2>1, <2>2 DEF MemoOK, MemoInputs
<1> QED
  BY <1>1, <1>2, <1>3, CoreSteps, InputSteps DEF coreVars

-----------------------------------------------------------------------------
(* Files and rows *)

\* Step c is in rewrites the file of that step.
Rewrites(c) ==
  LET p == PathOf(c, at[c]) IN
  /\ at[c] \in ArtifactSteps \cup {"report"}
  /\ UNCHANGED <<artifacts, at, run, outputs>>
  /\ \A d \in Chains \ {c} : phase'[d] = phase[d]
  /\ \E x \in Files :
       /\ files' = Without(p) \cup {x}
       /\ x.path = p
       /\ at[c] \in {"audit", "sensitivity"} /\ phase'[c] = "insert" => x.whole /\ x.about = run[c]

\* A row for the file of the step c is in is added.
Registers(c) ==
  /\ at[c] \in ArtifactSteps \cup {"report"}
  /\ at[c] # "report" => phase[c] = "insert" /\ at'[c] = NextStep[at[c]]
  /\ \E r \in Nat :
       /\ Register(at[c], r, PathOf(c, at[c]), stamp[c])
       /\ at[c] # "report" => r = run[c]
  /\ UNCHANGED <<files, outputs, run>>

\* FileWritten completes the file of its step, about its own run where that has a name.
LEMMA WrittenFile ==
  ASSUME TypeOK, MemoOK, NEW c \in Chains, FileWritten(c)
  PROVE  Rewrites(c)
<1>1. PathOf(c, at[c]) \in Paths
  BY StepNames, PathTypes DEF FileWritten
<1>2. About(c, at[c]) \in Nat
  <2>1. CASE at[c] = "memo"
    <3>1. inputs[c] \in Seq(Nat) /\ Len(inputs[c]) = 4
      BY <2>1 DEF FileWritten, MemoOK, MemoInputs, TypeOK
    <3> QED BY <3>1, <2>1 DEF About
  <2>2. CASE at[c] # "memo"
    BY <2>2 DEF About, TypeOK
  <2> QED BY <2>1, <2>2
<1>3. [path |-> PathOf(c, at[c]), whole |-> TRUE, about |-> About(c, at[c])] \in Files
  BY <1>1, <1>2 DEF Files
<1> QED BY <1>3 DEF FileWritten, WriteOut, Rewrites, About, TypeOK

\* What a step does to files and rows.
LEMMA IndexSteps ==
  ASSUME TypeOK, MemoOK, [Next]_vars
  PROVE  \/ UNCHANGED artifacts /\ files' \subseteq files /\ (deletes' = 0 => files' = files)
         \/ \E c \in Chains : Rewrites(c) \/ Registers(c)
<1> DEFINE Quiet ==
      UNCHANGED artifacts /\ files' \subseteq files /\ (deletes' = 0 => files' = files)
<1>1. ASSUME NEW c \in Chains, StartWriting(c, at[c]), at[c] \in ArtifactSteps PROVE Rewrites(c)
  <2>1. PathOf(c, at[c]) \in Paths
    BY <1>1, StepNames, PathTypes
  <2>2. [path |-> PathOf(c, at[c]), whole |-> FALSE, about |-> 0] \in Files
    BY <2>1 DEF Files
  <2> QED BY <1>1, <2>2 DEF StartWriting, Truncate, Rewrites, TypeOK
<1>2. ASSUME NEW c \in Chains, FileWritten(c) PROVE Rewrites(c)
  BY <1>2, WrittenFile
<1>3. ASSUME NEW c \in Chains, StartReport(c) PROVE Rewrites(c)
  <2>1. PathOf(c, "report") \in Paths
    BY StepNames, PathTypes
  <2>2. [path |-> PathOf(c, "report"), whole |-> FALSE, about |-> 0] \in Files
    BY <2>1 DEF Files
  <2> QED BY <1>3, <2>2 DEF StartReport, Truncate, Rewrites, TypeOK
<1>4. ASSUME NEW c \in Chains, ReportWritten(c) PROVE Rewrites(c)
  <2>1. PathOf(c, "report") \in Paths
    BY StepNames, PathTypes
  <2>2. package[c].run \in Nat
    BY DEF TypeOK, Packages
  <2>3. [path |-> PathOf(c, "report"), whole |-> TRUE, about |-> package[c].run] \in Files
    BY <2>1, <2>2 DEF Files
  <2> QED BY <1>4, <2>3 DEF ReportWritten, WriteOut, Rewrites, TypeOK
<1>5. ASSUME NEW c \in Chains, Indexed(c) PROVE Registers(c)
  <2>1. at'[c] = NextStep[at[c]]
    BY <1>5 DEF Indexed, Finish, TypeOK
  <2> QED BY <1>5, <2>1 DEF Indexed, RegisterArtifact, Registers, TypeOK
<1>6. ASSUME NEW c \in Chains, StepFails(c) PROVE Quiet \/ Registers(c)
  <2>1. at'[c] = NextStep[at[c]]
    BY <1>6 DEF StepFails, Finish, TypeOK
  <2> QED BY <1>6, <2>1 DEF StepFails, RegisterArtifact, Registers, TypeOK
<1>7. ASSUME NEW c \in Chains, ReportRegistered(c) PROVE Registers(c)
  <2>1. package[c].run \in Nat
    BY DEF TypeOK, Packages
  <2> QED BY <1>7, <2>1 DEF ReportRegistered, Registers
<1>8. ASSUME NEW c \in Chains,
             Begin(c) \/ PayloadBuilt(c) \/ EngineRuns(c) \/ PreparationFails(c) \/ RunCreated(c)
             \/ OutputSaved(c) \/ PersistFails(c) \/ ResolveInput(c) \/ MemoSkipped(c)
             \/ LoadInput(c) \/ LoadRaises(c) \/ ReportNotRegistered(c) \/ ReportRaises(c)
             \/ Kill(c)
      PROVE  Quiet
  BY <1>8 DEF Begin, PayloadBuilt, EngineRuns, PreparationFails, RunCreated, OutputSaved,
     PersistFails, ResolveInput, MemoSkipped, LoadInput, LoadRaises, ReportNotRegistered,
     ReportRaises, Kill, indexVars
<1>9. ASSUME Delete \/ TimePasses \/ UNCHANGED vars PROVE Quiet
  BY <1>9 DEF Delete, DeleteFile, TimePasses, Tick, vars, indexVars, TypeOK
<1>10. ASSUME NEW c \in Chains, Produce(c) \/ WriteMemo(c) PROVE Rewrites(c)
  BY <1>10, <1>1 DEF Produce, WriteMemo, AllResolved, ArtifactSteps
<1> QED
  BY <1>2, <1>3, <1>4, <1>5, <1>6, <1>7, <1>8, <1>9, <1>10 DEF Next, ChainStep, Idle

\* An execution comes to an INSERT of an artifact step by writing the file first.
LEMMA InsertAfterWrite ==
  ASSUME TypeOK, MemoOK, [Next]_vars, NEW c \in Chains,
         at'[c] \in ArtifactSteps, phase'[c] = "insert"
  PROVE  at'[c] = at[c] /\ run'[c] = run[c] /\ (phase[c] = "insert" \/ Rewrites(c))
<1>names. /\ {"payload", "persist", "report"} \cap ArtifactSteps = {}
          /\ Ended \cap ArtifactSteps = {}
  BY DEF ArtifactSteps, Producers, Ended
<1>1. at'[c] = at[c] /\ run'[c] = run[c]
  <2>1. CASE UNCHANGED coreVars
    BY <2>1 DEF coreVars
  <2>2. ASSUME NEW d \in Chains \ {c}, CoreStep(d) PROVE at'[c] = at[c] /\ run'[c] = run[c]
    BY <2>2, OthersKept
  <2>3. ASSUME CoreStep(c) PROVE Advances(c)
    BY <2>3, <1>names DEF CoreStep, Prepares, GivesUp, DrawsRun, Publishes, EndsStep, Finish,
             Concludes, Returns, IsLost, Ended, TypeOK
  <2> QED BY <2>1, <2>2, <2>3, CoreSteps DEF Advances
<1>2. CASE phase[c] # "insert"
  <2>1. ASSUME NEW d \in Chains,
               Begin(d) \/ PayloadBuilt(d) \/ EngineRuns(d) \/ PreparationFails(d)
               \/ OutputSaved(d) \/ PersistFails(d) \/ Indexed(d) \/ StepFails(d)
               \/ ResolveInput(d) \/ MemoSkipped(d) \/ LoadInput(d) \/ LoadRaises(d)
               \/ ReportRegistered(d) \/ ReportNotRegistered(d) \/ ReportRaises(d) \/ Kill(d)
        PROVE  FALSE
    <3>1. phase'[c] \in {"start", phase[c]}
      BY <2>1 DEF Begin, PayloadBuilt, EngineRuns, PreparationFails, OutputSaved, PersistFails,
         Indexed, StepFails, ResolveInput, MemoSkipped, LoadInput, LoadRaises, ReportRegistered,
         ReportNotRegistered, ReportRaises, Kill, Finish, TypeOK
    <3> QED BY <3>1, <1>2
  <2>2. ASSUME NEW d \in Chains, Produce(d) \/ WriteMemo(d) \/ StartReport(d) PROVE FALSE
    <3>1. phase'[c] \in {"writing", phase[c]}
      BY <2>2 DEF Produce, WriteMemo, StartWriting, StartReport, TypeOK
    <3> QED BY <3>1, <1>2
  <2>3. ASSUME NEW d \in Chains, RunCreated(d) \/ ReportWritten(d) PROVE FALSE
    <3>1. d = c
      BY <2>3, <1>2 DEF RunCreated, ReportWritten, TypeOK
    <3>2. at[c] \in {"persist", "report"}
      BY <2>3, <3>1 DEF RunCreated, ReportWritten
    <3> QED BY <3>2, <1>1, <1>names
  <2>4. ASSUME NEW d \in Chains, FileWritten(d) PROVE Rewrites(c)
    <3>1. d = c
      BY <2>4, <1>2 DEF FileWritten, TypeOK
    <3> QED BY <2>4, <3>1, WrittenFile
  <2>5. ASSUME Delete \/ TimePasses \/ UNCHANGED vars PROVE FALSE
    BY <2>5, <1>2 DEF Delete, TimePasses, vars, chainVars
  <2> QED BY <1>1, <2>1, <2>2, <2>3, <2>4, <2>5 DEF Next, ChainStep, Idle
<1> QED BY <1>1, <1>2

\* The runs of two executions differ once one is in the database.
LEMMA OwnRun ==
  ASSUME CoreInv, NEW c \in Chains, NEW d \in Chains, Persisted(c), run[d] = run[c]
  PROVE  d = c
BY DEF CoreInv, RunsOK, Persisted

\* A document is complete and about its run when its row is inserted.
LEMMA WrittenStep ==
  ASSUME TypeOK, MemoOK, CoreInv, WrittenOK, [Next]_vars
  PROVE  WrittenOK'
<1> SUFFICES ASSUME NEW c \in Chains, at'[c] \in {"audit", "sensitivity"}, phase'[c] = "insert",
                    NEW f \in files', f.path = PathOf(c, at[c])'
             PROVE  f.whole /\ f.about = run'[c]
  BY DEF WrittenOK, PathOf
<1>names. {"audit", "sensitivity"} \subseteq ArtifactSteps
  BY DEF ArtifactSteps, Producers
<1>1. at'[c] = at[c] /\ run'[c] = run[c] /\ (phase[c] = "insert" \/ Rewrites(c))
  BY <1>names, InsertAfterWrite
<1>2. f.path = PathOf(c, at[c])
  BY <1>1 DEF PathOf
<1>3. Persisted(c)
  BY <1>1, <1>names DEF CoreInv, StageOK
<1>4. CASE Rewrites(c)
  BY <1>4, <1>1, <1>2 DEF Rewrites, Without
<1>5. CASE ~Rewrites(c)
  <2>1. phase[c] = "insert" /\ (f \in files => f.whole /\ f.about = run[c])
    BY <1>1, <1>2, <1>5 DEF WrittenOK
  <2>2. ASSUME NEW d \in Chains \ {c}, Rewrites(d) PROVE f \in files
    <3>1. PICK x \in Files : files' = Without(PathOf(d, at[d])) \cup {x} /\ x.path = PathOf(d, at[d])
      BY <2>2 DEF Rewrites
    <3>2. f # x
      <4>1. PathOf(d, at[d]) # PathOf(c, at[c])
        <5>1. ASSUME PathOf(d, at[d]) = PathOf(c, at[c]) PROVE run[d] = run[c]
          BY <5>1, <1>1 DEF PathOf
        <5> QED BY <5>1, <1>3, OwnRun
      <4> QED BY <4>1, <3>1, <1>2
    <3> QED BY <3>1, <3>2 DEF Without
  <2>3. f \in files
    <3>1. CASE files' \subseteq files
      BY <3>1
    <3>2. ASSUME NEW d \in Chains, Registers(d) PROVE f \in files
      BY <3>2 DEF Registers
    <3> QED BY <3>1, <3>2, <2>2, <1>5, IndexSteps
  <2> QED BY <2>1, <2>3, <1>1
<1> QED BY <1>4, <1>5

\* What RowsOK says of row i of kind k.
RowOf(k, i) ==
  /\ artifacts[k][i].path.kind = k
  /\ artifacts[k][i].path.run = artifacts[k][i].run
  /\ artifacts[k][i].run \in outputs
  /\ \A c \in Chains : run[c] = artifacts[k][i].run => at[c] \in After(k)
  /\ \A f \in files :
       f.path = artifacts[k][i].path => f.whole /\ f.about = artifacts[k][i].run

\* An execution that has left a producer does not come back to it.
LEMMA NeverBack ==
  ASSUME TypeOK, MemoOK, CoreInv, [Next]_vars, NEW c \in Chains, NEW k \in Producers,
         NEW r \in outputs, run'[c] = r, run[c] = r => at[c] \in After(k)
  PROVE  at'[c] \in After(k)
<1>after. /\ After(k) \cap ({k, "idle"} \cup Preparation) = {}
          /\ {"memo", "report"} \cup Ended \subseteq After(k)
          /\ \A s \in ArtifactSteps : s \in After(k) => NextStep[s] \in After(k)
  BY AfterFacts
<1>1. CASE UNCHANGED coreVars
  BY <1>1 DEF coreVars
<1>2. ASSUME NEW d \in Chains \ {c}, CoreStep(d) PROVE at'[c] \in After(k)
  BY <1>2, OthersKept
<1>3. CASE CoreStep(c)
  <2>1. CASE DrawsRun(c)
    BY <2>1 DEF DrawsRun, CoreInv, RunsOK, TypeOK
  <2>2. CASE Prepares(c) \/ GivesUp(c) \/ Publishes(c)
    BY <2>2, <1>after DEF Prepares, GivesUp, Publishes, Preparation
  <2>3. CASE EndsStep(c)
    BY <2>3, <1>after DEF EndsStep, Finish, TypeOK
  <2>4. CASE Advances(c) \/ Concludes(c)
    BY <2>4 DEF Advances, Concludes
  <2>5. CASE Returns(c) \/ IsLost(c)
    BY <2>5, <1>after DEF Returns, IsLost, Ended, TypeOK
  <2> QED BY <1>3, <2>1, <2>2, <2>3, <2>4, <2>5 DEF CoreStep
<1> QED BY <1>1, <1>2, <1>3, CoreSteps

\* Outputs stay.
LEMMA OutputsStay ==
  ASSUME TypeOK, MemoOK, [Next]_vars
  PROVE  outputs \subseteq outputs'
<1>1. ASSUME NEW c \in Chains, CoreStep(c) PROVE outputs \subseteq outputs'
  BY <1>1 DEF CoreStep, Prepares, GivesUp, DrawsRun, Publishes, Advances, EndsStep, Concludes,
              Returns, IsLost
<1> QED BY <1>1, CoreSteps DEF coreVars

\* What registering adds.
LEMMA RegisterEffect ==
  ASSUME NEW k, NEW r, NEW p, NEW n, Register(k, r, p, n)
  PROVE  artifacts' = [artifacts EXCEPT ![k] =
                         Append(artifacts[k], [run |-> r, path |-> p, at |-> n])]
BY DEF Register

\* A row that is there stays right while its file is left alone.
LEMMA OldRow ==
  ASSUME TypeOK, MemoOK, CoreInv, [Next]_vars,
         NEW k \in Producers, NEW i \in DOMAIN artifacts[k], RowOf(k, i),
         artifacts'[k][i] = artifacts[k][i],
         \A f \in files' : f.path = artifacts[k][i].path => f \in files
  PROVE  RowOf(k, i)'
<1>1. artifacts[k][i].run \in outputs'
  BY OutputsStay DEF RowOf
<1>2. ASSUME NEW c \in Chains, run'[c] = artifacts[k][i].run PROVE at'[c] \in After(k)
  BY <1>2, NeverBack DEF RowOf
<1> QED BY <1>1, <1>2 DEF RowOf, After

\* The rows of the named kinds lead to complete documents about their runs.
LEMMA RowsStep ==
  ASSUME TypeOK, MemoOK, CoreInv, WrittenOK, RowsOK, [Next]_vars
  PROVE  RowsOK'
<1> SUFFICES ASSUME NEW k \in {"audit", "sensitivity"}, NEW i \in DOMAIN artifacts'[k]
             PROVE  RowOf(k, i)'
  BY DEF RowsOK, RowOf
<1>0. /\ k \in Producers /\ k \in ArtifactSteps /\ k \in Kinds /\ k # "report"
      /\ k \notin After(k)
  BY AfterFacts, StepNames DEF ArtifactSteps, Producers
<1>seq. artifacts \in [Kinds -> Seq(Rows)] /\ artifacts[k] \in Seq(Rows)
  BY <1>0 DEF TypeOK, IndexTypeOK
<1>1. CASE UNCHANGED artifacts /\ files' \subseteq files
  <2>1. i \in DOMAIN artifacts[k] /\ RowOf(k, i)
    BY <1>1 DEF RowsOK, RowOf
  <2> QED BY <1>0, <1>1, <2>1, OldRow
<1>2. ASSUME NEW c \in Chains, Rewrites(c) PROVE RowOf(k, i)'
  <2>1. i \in DOMAIN artifacts[k] /\ RowOf(k, i) /\ artifacts' = artifacts
    BY <1>2 DEF RowsOK, RowOf, Rewrites
  <2>2. PathOf(c, at[c]) # artifacts[k][i].path
    <3>1. SUFFICES ASSUME PathOf(c, at[c]) = artifacts[k][i].path PROVE FALSE
      OBVIOUS
    <3>2. at[c] = k /\ run[c] = artifacts[k][i].run
      BY <2>1, <3>1 DEF PathOf, RowOf
    <3> QED BY <3>2, <2>1, <1>0 DEF RowOf
  <2>3. \A f \in files' : f.path = artifacts[k][i].path => f \in files
    BY <1>2, <2>2 DEF Rewrites, Without
  <2> QED BY <1>0, <2>1, <2>3, OldRow
<1>3. ASSUME NEW c \in Chains, Registers(c) PROVE RowOf(k, i)'
  <2>1. PICK r \in Nat :
          /\ Register(at[c], r, PathOf(c, at[c]), stamp[c])
          /\ at[c] # "report" => r = run[c]
    BY <1>3 DEF Registers
  <2> DEFINE x == [run |-> r, path |-> PathOf(c, at[c]), at |-> stamp[c]]
  <2>2. artifacts' = [artifacts EXCEPT ![at[c]] = Append(artifacts[at[c]], x)]
    BY <2>1, RegisterEffect
  <2>3. files' = files /\ outputs' = outputs /\ run' = run
    BY <1>3 DEF Registers
  <2>4. CASE i \in DOMAIN artifacts[k]
    <3>1. artifacts'[k][i] = artifacts[k][i]
      BY <2>2, <2>4, <1>seq, <1>0
    <3>2. RowOf(k, i)
      BY <2>4 DEF RowsOK, RowOf
    <3> QED BY <3>1, <3>2, <2>3, <2>4, <1>0, OldRow
  <2>5. CASE i \notin DOMAIN artifacts[k]
    <3>1. at[c] = k /\ artifacts'[k][i] = x
      BY <2>2, <2>5, <1>seq, <1>0
    <3>2. r = run[c] /\ phase[c] = "insert" /\ at'[c] = NextStep[k]
      <4>1. at[c] # "report" => phase[c] = "insert" /\ at'[c] = NextStep[at[c]]
        BY <1>3 DEF Registers
      <4> QED BY <4>1, <3>1, <2>1, <1>0
    <3>3. Persisted(c)
      BY <3>1, <1>0 DEF CoreInv, StageOK
    <3>4. x.path.kind = k /\ x.path.run = run[c] /\ x.run = run[c]
      BY <3>1, <3>2 DEF PathOf
    <3>5. ASSUME NEW d \in Chains, run'[d] = run[c] PROVE at'[d] \in After(k)
      <4>1. d = c
        BY <3>5, <2>3, <3>3, OwnRun
      <4> QED BY <4>1, <3>2, <1>0, AfterFacts
    <3>6. \A f \in files : f.path = x.path => f.whole /\ f.about = run[c]
      BY <3>1, <3>2 DEF WrittenOK
    <3> QED BY <3>1, <3>3, <3>4, <3>5, <3>6, <2>3 DEF RowOf, Persisted, After
  <2> QED BY <2>4, <2>5
<1> QED BY <1>1, <1>2, <1>3, IndexSteps

-----------------------------------------------------------------------------
(* Executions that follow one another: what the memo finds and loads *)

\* An execution that does something other than begin is running.
LEMMA ActorsRun ==
  ASSUME NEW c \in Chains
  PROVE  /\ ChainStep(c) => Running(c)
         /\ Rewrites(c) \/ Registers(c) => Running(c)
         /\ CoreStep(c) => Running(c) \/ at[c] = "idle"
<1> USE DEF Running, Ended, Preparation, ArtifactSteps, Producers
<1>1. ChainStep(c) => Running(c)
  BY DEF ChainStep, PayloadBuilt, EngineRuns, PreparationFails, RunCreated, OutputSaved,
     PersistFails, Produce, FileWritten, Indexed, StepFails, ResolveInput, MemoSkipped, LoadInput,
     LoadRaises, WriteMemo, AllResolved, StartReport, ReportWritten, ReportRegistered,
     ReportNotRegistered, ReportRaises
<1>2. Rewrites(c) \/ Registers(c) => Running(c)
  BY DEF Rewrites, Registers
<1>3. CoreStep(c) => Running(c) \/ at[c] = "idle"
  BY DEF CoreStep, Prepares, GivesUp, DrawsRun, Publishes, Advances, EndsStep, Concludes, Returns,
     IsLost
<1> QED BY <1>1, <1>2, <1>3

\* A file that was deleted, the time and a failure are not taken back.
LEMMA NothingTakenBack ==
  ASSUME TypeOK, [Next]_vars
  PROVE  /\ \A c \in Chains : failed[c] \subseteq failed'[c]
         /\ clock' \in Nat /\ clock <= clock'
         /\ deletes' = 0 => deletes = 0 /\ ~Delete
<1>1. ASSUME NEW c \in Chains, ChainStep(c) \/ Begin(c) \/ Kill(c)
      PROVE  /\ \A d \in Chains : failed[d] \subseteq failed'[d]
             /\ clock' = clock /\ deletes' = deletes
  <2>1. /\ failed' = failed \/ \E x : failed' = [failed EXCEPT ![c] = failed[c] \cup {x}]
        /\ clock' = clock /\ deletes' = deletes
    BY <1>1 DEF Begin, Kill, ChainStep, PayloadBuilt, EngineRuns, PreparationFails, RunCreated,
       OutputSaved, PersistFails, Produce, StartWriting, FileWritten, Indexed, StepFails,
       ResolveInput, MemoSkipped, LoadInput, LoadRaises, WriteMemo, StartReport, ReportWritten,
       ReportRegistered, ReportNotRegistered, ReportRaises, indexVars, countVars
  <2>2. \A d \in Chains : failed[d] \subseteq failed'[d]
    BY <2>1 DEF TypeOK
  <2> QED BY <2>1, <2>2
<1>2. ASSUME TimePasses \/ UNCHANGED vars
      PROVE  failed' = failed /\ clock' \in {clock, clock + 1} /\ deletes' = deletes
  BY <1>2 DEF TimePasses, Tick, vars, indexVars, chainVars, countVars
<1>3. Delete => failed' = failed /\ clock' = clock /\ deletes' = deletes + 1
  BY DEF Delete, chainVars
<1>4. clock \in Nat /\ deletes \in Nat
  BY DEF TypeOK, IndexTypeOK
<1>5. CASE Delete
  BY <1>3, <1>4, <1>5
<1>6. CASE ~Delete
  <2>1. /\ \A c \in Chains : failed[c] \subseteq failed'[c]
        /\ clock' \in {clock, clock + 1} /\ deletes' = deletes
    BY <1>1, <1>2, <1>6 DEF Next, Idle
  <2> QED BY <1>4, <1>6, <2>1
<1> QED BY <1>5, <1>6

\* Whoever runs after a step either ran before it, alone, or begins.
LEMMA OneAtATime ==
  ASSUME TypeOK, MemoOK, TurnsOK, Serial', [Next]_vars
  PROVE  \A c, d \in Chains : Running(c)' /\ Running(d)' => c = d
<1>0. ~Overlap /\ Serial
  BY NothingTakenBack DEF Serial
<1>1. CASE UNCHANGED coreVars
  BY <1>0, <1>1 DEF coreVars, TurnsOK, Running
<1>2. ASSUME NEW e \in Chains, CoreStep(e)
      PROVE  \A c, d \in Chains : Running(c)' /\ Running(d)' => c = d
  <2>1. ASSUME NEW c \in Chains \ {e} PROVE ~Running(c)
    <3>1. CASE Running(e)
      BY <1>0, <3>1 DEF TurnsOK
    <3>2. CASE at[e] = "idle"
      <4>1. at'[e] = "payload"
        BY <1>2, <3>2 DEF CoreStep, Prepares, GivesUp, DrawsRun, Publishes, Advances, EndsStep,
           Concludes, Returns, IsLost, Running, Ended, Preparation, ArtifactSteps, Producers, TypeOK
      <4>2. ASSUME NEW d \in Chains, ChainStep(d) \/ Kill(d) PROVE FALSE
        <5>1. Running(d)
          BY <4>2, ActorsRun DEF Kill
        <5>2. d # e
          BY <5>1, <3>2 DEF Running
        <5>3. at'[e] = at[e]
          BY <4>2, <5>2 DEF Kill, Leave, ChainStep, PayloadBuilt, EngineRuns, PreparationFails,
             RunCreated, OutputSaved, PersistFails, Produce, StartWriting, FileWritten, Indexed,
             StepFails, ResolveInput, MemoSkipped, LoadInput, LoadRaises, WriteMemo, StartReport,
             ReportWritten, ReportRegistered, ReportNotRegistered, ReportRaises, Finish, TypeOK
        <5> QED BY <5>3, <4>1, <3>2
      <4>3. \E d \in Chains : Begin(d)
        BY <4>1, <3>2, <4>2 DEF Next, Idle, Delete, TimePasses, vars, chainVars
      <4> QED BY <4>3, <1>0 DEF Begin
    <3> QED BY <1>2, <3>1, <3>2, ActorsRun
  <2>2. ASSUME NEW c \in Chains \ {e} PROVE ~Running(c)'
    BY <2>1, <2>2, <1>2, OthersKept DEF Running
  <2> QED BY <2>2
<1> QED BY <1>1, <1>2, CoreSteps

\* While an execution runs, no other one takes a step.
LEMMA OnlyItself ==
  ASSUME TurnsOK, Serial, [Next]_vars, NEW c \in Chains, Running(c)
  PROVE  \/ ChainStep(c) \/ Kill(c)
         \/ Delete \/ TimePasses \/ UNCHANGED vars
<1>1. ASSUME NEW d \in Chains, Begin(d) PROVE FALSE
  BY <1>1 DEF Begin, Serial
<1>2. ASSUME NEW d \in Chains, ChainStep(d) \/ Kill(d) PROVE d = c
  <2>1. Running(d)
    BY <1>2, ActorsRun DEF Kill
  <2> QED BY <2>1 DEF TurnsOK, Serial
<1> QED BY <1>1, <1>2 DEF Next, Idle

\* No row is dated ahead of the clock.
LEMMA InTimeStep ==
  ASSUME TypeOK, MemoOK, TurnsOK, StampOK, Serial', [Next]_vars, NEW s \in Producers
  PROVE  NoneAfter(s, clock)'
<1>0. Serial /\ clock \in Nat /\ clock' \in Nat /\ clock <= clock'
  BY NothingTakenBack DEF Serial, TypeOK, IndexTypeOK
<1>1. /\ s \in Kinds /\ s # "report" /\ artifacts[s] \in Seq(Rows)
      /\ \A i \in DOMAIN artifacts[s] : artifacts[s][i].at \in Nat /\ artifacts[s][i].at <= clock
  <2>1. s \in Kinds /\ s # "report"
    BY StepNames DEF ArtifactSteps, Producers
  <2>2. artifacts[s] \in Seq(Rows)
    BY <2>1 DEF TypeOK, IndexTypeOK
  <2>3. ASSUME NEW i \in DOMAIN artifacts[s] PROVE artifacts[s][i].at \in Nat
    <3>1. artifacts[s][i] \in Rows
      BY <2>2
    <3> QED BY <3>1 DEF Rows
  <2>4. NoneAfter(s, clock)
    BY <1>0 DEF TurnsOK
  <2> QED BY <2>1, <2>2, <2>3, <2>4 DEF NoneAfter
<1>2. CASE artifacts'[s] = artifacts[s]
  BY <1>0, <1>1, <1>2 DEF NoneAfter
<1>3. ASSUME NEW c \in Chains, Registers(c), at[c] = s PROVE NoneAfter(s, clock)'
  <2>1. PICK r \in Nat : Register(s, r, PathOf(c, s), stamp[c])
    BY <1>3 DEF Registers
  <2> DEFINE x == [run |-> r, path |-> PathOf(c, s), at |-> stamp[c]]
  <2>2. artifacts' = [artifacts EXCEPT ![s] = Append(artifacts[s], x)]
    BY <2>1, RegisterEffect
  <2>3. stamp[c] \in Nat /\ stamp[c] <= clock
    <3>1. phase[c] = "insert"
      BY <1>1, <1>3 DEF Registers
    <3> QED BY <1>0, <1>3, <3>1 DEF StampOK, TypeOK
  <2>4. artifacts'[s] = Append(artifacts[s], x)
    BY <1>1, <2>2 DEF TypeOK, IndexTypeOK
  <2>5. ASSUME NEW i \in DOMAIN artifacts'[s]
        PROVE  artifacts'[s][i].at \in Nat /\ artifacts'[s][i].at <= clock
    <3>1. artifacts'[s][i] = x \/ (i \in DOMAIN artifacts[s] /\ artifacts'[s][i] = artifacts[s][i])
      BY <1>1, <2>4
    <3> QED BY <1>1, <2>3, <3>1
  <2> QED BY <1>0, <2>5 DEF NoneAfter
<1>4. ASSUME NEW c \in Chains, Registers(c), at[c] # s PROVE artifacts'[s] = artifacts[s]
  <2>1. PICK r \in Nat : Register(at[c], r, PathOf(c, at[c]), stamp[c])
    BY <1>4 DEF Registers
  <2>2. artifacts' = [artifacts EXCEPT ![at[c]] =
          Append(artifacts[at[c]], [run |-> r, path |-> PathOf(c, at[c]), at |-> stamp[c]])]
    BY <2>1, RegisterEffect
  <2> QED BY <1>1, <1>4, <2>2 DEF TypeOK, IndexTypeOK
<1> QED BY <1>2, <1>3, <1>4, IndexSteps DEF Rewrites

LEMMA TurnsStep ==
  ASSUME TypeOK, MemoOK, TurnsOK, StampOK, [Next]_vars
  PROVE  TurnsOK'
BY OneAtATime, InTimeStep DEF TurnsOK

\* An execution that waits to insert its row is not disturbed.
LEMMA StampStep ==
  ASSUME TypeOK, MemoOK, TurnsOK, StampOK, [Next]_vars
  PROVE  StampOK'
<1> SUFFICES ASSUME Serial', NEW c \in Chains, at'[c] \in Producers, phase'[c] = "insert"
             PROVE  /\ stamp'[c] <= clock'
                    /\ NoneAfter(at[c], stamp[c])'
                    /\ IsThere(c, at[c])'
  BY DEF StampOK
<1>0. /\ Serial /\ clock \in Nat /\ clock' \in Nat /\ clock <= clock'
      /\ deletes' = 0 /\ ~Delete /\ stamp[c] \in Nat
  BY NothingTakenBack DEF Serial, TypeOK, IndexTypeOK
<1>names. /\ Producers \subseteq ArtifactSteps
          /\ Producers \cap ({"idle", "report", "memo"} \cup Preparation \cup Ended) = {}
  BY DEF ArtifactSteps, Producers, Preparation, Ended
<1>1. at'[c] = at[c] /\ run'[c] = run[c]
  BY <1>names, InsertAfterWrite
<1>2. Running(c) /\ at[c] \in Producers
  BY <1>1, <1>names DEF Running
<1>3. CASE FileWritten(c)
  <2>1. /\ stamp'[c] = clock /\ clock' = clock /\ artifacts' = artifacts
        /\ WriteOut(PathOf(c, at[c]), run[c])
    BY <1>2, <1>3, <1>names DEF FileWritten, About, TypeOK
  <2>2. NoneAfter(at[c], clock)
    BY <1>0, <1>2 DEF TurnsOK
  <2>3. PathOf(c, at[c])' = PathOf(c, at[c])
    BY <1>1 DEF PathOf
  <2> DEFINE p == PathOf(c, at[c])
             f == [path |-> p, whole |-> TRUE, about |-> run[c]]
  <2>6. files' = Without(p) \cup {f}
    BY <2>1 DEF WriteOut
  <2>7. \A g \in files' : g.path = p => g = f
    BY <2>6 DEF Without
  <2>4. IsThere(c, at[c])'
    <3>1. f \in files' /\ f.path = p /\ f.whole /\ f.about = run[c]
      BY <2>6
    <3>2. \A g \in files' : g.path = p => g.whole /\ g.about = run[c]
      BY <2>7, <3>1
    <3> QED BY <1>1, <2>3, <3>1, <3>2 DEF IsThere, Exists
  <2>5. NoneAfter(at[c], stamp[c])'
    BY <1>1, <2>1, <2>2 DEF NoneAfter
  <2> QED BY <1>0, <2>1, <2>4, <2>5
<1>4. CASE ~FileWritten(c)
  <2>1. ASSUME ChainStep(c) \/ Kill(c) PROVE FALSE
    <3>1. CASE Kill(c)
      BY <3>1, <1>1, <1>2, <1>names DEF Kill, Leave, TypeOK, Ended
    <3>2. CASE Produce(c)
      BY <3>2 DEF Produce, StartWriting, TypeOK
    <3>3. CASE Indexed(c) \/ StepFails(c)
      BY <3>3 DEF Indexed, StepFails, Finish, TypeOK
    <3> QED BY <3>1, <3>2, <3>3, <2>1, <1>2, <1>4, <1>names
            DEF ChainStep, PayloadBuilt, EngineRuns, PreparationFails, RunCreated, OutputSaved,
                PersistFails, ResolveInput, MemoSkipped, LoadInput, LoadRaises, WriteMemo,
                AllResolved, StartReport, ReportWritten, ReportRegistered, ReportNotRegistered,
                ReportRaises, Preparation
  <2>2. TimePasses \/ UNCHANGED vars
    BY <1>0, <1>2, <2>1, OnlyItself
  <2>3. artifacts' = artifacts /\ files' = files /\ stamp' = stamp /\ phase' = phase
    BY <2>2 DEF TimePasses, Tick, vars, indexVars, chainVars
  <2>4. PathOf(c, at[c])' = PathOf(c, at[c])
    BY <1>1 DEF PathOf
  <2>5. stamp[c] <= clock /\ NoneAfter(at[c], stamp[c]) /\ IsThere(c, at[c])
    BY <1>0, <1>2, <2>3 DEF StampOK
  <2>6. NoneAfter(at[c], stamp[c])' /\ IsThere(c, at[c])'
    BY <1>1, <2>3, <2>4, <2>5 DEF NoneAfter, IsThere, Exists
  <2> QED BY <1>0, <2>3, <2>5, <2>6
<1> QED BY <1>3, <1>4

\* Another kind's artifacts leave the newest one of kind s alone.
LEMMA StaysNewest ==
  ASSUME TypeOK, MemoOK, [Next]_vars, Serial', NEW c \in Chains, NEW s \in Producers,
         OwnsNewest(c, s), run'[c] = run[c],
         \A d \in Chains : Rewrites(d) \/ Registers(d) => at[d] # s
  PROVE  OwnsNewest(c, s)'
<1> DEFINE p == PathOf(c, s)
<1>1. PathOf(c, s)' = p /\ p.kind = s /\ s \in Kinds
  BY StepNames DEF PathOf, ArtifactSteps, Producers
<1>2. artifacts'[s] = artifacts[s]
  <2>1. ASSUME NEW d \in Chains, Registers(d) PROVE artifacts'[s] = artifacts[s]
    <3>1. PICK r \in Nat : Register(at[d], r, PathOf(d, at[d]), stamp[d])
      BY <2>1 DEF Registers
    <3>2. artifacts' = [artifacts EXCEPT ![at[d]] =
            Append(artifacts[at[d]], [run |-> r, path |-> PathOf(d, at[d]), at |-> stamp[d]])]
      BY <3>1, RegisterEffect
    <3> QED BY <1>1, <2>1, <3>2 DEF TypeOK, IndexTypeOK
  <2> QED BY <2>1, IndexSteps DEF Rewrites
<1>3. \A f : f.path = p => (f \in files' <=> f \in files)
  <2>1. ASSUME NEW d \in Chains, Rewrites(d), NEW f, f.path = p
        PROVE  f \in files' <=> f \in files
    <3>1. PICK x \in Files :
            files' = Without(PathOf(d, at[d])) \cup {x} /\ x.path = PathOf(d, at[d])
      BY <2>1 DEF Rewrites
    <3>2. PathOf(d, at[d]) # p
      BY <1>1, <2>1 DEF PathOf
    <3> QED BY <2>1, <3>1, <3>2 DEF Without
  <2>2. ASSUME NEW d \in Chains, Registers(d) PROVE files' = files
    BY <2>2 DEF Registers
  <2> QED BY <2>1, <2>2, IndexSteps DEF Serial
<1>4. IsThere(c, s)'
  BY <1>1, <1>3 DEF IsThere, Exists, OwnsNewest
<1> QED BY <1>1, <1>2, <1>4 DEF OwnsNewest, NoneAfter

\* A producer that is left without a failure has registered its document.
LEMMA LeftWithoutFailure ==
  ASSUME TypeOK, TurnsOK, Serial', Serial, [Next]_vars, NEW c \in Chains, at[c] \in Producers,
         at'[c] = NextStep[at[c]], at[c] \notin failed'[c]
  PROVE  Indexed(c)
<1>names. /\ Producers \subseteq ArtifactSteps
          /\ Producers \cap ({"idle", "report", "memo"} \cup Preparation \cup Ended) = {}
          /\ at'[c] # at[c] /\ at'[c] \notin Ended
  BY DEF ArtifactSteps, Producers, Preparation, Ended, NextStep
<1>1. Running(c)
  BY <1>names DEF Running
<1>2. ~Kill(c)
  BY <1>names DEF Kill, Leave, TypeOK, Ended
<1>3. ~(Delete \/ TimePasses \/ UNCHANGED vars)
  BY <1>names DEF Delete, TimePasses, vars, chainVars
<1>4. ChainStep(c)
  BY <1>1, <1>2, <1>3, OnlyItself
<1>5. ~StepFails(c)
  BY DEF StepFails, TypeOK
<1>6. ~(Produce(c) \/ FileWritten(c))
  BY <1>names DEF Produce, StartWriting, FileWritten
<1> QED BY <1>4, <1>5, <1>6, <1>names
        DEF ChainStep, PayloadBuilt, EngineRuns, PreparationFails, RunCreated, OutputSaved,
            PersistFails, ResolveInput, MemoSkipped, LoadInput, LoadRaises, WriteMemo,
            AllResolved, StartReport, ReportWritten, ReportRegistered, ReportNotRegistered,
            ReportRaises, Preparation

\* The row that is added then is the newest of its kind.
LEMMA RegisteredIsNewest ==
  ASSUME TypeOK, StampOK, Serial, NEW c \in Chains, NEW s \in Producers, at[c] = s, Indexed(c)
  PROVE  OwnsNewest(c, s)'
<1> DEFINE p == PathOf(c, s)
           x == [run |-> run[c], path |-> p, at |-> stamp[c]]
           n == Len(artifacts[s])
<1>1. s \in Kinds /\ artifacts[s] \in Seq(Rows) /\ n \in Nat
  BY StepNames DEF ArtifactSteps, TypeOK, IndexTypeOK
<1>2. artifacts' = [artifacts EXCEPT ![s] = Append(artifacts[s], x)]
  BY RegisterEffect DEF Indexed, RegisterArtifact
<1>3. artifacts'[s] = Append(artifacts[s], x)
  BY <1>1, <1>2 DEF TypeOK, IndexTypeOK
<1>4. Len(artifacts'[s]) = n + 1 /\ artifacts'[s][n + 1] = x
      /\ \A i \in DOMAIN artifacts'[s] :
           artifacts'[s][i] = x \/ (i \in DOMAIN artifacts[s] /\ artifacts'[s][i] = artifacts[s][i])
  BY <1>1, <1>3
<1>5. NoneAfter(s, stamp[c]) /\ IsThere(c, s) /\ stamp[c] \in Nat
  BY DEF StampOK, Indexed, TypeOK
<1>6. run' = run /\ files' = files
  BY DEF Indexed
<1>7. PathOf(c, s)' = p /\ IsThere(c, s)'
  BY <1>5, <1>6 DEF PathOf, IsThere, Exists
<1>8. x.at <= x.at
  BY <1>5
<1>9. \A i \in DOMAIN artifacts'[s] : artifacts'[s][i].at <= x.at
  BY <1>4, <1>5, <1>8 DEF NoneAfter
<1> QED BY <1>1, <1>4, <1>7, <1>9 DEF OwnsNewest, NoneAfter

\* The artifacts of the producers that are behind stay the newest.
LEMMA NewestStep ==
  ASSUME TypeOK, MemoOK, CoreInv, TurnsOK, StampOK, NewestOK, [Next]_vars
  PROVE  NewestOK'
<1> SUFFICES ASSUME Serial', NEW c \in Chains, NEW s \in Producers,
                    Running(c)', Persisted(c)', at'[c] \in After(s), s \notin failed'[c]
             PROVE  OwnsNewest(c, s)'
  BY DEF NewestOK, After
<1>0. Serial /\ s \notin failed[c]
  BY NothingTakenBack DEF Serial
<1>after. /\ After(s) \cap ({s, "idle"} \cup Preparation) = {}
          /\ \A t \in ArtifactSteps : NextStep[t] \in After(s) => t = s \/ t \in After(s)
          /\ "audit" \notin After(s)
  BY AfterFacts DEF After, Ended
<1>names. Preparation \subseteq StepIds /\ ArtifactSteps \subseteq StepIds
  BY DEF StepIds
<1>1. ASSUME Running(c), Persisted(c), at[c] \in After(s), run'[c] = run[c]
      PROVE  OwnsNewest(c, s)'
  <2>1. OwnsNewest(c, s)
    BY <1>0, <1>1 DEF NewestOK
  <2>2. ASSUME NEW d \in Chains, Rewrites(d) \/ Registers(d) PROVE at[d] # s
    <3>1. d = c
      BY <1>0, <1>1, <2>2, ActorsRun DEF TurnsOK
    <3> QED BY <1>1, <1>after, <3>1
  <2> QED BY <1>1, <2>1, <2>2, StaysNewest
<1>2. CASE UNCHANGED coreVars
  BY <1>1, <1>2 DEF coreVars, Running, Persisted
<1>3. ASSUME NEW d \in Chains \ {c}, CoreStep(d) PROVE OwnsNewest(c, s)'
  <2>1. at'[c] = at[c] /\ run'[c] = run[c] /\ (Persisted(c)' <=> Persisted(c))
    BY <1>3, OthersKept, PersistedStep
  <2> QED BY <1>1, <2>1 DEF Running
<1>4. CASE CoreStep(c)
  <2>0. StageOf(c) /\ (~Publishes(c) => (Persisted(c)' <=> Persisted(c)))
    BY <1>4, PartsByExecution, PersistedStep DEF CoreInv
  <2>1. CASE Prepares(c)
    <3>1. at'[c] \in Preparation
      BY <2>1, <1>names, FinishEffect DEF Prepares, Preparation, TypeOK
    <3> QED BY <3>1, <1>after
  <2>2. CASE GivesUp(c)
    <3>1. ~Persisted(c) /\ at'[c] = "report"
      BY <2>0, <2>2, <1>names, FinishEffect
         DEF GivesUp, StageOf, Preparation, CoreInv, RunsOK, Persisted
    <3>2. ~Publishes(c)
      BY <3>1, <1>names, FinishEffect DEF Publishes, Preparation
    <3> QED BY <2>0, <3>1, <3>2
  <2>3. CASE Publishes(c)
    <3>1. at'[c] = "audit"
      BY <2>3, <1>names, FinishEffect DEF Publishes, Preparation
    <3> QED BY <3>1, <1>after
  <2>4. CASE DrawsRun(c)
    BY <2>4, <1>after DEF DrawsRun, Preparation
  <2>5. CASE Advances(c) \/ Concludes(c)
    <3>1. at'[c] = at[c] /\ run'[c] = run[c] /\ outputs' = outputs
      BY <2>5 DEF Advances, Concludes
    <3> QED BY <1>1, <3>1 DEF Running, Persisted
  <2>6. CASE EndsStep(c)
    <3>1. /\ at[c] \in ArtifactSteps /\ at'[c] = NextStep[at[c]]
          /\ run'[c] = run[c] /\ outputs' = outputs
      BY <2>6, <1>names, FinishEffect DEF EndsStep
    <3>2. CASE at[c] = s
      BY <1>0, <3>1, <3>2, LeftWithoutFailure, RegisteredIsNewest
    <3>3. CASE at[c] # s
      <4>1. at[c] \in After(s) /\ Persisted(c)
        BY <3>1, <3>3, <1>after DEF Persisted
      <4>2. Running(c)
        BY <3>1 DEF Running, Ended, ArtifactSteps, Producers
      <4> QED BY <1>1, <3>1, <4>1, <4>2
    <3> QED BY <3>2, <3>3
  <2>7. CASE Returns(c) \/ IsLost(c)
    BY <2>7 DEF Returns, IsLost, Running, Ended, TypeOK
  <2> QED BY <1>4, <2>1, <2>2, <2>3, <2>4, <2>5, <2>6, <2>7 DEF CoreStep
<1> QED BY <1>2, <1>3, <1>4, CoreSteps

\* The places at which an execution has not come to its memo.
BeforeMemo == {"idle"} \cup Preparation \cup Producers

\* The memo step alone looks documents up and loads them, one at a time.
LEMMA LookupSteps ==
  ASSUME TypeOK, [Next]_vars
  PROVE  \/ UNCHANGED <<resolved, inputs>>
         \/ \E c \in Chains : ResolveInput(c) \/ LoadInput(c)
<1>1. ASSUME NEW c \in Chains, ChainStep(c), ~ResolveInput(c), ~LoadInput(c)
      PROVE  UNCHANGED <<resolved, inputs>>
  BY <1>1 DEF ChainStep, PayloadBuilt, EngineRuns, PreparationFails, RunCreated, OutputSaved,
     PersistFails, Produce, StartWriting, FileWritten, Indexed, StepFails, MemoSkipped,
     LoadRaises, WriteMemo, StartReport, ReportWritten, ReportRegistered, ReportNotRegistered,
     ReportRaises
<1>2. ASSUME NEW c \in Chains, Begin(c) \/ Kill(c) PROVE UNCHANGED <<resolved, inputs>>
  BY <1>2 DEF Begin, Kill
<1>3. ASSUME Delete \/ TimePasses \/ UNCHANGED vars PROVE UNCHANGED <<resolved, inputs>>
  BY <1>3 DEF Delete, TimePasses, vars, chainVars
<1> QED BY <1>1, <1>2, <1>3 DEF Next, Idle

\* An execution that has come to its memo does not go back.
LEMMA StaysBehind ==
  ASSUME TypeOK, MemoOK, [Next]_vars, NEW c \in Chains
  PROVE  /\ at'[c] \in BeforeMemo => at[c] \in BeforeMemo
         /\ at'[c] = "memo" => at[c] \in BeforeMemo \cup {"memo"}
         /\ at[c] \notin {"persist"} => run'[c] = run[c]
<1> USE DEF BeforeMemo, Preparation, ArtifactSteps, Producers, Ended
<1>1. CASE UNCHANGED coreVars
  BY <1>1 DEF coreVars
<1>2. ASSUME NEW d \in Chains \ {c}, CoreStep(d) PROVE at'[c] = at[c] /\ run'[c] = run[c]
  BY <1>2, OthersKept
<1>3. CASE CoreStep(c)
  <2>1. at[c] \in {"report"} \cup Ended => at'[c] \in {"report"} \cup Ended
    BY <1>3 DEF CoreStep, Prepares, GivesUp, DrawsRun, Publishes, Advances, EndsStep, Concludes,
       Returns, IsLost, Running, TypeOK
  <2>2. at[c] = "memo" => at'[c] \in {"memo", "report"} \cup Ended
    BY <1>3 DEF CoreStep, Prepares, GivesUp, DrawsRun, Publishes, Advances, EndsStep, Finish,
       Concludes, Returns, IsLost, NextStep, TypeOK
  <2>3. at[c] \in BeforeMemo \cup {"memo", "report"} \cup Ended
    BY DEF TypeOK, StepIds
  <2>4. at[c] \notin {"persist"} => run'[c] = run[c]
    BY <1>3 DEF CoreStep, Prepares, GivesUp, DrawsRun, Publishes, Advances, EndsStep, Concludes,
       Returns, IsLost
  <2> QED BY <2>1, <2>2, <2>3, <2>4
<1> QED BY <1>1, <1>2, <1>3, CoreSteps

LEMMA FourInputs ==
  Len(MemoInputs) = 4 /\ \A n \in 1..4 : MemoInputs[n] \in Producers /\ MemoInputs[n] \in Kinds
<1>1. Len(MemoInputs) = 4
  BY DEF MemoInputs
<1>2. \A n \in 1..4 : MemoInputs[n] \in {"audit", "explain", "sensitivity", "business_risk"}
  BY DEF MemoInputs
<1> QED BY <1>1, <1>2, StepNames DEF ArtifactSteps, Producers

\* A sequence of numbers with one more at its end.
LEMMA OneMore ==
  ASSUME NEW s \in Seq(Nat), NEW i \in Nat, NEW t, t = Append(s, i)
  PROVE  /\ Len(t) = Len(s) + 1 /\ Len(s) \in Nat /\ t[Len(s) + 1] = i
         /\ DOMAIN s = 1..Len(s) /\ DOMAIN t = 1..(Len(s) + 1)
         /\ \A n \in DOMAIN s : t[n] = s[n]
OBVIOUS

\* What one lookup and one load do.
LEMMA ResolveEffect ==
  ASSUME TypeOK, NEW c \in Chains, ResolveInput(c)
  PROVE  /\ at[c] = "memo" /\ Len(resolved[c]) < Len(MemoInputs)
         /\ at' = at /\ run' = run /\ failed' = failed /\ inputs' = inputs /\ artifacts' = artifacts
         /\ \A d \in Chains \ {c} : resolved'[d] = resolved[d]
         /\ \E i \in Nat :
              /\ i \in LatestArtifact(MemoInputs[Len(resolved[c]) + 1]) \cup {0}
              /\ resolved'[c] = Append(resolved[c], i)
<1>1. resolved[c] \in Seq(Nat) /\ Len(resolved[c]) \in Nat
  BY DEF TypeOK
<1>2. Len(resolved[c]) + 1 \in 1..4
  BY <1>1, FourInputs DEF ResolveInput
<1>3. LatestArtifact(MemoInputs[Len(resolved[c]) + 1]) \subseteq Nat
  BY <1>2, FourInputs, LatestType
<1>4. \E i \in Nat :
        /\ i \in LatestArtifact(MemoInputs[Len(resolved[c]) + 1]) \cup {0}
        /\ resolved' = [resolved EXCEPT ![c] = Append(resolved[c], i)]
  BY <1>3 DEF ResolveInput
<1> QED BY <1>4 DEF ResolveInput, TypeOK, indexVars

LEMMA LoadEffect ==
  ASSUME TypeOK, NEW c \in Chains, LoadInput(c)
  PROVE  /\ at[c] = "memo" /\ Len(resolved[c]) = Len(MemoInputs)
         /\ Len(inputs[c]) + 1 <= Len(MemoInputs)
         /\ at' = at /\ run' = run /\ failed' = failed /\ resolved' = resolved
         /\ artifacts' = artifacts
         /\ \A d \in Chains \ {c} : inputs'[d] = inputs[d]
         /\ \E r \in Nat :
              /\ r \in Loaded(MemoInputs[Len(inputs[c]) + 1], resolved[c][Len(inputs[c]) + 1])
              /\ inputs'[c] = Append(inputs[c], r)
<1> DEFINE n == Len(inputs[c]) + 1
<1>1. /\ inputs[c] \in Seq(Nat) /\ Len(inputs[c]) \in Nat
      /\ resolved[c] \in Seq(Nat) /\ Len(resolved[c]) = 4
  BY FourInputs DEF TypeOK, LoadInput, AllResolved
<1>2. n \in 1..4 /\ n \in DOMAIN resolved[c]
  BY <1>1, FourInputs DEF LoadInput
<1>3. Loaded(MemoInputs[n], resolved[c][n]) \subseteq Nat
  BY <1>1, <1>2, FourInputs, LoadedType
<1>4. \E r \in Nat :
        /\ r \in Loaded(MemoInputs[n], resolved[c][n])
        /\ inputs' = [inputs EXCEPT ![c] = Append(inputs[c], r)]
  BY <1>3 DEF LoadInput
<1> QED BY <1>4 DEF LoadInput, AllResolved, TypeOK, indexVars

LEMMA LoadsStep ==
  ASSUME TypeOK, MemoOK, LoadsOK, [Next]_vars
  PROVE  LoadsOK'
<1> SUFFICES ASSUME NEW c \in Chains
             PROVE  /\ at'[c] \in BeforeMemo => resolved'[c] = <<>>
                    /\ Len(resolved'[c]) <= 4 /\ Len(inputs'[c]) <= 4
                    /\ inputs'[c] # <<>> => Len(resolved'[c]) = 4
  BY FourInputs DEF LoadsOK, BeforeMemo
<1>0. /\ at[c] \in BeforeMemo => resolved[c] = <<>>
      /\ Len(resolved[c]) <= 4 /\ Len(inputs[c]) <= 4
      /\ inputs[c] # <<>> => Len(resolved[c]) = 4
      /\ resolved[c] \in Seq(Nat) /\ inputs[c] \in Seq(Nat)
      /\ at'[c] \in BeforeMemo => at[c] \in BeforeMemo
  BY StaysBehind, FourInputs DEF LoadsOK, BeforeMemo, TypeOK
<1>names. "memo" \notin BeforeMemo
  BY DEF BeforeMemo, Preparation, Producers
<1>1. CASE resolved'[c] = resolved[c] /\ inputs'[c] = inputs[c]
  BY <1>0, <1>1
<1>2. CASE ResolveInput(c)
  <2>1. /\ at'[c] = "memo" /\ Len(resolved[c]) < 4 /\ inputs'[c] = inputs[c]
        /\ \E i \in Nat : resolved'[c] = Append(resolved[c], i)
    BY <1>2, ResolveEffect, FourInputs
  <2>2. Len(resolved'[c]) = Len(resolved[c]) + 1 /\ Len(resolved[c]) \in Nat
    BY <1>0, <2>1, OneMore
  <2>3. inputs[c] = <<>>
    <3>1. Len(resolved[c]) < 4 /\ Len(resolved[c]) \in Nat
      BY <2>1, <2>2
    <3>2. \A n \in Nat : n < 4 => n # 4
      OBVIOUS
    <3> QED BY <1>0, <3>1, <3>2
  <2> QED BY <1>0, <1>names, <2>1, <2>2, <2>3
<1>3. CASE LoadInput(c)
  <2>1. /\ at'[c] = "memo" /\ Len(resolved[c]) = 4 /\ resolved'[c] = resolved[c]
        /\ Len(inputs[c]) + 1 <= 4 /\ \E r \in Nat : inputs'[c] = Append(inputs[c], r)
    BY <1>3, LoadEffect, FourInputs
  <2>2. Len(inputs'[c]) = Len(inputs[c]) + 1
    BY <1>0, <2>1, OneMore
  <2> QED BY <1>0, <1>names, <2>1, <2>2
<1> QED BY <1>1, <1>2, <1>3, LookupSteps, ResolveEffect, LoadEffect

\* The newest row is what latest_artifact returns, and load_json_artifact reads its document.
LEMMA NewestIsFound ==
  ASSUME TypeOK, NEW c \in Chains, NEW s \in Producers, OwnsNewest(c, s)
  PROVE  /\ LatestArtifact(s) \subseteq {Len(artifacts[s])}
         /\ Loaded(s, Len(artifacts[s])) \subseteq {run[c]}
<1> DEFINE n == Len(artifacts[s])
<1>1. artifacts[s] \in Seq(Rows) /\ n \in Nat
  BY StepNames DEF ArtifactSteps, TypeOK, IndexTypeOK
<1>2. n \in DOMAIN artifacts[s] /\ n # 0
  BY <1>1 DEF OwnsNewest
<1>3. ASSUME NEW i \in DOMAIN artifacts[s]
      PROVE  i \in Nat /\ i <= n /\ artifacts[s][i].at \in Nat
  <2>1. artifacts[s][i] \in Rows
    BY <1>1
  <2> QED BY <1>1, <2>1 DEF Rows
<1>4. n \in Present(s)
  BY <1>2 DEF Present, OwnsNewest, IsThere
<1>5. ASSUME NEW i \in LatestArtifact(s) PROVE i = n
  <2>1. i \in Present(s) /\ \A j \in Present(s) \ {i} : NewerRow(s, i, j)
    BY <1>4, <1>5 DEF LatestArtifact
  <2>2. i \in DOMAIN artifacts[s] /\ artifacts[s][i].at <= artifacts[s][n].at
    BY <2>1 DEF Present, OwnsNewest, NoneAfter
  <2>3. NewerRow(s, i, n) => FALSE
    BY <1>2, <1>3, <2>2 DEF NewerRow
  <2> QED BY <1>4, <2>1, <2>3
<1>6. Loaded(s, n) \subseteq {run[c]}
  BY <1>2 DEF Loaded, OwnsNewest, IsThere, Exists
<1> QED BY <1>5, <1>6

\* The memo finds the newest artifacts and loads their documents.
LEMMA FoundStep ==
  ASSUME TypeOK, MemoOK, CoreInv, LoadsOK, TurnsOK, NewestOK, FoundOK, [Next]_vars
  PROVE  FoundOK'
<1> SUFFICES ASSUME Serial', NEW c \in Chains
             PROVE  /\ at'[c] = "memo" =>
                         \A n \in DOMAIN resolved'[c] :
                           MemoInputs[n] \notin failed'[c] =>
                             resolved'[c][n] \in {0, Len(artifacts'[MemoInputs[n]])}
                    /\ \A n \in DOMAIN inputs'[c] :
                         MemoInputs[n] \notin failed'[c] =>
                           inputs'[c][n] = (IF resolved'[c][n] = 0 THEN 0 ELSE run'[c])
  BY DEF FoundOK
<1>0. /\ Serial /\ failed[c] \subseteq failed'[c]
      /\ resolved[c] \in Seq(Nat) /\ inputs[c] \in Seq(Nat)
      /\ Len(resolved[c]) <= 4 /\ Len(inputs[c]) <= 4
      /\ inputs[c] # <<>> => Len(resolved[c]) = 4
      /\ DOMAIN resolved[c] \subseteq 1..4
      /\ at[c] \in BeforeMemo => resolved[c] = <<>> /\ Len(resolved[c]) = 0
  <2>1. Serial /\ failed[c] \subseteq failed'[c]
    BY NothingTakenBack DEF Serial
  <2>2. resolved[c] \in Seq(Nat) /\ inputs[c] \in Seq(Nat)
    BY DEF TypeOK
  <2>3. /\ Len(resolved[c]) <= 4 /\ Len(inputs[c]) <= 4
        /\ inputs[c] # <<>> => Len(resolved[c]) = 4
        /\ at[c] \in BeforeMemo => resolved[c] = <<>>
    BY FourInputs DEF LoadsOK, BeforeMemo
  <2>4. DOMAIN resolved[c] \subseteq 1..4
    <3>1. Len(resolved[c]) <= 4
      BY <2>3
    <3>2. DOMAIN resolved[c] = 1..Len(resolved[c]) /\ Len(resolved[c]) \in Nat
      BY <2>2
    <3> QED BY <3>1, <3>2
  <2> QED BY <2>1, <2>2, <2>3, <2>4
<1>names. /\ \A n \in 1..4 : MemoInputs[n] \in Producers
          /\ Producers \subseteq Kinds /\ "memo" \notin Producers
          /\ "memo" \notin BeforeMemo /\ "persist" \in BeforeMemo
  BY FourInputs, StepNames DEF BeforeMemo, Preparation, Producers, ArtifactSteps
<1>own. ASSUME at[c] = "memo", NEW s \in Producers, s \notin failed[c] PROVE OwnsNewest(c, s)
  <2>1. Running(c) /\ Persisted(c) /\ at[c] \in After(s)
    BY <1>own DEF Running, Ended, CoreInv, StageOK, After, ArtifactSteps
  <2> QED BY <1>0, <1>own, <2>1 DEF NewestOK
<1>1. ASSUME at'[c] = "memo", NEW n \in DOMAIN resolved'[c], MemoInputs[n] \notin failed'[c]
      PROVE  resolved'[c][n] \in {0, Len(artifacts'[MemoInputs[n]])}
  <2>1. CASE ResolveInput(c)
    <3>1. PICK i \in Nat :
            /\ i \in LatestArtifact(MemoInputs[Len(resolved[c]) + 1]) \cup {0}
            /\ resolved'[c] = Append(resolved[c], i)
      BY <2>1, ResolveEffect
    <3>more. /\ Len(resolved[c]) \in Nat /\ resolved'[c][Len(resolved[c]) + 1] = i
             /\ DOMAIN resolved[c] = 1..Len(resolved[c])
             /\ DOMAIN resolved'[c] = 1..(Len(resolved[c]) + 1)
             /\ \A m \in DOMAIN resolved[c] : resolved'[c][m] = resolved[c][m]
      <4>1. resolved[c] \in Seq(Nat)
        BY <1>0
      <4>2. resolved'[c] = Append(resolved[c], i)
        BY <3>1
      <4> QED BY <4>1, <4>2, OneMore
    <3>2. /\ at[c] = "memo" /\ Len(resolved[c]) + 1 \in 1..4
          /\ artifacts' = artifacts /\ failed' = failed
      BY <2>1, <3>more, ResolveEffect, FourInputs
    <3>3. CASE n \in DOMAIN resolved[c]
      BY <1>0, <1>1, <3>more, <3>2, <3>3 DEF FoundOK
    <3>4. CASE n \notin DOMAIN resolved[c]
      <4>1. n = Len(resolved[c]) + 1 /\ resolved'[c][n] = i
        BY <1>1, <3>more, <3>4
      <4>2. OwnsNewest(c, MemoInputs[n])
        BY <1>1, <1>names, <1>own, <3>2, <4>1
      <4>3. LatestArtifact(MemoInputs[n]) \subseteq {Len(artifacts[MemoInputs[n]])}
        BY <1>names, <3>2, <4>1, <4>2, NewestIsFound
      <4> QED BY <3>1, <3>2, <4>1, <4>3
    <3> QED BY <3>3, <3>4
  <2>2. CASE ~ResolveInput(c)
    <3>1. resolved'[c] = resolved[c]
      BY <2>2, LookupSteps, ResolveEffect, LoadEffect
    <3>2. at[c] = "memo"
      BY <1>0, <1>1, <3>1, StaysBehind
    <3>3. n \in 1..4 /\ MemoInputs[n] \in Producers
      BY <1>0, <1>1, <1>names, <3>1
    <3>4. artifacts'[MemoInputs[n]] = artifacts[MemoInputs[n]]
      <4>1. ASSUME NEW d \in Chains, Registers(d)
            PROVE  artifacts'[MemoInputs[n]] = artifacts[MemoInputs[n]]
        <5>1. d = c
          BY <1>0, <3>2, <4>1, ActorsRun DEF TurnsOK, Running, Ended
        <5>2. PICK r \in Nat : Register("memo", r, PathOf(c, "memo"), stamp[c])
          BY <3>2, <4>1, <5>1 DEF Registers
        <5>3. artifacts' = [artifacts EXCEPT !["memo"] =
                Append(artifacts["memo"], [run |-> r, path |-> PathOf(c, "memo"), at |-> stamp[c]])]
          BY <5>2, RegisterEffect
        <5> QED BY <1>names, <3>3, <5>3 DEF TypeOK, IndexTypeOK
      <4> QED BY <4>1, IndexSteps DEF Rewrites
    <3> QED BY <1>0, <1>1, <3>1, <3>2, <3>4 DEF FoundOK
  <2> QED BY <2>1, <2>2
<1>2. ASSUME NEW n \in DOMAIN inputs'[c], MemoInputs[n] \notin failed'[c]
      PROVE  inputs'[c][n] = (IF resolved'[c][n] = 0 THEN 0 ELSE run'[c])
  <2>1. CASE LoadInput(c)
    <3>1. PICK r \in Nat :
            /\ r \in Loaded(MemoInputs[Len(inputs[c]) + 1], resolved[c][Len(inputs[c]) + 1])
            /\ inputs'[c] = Append(inputs[c], r)
      BY <2>1, LoadEffect
    <3>more. /\ Len(inputs[c]) \in Nat /\ inputs'[c][Len(inputs[c]) + 1] = r
             /\ DOMAIN inputs[c] = 1..Len(inputs[c])
             /\ DOMAIN inputs'[c] = 1..(Len(inputs[c]) + 1)
             /\ \A m \in DOMAIN inputs[c] : inputs'[c][m] = inputs[c][m]
      <4>1. inputs[c] \in Seq(Nat)
        BY <1>0
      <4>2. inputs'[c] = Append(inputs[c], r)
        BY <3>1
      <4> QED BY <4>1, <4>2, OneMore
    <3>2. /\ at[c] = "memo" /\ Len(inputs[c]) + 1 \in 1..4 /\ Len(resolved[c]) = 4
          /\ resolved' = resolved /\ run' = run /\ failed' = failed
      BY <2>1, <3>more, LoadEffect, FourInputs
    <3>3. CASE n \in DOMAIN inputs[c]
      BY <1>0, <1>2, <3>more, <3>2, <3>3 DEF FoundOK
    <3>4. CASE n \notin DOMAIN inputs[c]
      <4>1. n = Len(inputs[c]) + 1 /\ inputs'[c][n] = r
        BY <1>2, <3>more, <3>4
      <4>2. n \in DOMAIN resolved[c]
        BY <1>0, <3>2, <4>1
      <4>3. resolved[c][n] \in {0, Len(artifacts[MemoInputs[n]])}
        BY <1>0, <1>2, <3>2, <4>2 DEF FoundOK
      <4>4. CASE resolved[c][n] = 0
        BY <3>1, <3>2, <4>1, <4>4 DEF Loaded
      <4>5. CASE resolved[c][n] # 0
        <5>1. OwnsNewest(c, MemoInputs[n])
          BY <1>2, <1>names, <1>own, <3>2, <4>1
        <5>2. Loaded(MemoInputs[n], resolved[c][n]) \subseteq {run[c]}
          BY <1>names, <3>2, <4>1, <4>3, <4>5, <5>1, NewestIsFound
        <5> QED BY <3>1, <3>2, <4>1, <4>5, <5>2
      <4> QED BY <4>4, <4>5
    <3> QED BY <3>3, <3>4
  <2>2. CASE ~LoadInput(c)
    <3>1. inputs'[c] = inputs[c] /\ inputs[c] # <<>>
      BY <1>0, <1>2, <2>2, LookupSteps, ResolveEffect, LoadEffect
    <3>2. Len(resolved[c]) = 4 /\ ~ResolveInput(c)
      <4>1. Len(resolved[c]) = 4
        BY <1>0, <3>1
      <4>2. ResolveInput(c) => Len(resolved[c]) < 4
        BY ResolveEffect, FourInputs
      <4> QED BY <4>1, <4>2
    <3>3. resolved'[c] = resolved[c]
      BY <3>2, LookupSteps, ResolveEffect, LoadEffect
    <3>4. at[c] # "persist"
      BY <1>0, <1>names, <3>2
    <3>5. run'[c] = run[c]
      BY <3>4, StaysBehind
    <3> QED BY <1>0, <1>2, <3>1, <3>3, <3>5 DEF FoundOK
  <2> QED BY <2>1, <2>2
<1> QED BY <1>1, <1>2

-----------------------------------------------------------------------------
(* The inductive invariant *)

LEMMA ChainInvInit == Init => ChainInv
<1> SUFFICES ASSUME Init PROVE ChainInv
  OBVIOUS
<1> USE DEF Init, IndexInit
<1>1. TypeOK
  <2>1. artifacts \in [Kinds -> Seq(Rows)] /\ files \subseteq Files
    OBVIOUS
  <2>2. status \in [Chains -> [StepIds -> StepStatuses]] /\ package \in [Chains -> Packages]
    BY DEF StepStatuses, Packages, NoPackage
  <2> QED BY <2>1, <2>2, ChainAssumption DEF TypeOK, IndexTypeOK
<1>2. MemoOK
  BY DEF MemoOK
<1>3. RunsOK
  BY DEF RunsOK
<1>4. /\ Preparation \subseteq StepIds /\ Producers \subseteq StepIds
      /\ "idle" \notin ArtifactSteps
  BY DEF StepIds, ArtifactSteps, Producers
<1>5. StageOK
  BY <1>4 DEF StageOK, Persisted
<1>6. StatusOK
  BY <1>4 DEF StatusOK, Persisted
<1>7. PackageOK
  BY DEF PackageOK
<1>8. WrittenOK
  BY DEF WrittenOK
<1>9. RowsOK
  <2>1. {"audit", "sensitivity"} \subseteq Kinds
    BY ChainAssumption DEF ArtifactSteps, Producers
  <2> QED BY <2>1 DEF RowsOK
<1>10. LoadsOK
  BY FourInputs DEF LoadsOK
<1>11. TurnsOK
  BY StepNames DEF TurnsOK, NoneAfter, Running, ArtifactSteps
<1>12. StampOK
  BY DEF StampOK, Producers
<1>13. NewestOK /\ FoundOK
  BY DEF NewestOK, FoundOK, Running
<1> QED BY <1>1, <1>2, <1>3, <1>5, <1>6, <1>7, <1>8, <1>9, <1>10, <1>11, <1>12, <1>13 DEF ChainInv

LEMMA ChainInvNext == ChainInv /\ [Next]_vars => ChainInv'
<1> SUFFICES ASSUME ChainInv, [Next]_vars PROVE ChainInv'
  OBVIOUS
<1>1. /\ TypeOK /\ MemoOK /\ CoreInv /\ WrittenOK /\ RowsOK
      /\ LoadsOK /\ TurnsOK /\ StampOK /\ NewestOK /\ FoundOK
  BY DEF ChainInv, CoreInv
<1>2. TypeOK' /\ MemoOK' /\ CoreInv'
  BY <1>1, TypeStep, MemoStep, CoreInvStep
<1>3. WrittenOK' /\ RowsOK'
  BY <1>1, WrittenStep, RowsStep
<1>4. LoadsOK' /\ TurnsOK' /\ StampOK'
  BY <1>1, LoadsStep, TurnsStep, StampStep
<1>5. NewestOK' /\ FoundOK'
  BY <1>1, NewestStep, FoundStep
<1> QED BY <1>2, <1>3, <1>4, <1>5 DEF ChainInv, CoreInv

\* The invariant holds in every reachable state.
THEOREM ChainInvariance == Spec => []ChainInv
BY ChainInvInit, ChainInvNext, PTL DEF Spec

\* Positions, statuses, index and files keep their types: a step has no status
\* that the report's schema does not know.
THEOREM ChainTypeCorrect == Spec => []TypeOK
<1>1. ChainInv => TypeOK
  BY DEF ChainInv
<1> QED BY <1>1, ChainInvariance, PTL

\* No step that fails takes another with it (orchestrator.py, "Step isolation").
THEOREM StepIsolation == Spec => []StepsAreIsolated
<1>1. ChainInv => StepsAreIsolated
  <2> SUFFICES ASSUME ChainInv, NEW c \in Chains, at[c] \in {"report", "done"},
                      NEW s \in Producers
               PROVE  status[c][s] # "SKIPPED" <=> run[c] \in outputs
    BY DEF StepsAreIsolated
  <2>1. {"report", "done"} \subseteq After(s) \ {"raised", "killed"}
    BY AfterFacts DEF Ended
  <2> QED BY <2>1 DEF ChainInv, StatusOK, Persisted
<1> QED BY <1>1, ChainInvariance, PTL

\* An index row of the audit and the sensitivity kinds leads to a complete
\* document about its own, persisted run, however executions overlap.
THEOREM NamedFiles == Spec => []NamedFilesOfTheirRun
<1>1. ChainInv => NamedFilesOfTheirRun
  BY DEF ChainInv, RowsOK, NamedFilesOfTheirRun
<1> QED BY <1>1, ChainInvariance, PTL

\* Where executions follow one another and no file is deleted, the memo is made
\* from the documents of its own run, never from older ones (orchestrator.py,
\* memo step).
THEOREM MemoIsOfItsRun == Spec => []MemoOfOneRun
<1>1. ChainInv => MemoOfOneRun
  BY DEF ChainInv, FoundOK, MemoOfOneRun, Serial
<1> QED BY <1>1, ChainInvariance, PTL

-----------------------------------------------------------------------------
(* The refinement *)

LEMMA KnowledgeCases ==
  ASSUME NEW c \in Chains
  PROVE  /\ at[c] = "idle" => CallerKnows(c) = "idle"
         /\ at[c] \in {"raised", "killed"} => CallerKnows(c) = "lost"
         /\ at[c] = "done" /\ package[c].status = "FAIL" => CallerKnows(c) = "failed"
         /\ at[c] = "done" /\ package[c].status # "FAIL" => CallerKnows(c) = "complete"
         /\ Running(c) => CallerKnows(c) = "running"
<1>1. CASE at[c] = "idle"
  BY <1>1 DEF CallerKnows, Running, Ended
<1>2. CASE at[c] \in {"raised", "killed"}
  BY <1>2 DEF CallerKnows, Running, Ended
<1>3. CASE at[c] = "done"
  BY <1>3 DEF CallerKnows, Running, Ended
<1>4. CASE at[c] \notin {"idle", "raised", "killed", "done"}
  BY <1>4 DEF CallerKnows, Running, Ended
<1> QED BY <1>1, <1>2, <1>3, <1>4

knowledge == [c \in Chains |-> CallerKnows(c)]
inDatabase == {c \in Chains : run[c] \in outputs}

\* How the mapped state changes with the execution that steps.
LEMMA MappedStep ==
  ASSUME ChainInv, ChainInv', NEW c \in Chains, CoreStep(c)
  PROVE  /\ knowledge' = [knowledge EXCEPT ![c] = CallerKnows(c)']
         /\ Publishes(c) => inDatabase' = inDatabase \cup {c}
         /\ ~Publishes(c) => inDatabase' = inDatabase
<1>0. TypeOK /\ CoreInv
  BY DEF ChainInv, CoreInv
<1>1. ASSUME NEW d \in Chains \ {c} PROVE CallerKnows(d)' = CallerKnows(d)
  <2>1. at'[d] = at[d] /\ package'[d] = package[d]
    BY <1>0, OthersKept
  <2> QED BY <2>1 DEF CallerKnows
<1>2. knowledge' = [knowledge EXCEPT ![c] = CallerKnows(c)']
  BY <1>1 DEF knowledge
<1>3. /\ \A d \in Chains \ {c} : Persisted(d)' <=> Persisted(d)
      /\ Publishes(c) => Persisted(c)'
      /\ ~Publishes(c) => (Persisted(c)' <=> Persisted(c))
  BY <1>0, PersistedStep
<1>4. /\ Publishes(c) => inDatabase' = inDatabase \cup {c}
      /\ ~Publishes(c) => inDatabase' = inDatabase
  BY <1>3 DEF inDatabase, Persisted
<1> QED BY <1>2, <1>4

\* Every step is a step of the contract, or none.
LEMMA ContractStep ==
  ASSUME ChainInv, ChainInv', NEW c \in Chains, CoreStep(c)
  PROVE  Contract!Next \/ UNCHANGED <<knowledge, inDatabase>>
<1> USE DEF Contract!Change
<1>0. TypeOK /\ CoreInv /\ StageOf(c) /\ PackageOf(c)
  BY PartsByExecution DEF ChainInv, CoreInv
<1>1. /\ knowledge' = [knowledge EXCEPT ![c] = CallerKnows(c)']
      /\ Publishes(c) => inDatabase' = inDatabase \cup {c}
      /\ ~Publishes(c) => inDatabase' = inDatabase
  BY MappedStep
<1>2. /\ at[c] = "idle" => CallerKnows(c) = "idle"
      /\ Running(c) => CallerKnows(c) = "running"
  BY KnowledgeCases
<1>3. /\ Running(c)' => CallerKnows(c)' = "running"
      /\ at'[c] \in {"raised", "killed"} => CallerKnows(c)' = "lost"
      /\ at'[c] = "done" /\ package'[c].status = "FAIL" => CallerKnows(c)' = "failed"
      /\ at'[c] = "done" /\ package'[c].status # "FAIL" => CallerKnows(c)' = "complete"
  BY KnowledgeCases DEF Running, CallerKnows, Ended
<1>4. c \in inDatabase <=> Persisted(c)
  BY DEF inDatabase, Persisted
<1>5. /\ knowledge = [d \in Chains |-> CallerKnows(d)]
      /\ knowledge[c] = CallerKnows(c)
      /\ CallerKnows(c)' = CallerKnows(c) => knowledge' = knowledge
  BY <1>1 DEF knowledge
<1>names. /\ Preparation \cup ArtifactSteps \cup {"report"} \subseteq Locations
          /\ (Preparation \cup ArtifactSteps \cup {"report"}) \cap ({"idle"} \cup Ended) = {}
  BY DEF Locations, StepIds, Preparation, ArtifactSteps, Producers, Ended
<1>6. CASE at[c] = "idle"
  <2>1. at'[c] = "payload" /\ Running(c)' /\ ~Publishes(c)
    BY <1>0, <1>6, <1>names DEF CoreStep, Prepares, GivesUp, DrawsRun, Publishes, Advances, EndsStep, Concludes,
       Returns, IsLost, Running, Ended, TypeOK
  <2>2. Contract!Start(c)
    BY <1>1, <1>2, <1>3, <1>5, <1>6, <2>1 DEF Contract!Start, knowledge, inDatabase
  <2> QED BY <2>2 DEF Contract!Next
<1>7. CASE Publishes(c)
  <2>1. Running(c) /\ Running(c)'
    BY <1>0, <1>7 DEF Publishes, Finish, Running, Ended, TypeOK
  <2>2. Contract!Persist(c)
    BY <1>1, <1>2, <1>3, <1>5, <1>7, <2>1 DEF Contract!Persist, knowledge, inDatabase
  <2> QED BY <2>2 DEF Contract!Next
<1>8. CASE Returns(c)
  <2>1. Running(c) /\ at'[c] = "done" /\ ~Publishes(c) /\ package' = package
    BY <1>0, <1>8 DEF Returns, Publishes, Running, Ended, TypeOK
  <2>2. package[c].status = "FAIL" <=> ~Persisted(c)
    BY <1>0, <1>8 DEF Returns, PackageOf
  <2>3. CASE package[c].status = "FAIL"
    <3>1. Contract!Fail(c)
      BY <1>1, <1>2, <1>3, <1>4, <1>5, <2>1, <2>2, <2>3 DEF Contract!Fail, knowledge, inDatabase
    <3> QED BY <3>1 DEF Contract!Next
  <2>4. CASE package[c].status # "FAIL"
    <3>1. Contract!Complete(c)
      BY <1>1, <1>2, <1>3, <1>4, <1>5, <2>1, <2>2, <2>4
         DEF Contract!Complete, knowledge, inDatabase
    <3> QED BY <3>1 DEF Contract!Next
  <2> QED BY <2>3, <2>4
<1>9. CASE IsLost(c)
  <2>1. Running(c) /\ at'[c] \in {"raised", "killed"}
    BY <1>0, <1>9 DEF IsLost, TypeOK
  <2>2. ~Publishes(c)
    BY <1>0, <2>1 DEF Publishes, Finish, TypeOK
  <2>3. Contract!Lose(c)
    BY <1>1, <1>2, <1>3, <1>5, <2>1, <2>2 DEF Contract!Lose, knowledge, inDatabase
  <2> QED BY <2>3 DEF Contract!Next
<1>10. CASE at[c] # "idle" /\ ~Publishes(c) /\ ~Returns(c) /\ ~IsLost(c)
  <2>1. at[c] \in Preparation \cup ArtifactSteps \cup {"report"}
    BY <1>10 DEF CoreStep, Prepares, GivesUp, DrawsRun, Advances, EndsStep, Concludes, Preparation
  <2>2. at'[c] \in Preparation \cup ArtifactSteps \cup {"report"}
    <3>1. CASE Prepares(c) \/ GivesUp(c) \/ EndsStep(c)
      BY <1>0, <1>10, <3>1, StepNames DEF Prepares, GivesUp, EndsStep, Finish, Preparation, TypeOK
    <3>2. CASE DrawsRun(c) \/ Advances(c) \/ Concludes(c)
      BY <2>1, <3>2 DEF DrawsRun, Advances, Concludes
    <3> QED BY <1>10, <3>1, <3>2 DEF CoreStep
  <2>3. Running(c) /\ Running(c)'
    BY <2>1, <2>2, <1>names DEF Running
  <2> QED BY <1>1, <1>2, <1>3, <1>5, <1>10, <2>3
<1> QED BY <1>6, <1>7, <1>8, <1>9, <1>10

\* A caller may rely on the status of the package: a chain is reported as
\* failed exactly if its run is not in the database.
THEOREM ChainKeepsContract == Spec => ImplementsContract
<1>1. Init => Contract!Init
  <2> SUFFICES ASSUME Init PROVE Contract!Init
    OBVIOUS
  <2>1. \A c \in Chains : CallerKnows(c) = "idle"
    BY DEF Init, CallerKnows
  <2>2. {c \in Chains : run[c] \in outputs} = {}
    BY DEF Init
  <2> QED BY <2>1, <2>2 DEF Contract!Init
<1>2. ChainInv /\ ChainInv' /\ [Next]_vars => [Contract!Next]_<<knowledge, inDatabase>>
  <2> SUFFICES ASSUME ChainInv, ChainInv', [Next]_vars
               PROVE  Contract!Next \/ UNCHANGED <<knowledge, inDatabase>>
    OBVIOUS
  <2>1. ASSUME UNCHANGED coreVars PROVE UNCHANGED <<knowledge, inDatabase>>
    BY <2>1 DEF coreVars, knowledge, inDatabase, CallerKnows
  <2>2. TypeOK /\ MemoOK
    BY DEF ChainInv
  <2> QED BY <2>1, <2>2, CoreSteps, ContractStep
<1>3. [][Contract!Next]_<<knowledge, inDatabase>> /\ Contract!Init => Contract!Spec
  BY DEF Contract!Spec, knowledge, inDatabase
<1>4. Spec => Contract!Spec
  BY <1>1, <1>2, <1>3, ChainInvariance, PTL DEF Spec
<1> QED BY <1>4 DEF ImplementsContract
=============================================================================
