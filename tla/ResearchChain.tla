--------------------------- MODULE ResearchChain ----------------------------
(***************************************************************************)
(* research/orchestrator.py: executions of run_research_company for one    *)
(* given ticker over one database and its artifact index.  (Without one,   *)
(* the ticker is the payload's, and an unreadable payload is reported      *)
(* under the ticker UNKNOWN, where nobody looks.)                          *)
(*                                                                         *)
(* An execution takes nine steps.  If the payload, the engine or the       *)
(* persist step fails, nothing else runs.  The six after them each write   *)
(* files and register them; one that raises is recorded as FAIL and the    *)
(* next one starts.  The memo looks its inputs up in the index.  At the    *)
(* end comes a report, on disk and, if possible, in the index.             *)
(*                                                                         *)
(* Every producer writes and registers a JSON document and its rendering   *)
(* in Markdown.  Nobody reads the rendering back, so it is left out, but   *)
(* not the failure between the two.  The persist step is modelled in       *)
(* detail in Store; here it is create_run (with what comes before it) and  *)
(* save_output.                                                            *)
(***************************************************************************)
EXTENDS ArtifactIndex

CONSTANTS Chains,       \* the executions
          NoChain,      \* nobody holds the database's write lock
          DirOf,        \* the output directory each is given
          Overlap,      \* may one start while another runs?
          EngineOutput, \* the checks the engine computes for the ticker
          MaxFaults,    \* bound: steps that raise, kills not counted
          MaxLimits,    \* bound: payload warnings and verdicts other than PASS
          MaxKills,     \* bound: executions that are killed
          MaxDeletes    \* bound: files deleted by hand

Preparation == {"payload", "engine", "persist"}
Producers   == {"audit", "sensitivity", "explain", "business_risk", "conflict_report"}
ArtifactSteps == Producers \cup {"memo"}
StepIds     == Preparation \cup ArtifactSteps

ASSUME ChainAssumption ==
  /\ NoChain \notin Chains
  /\ DirOf \in [Chains -> Dirs]
  /\ Overlap \in BOOLEAN
  /\ Kinds = ArtifactSteps \cup {"report"}
  /\ MaxFaults \in Nat /\ MaxLimits \in Nat /\ MaxKills \in Nat /\ MaxDeletes \in Nat

ASSUME EngineOutputFinite == IsFiniteSet(EngineOutput)

\* STEP_DEFINITIONS; the report follows the last step.
NextStep == [payload |-> "engine", engine |-> "persist", persist |-> "audit",
             audit |-> "sensitivity", sensitivity |-> "explain",
             explain |-> "business_risk", business_risk |-> "conflict_report",
             conflict_report |-> "memo", memo |-> "report"]

VARIABLES at,        \* per execution, the step it is in
          phase,     \* how far it is in that step
          status,    \* the status of every step
          failed,    \* the steps with reason code RESEARCH_CHAIN_STEP_FAILED
          warned,    \* are there payload warnings?
          run,       \* the run_id of its run, 0 before create_run
          stamp,     \* the created_at of the row it is about to insert
          resolved,  \* the rowids the memo step found, 0 for None
          inputs,    \* the runs the documents it loaded are about, 0 for None
          package,   \* what run_research_company returns
          outputs,   \* the runs whose output is committed
          holder,    \* whose connection holds the database's write lock
          nextRun,   \* the next unused run id
          faults, limits, kills, deletes

chainVars == <<at, phase, status, failed, warned, run, stamp, resolved, inputs, package>>
countVars == <<faults, limits, kills, deletes>>
vars == <<indexVars, chainVars, outputs, holder, nextRun, countVars>>

Ended == {"done", "raised", "killed"}
Running(c) == at[c] \notin {"idle"} \cup Ended

NoPackage == [status |-> "none", run |-> 0, unknown_checks |-> 0]

-----------------------------------------------------------------------------
(* Helpers *)

\* Wrong variant: the file names do not hold the run id.
PathWithoutRun(c, k) == [dir |-> DirOf[c], kind |-> k, run |-> 0]

\* Only the audit and the sensitivity artifacts have the run id in their name.
PathOf(c, k) ==
  [dir |-> DirOf[c], kind |-> k,
   run |-> IF k \in {"audit", "sensitivity"} THEN run[c] ELSE 0]

\* In the order the memo step asks for them.  The thesis, decision and
\* portfolio artifacts come from other commands and name no run.
MemoInputs == <<"audit", "explain", "sensitivity", "business_risk">>

\* Wrong variant: the status of the conflict report is passed on as it is.
VerdictsVerbatim(s) == CASE s = "conflict_report" -> {"PASS", "PASS_WITH_LIMITATIONS", "FAIL"}
                         [] OTHER                 -> {"PASS", "UNKNOWN"}

\* The statuses a step that does not raise can record.
Verdicts(s) == CASE s = "sensitivity"     -> {"PASS", "UNKNOWN"}
                 [] s = "business_risk"   -> {"PASS", "UNKNOWN"}
                 [] s = "conflict_report" -> {"PASS", "FAIL"}
                 [] s = "memo"            -> {"PASS", "FAIL"}
                 [] OTHER                 -> {"PASS"}

\* _count_unknown_checks compares the field "status" of each check.
UnknownChecks(checks) ==
  Cardinality({k \in checks : "status" \in DOMAIN k /\ k["status"] = "UNKNOWN"})

\* Wrong variant: only a failed engine makes the chain fail.
OverallEngine(c) ==
  IF status[c]["engine"] = "FAIL" THEN "FAIL"
  ELSE IF \E s \in StepIds : status[c][s] # "PASS" THEN "PASS_WITH_LIMITATIONS" ELSE "PASS"

\* The status of the chain (_finalize).
Overall(c) ==
  IF \E s \in Preparation : status[c][s] = "FAIL" THEN "FAIL"
  ELSE IF warned[c] \/ \E s \in StepIds : status[c][s] # "PASS"
       THEN "PASS_WITH_LIMITATIONS"
       ELSE "PASS"

\* A statement of c's gets the write lock.
LockFree(c) == holder \in {NoChain, c}

\* Something raises that has to do with c's own step only.
Fault == faults < MaxFaults /\ faults' = faults + 1

\* The INSERT raises "database is locked": another connection keeps the write
\* lock for longer than sqlite3's timeout.
Busy(c) == ~LockFree(c) /\ UNCHANGED faults

\* Step s ends with this status and the next one begins.
Finish(c, s, st, next) ==
  /\ status' = [status EXCEPT ![c][s] = st]
  /\ at' = [at EXCEPT ![c] = next]
  /\ phase' = [phase EXCEPT ![c] = "start"]

Limited(b) == IF b THEN limits < MaxLimits /\ limits' = limits + 1 ELSE UNCHANGED limits

-----------------------------------------------------------------------------
(* Payload, engine, persist *)

Begin(c) ==
  /\ at[c] = "idle"
  /\ Overlap \/ \A d \in Chains : ~Running(d)
  /\ at' = [at EXCEPT ![c] = "payload"]
  /\ UNCHANGED <<indexVars, phase, status, failed, warned, run, stamp, resolved, inputs,
                 package, outputs, holder, nextRun, countVars>>

\* The payload is read or built and the curated data injected; a missing
\* averages file and stale rates leave warnings.
PayloadBuilt(c) ==
  /\ at[c] = "payload"
  /\ \E w \in BOOLEAN : warned' = [warned EXCEPT ![c] = w] /\ Limited(w)
  /\ Finish(c, "payload", "PASS", "engine")
  /\ UNCHANGED <<indexVars, failed, run, stamp, resolved, inputs, package,
                 outputs, holder, nextRun, faults, kills, deletes>>

EngineRuns(c) ==
  /\ at[c] = "engine"
  /\ Finish(c, "engine", "PASS", "persist")
  /\ UNCHANGED <<indexVars, failed, warned, run, stamp, resolved, inputs, package,
                 outputs, holder, nextRun, countVars>>

\* The payload or the engine raises: _finalize follows at once.
PreparationFails(c) ==
  /\ at[c] \in {"payload", "engine"}
  /\ Fault
  /\ Finish(c, at[c], "FAIL", "report")
  /\ UNCHANGED <<indexVars, failed, warned, run, stamp, resolved, inputs, package,
                 outputs, holder, nextRun, limits, kills, deletes>>

\* create_run and the methods before it commit.
RunCreated(c) ==
  /\ at[c] = "persist"
  /\ phase[c] = "start"
  /\ LockFree(c)
  /\ run' = [run EXCEPT ![c] = nextRun]
  /\ nextRun' = nextRun + 1
  /\ phase' = [phase EXCEPT ![c] = "insert"]
  /\ UNCHANGED <<indexVars, at, status, failed, warned, stamp, resolved, inputs, package,
                 outputs, holder, countVars>>

\* save_output commits.
OutputSaved(c) ==
  /\ at[c] = "persist"
  /\ phase[c] = "insert"
  /\ LockFree(c)
  /\ outputs' = outputs \cup {run[c]}
  /\ Finish(c, "persist", "PASS", "audit")
  /\ UNCHANGED <<indexVars, failed, warned, run, stamp, resolved, inputs, package,
                 holder, nextRun, countVars>>

\* A method of the store raises.  Nobody closes the connection before
\* run_research_company returns: if a row was inserted and not committed, the
\* connection keeps the write lock until then.
PersistFails(c) ==
  /\ at[c] = "persist"
  /\ \/ Busy(c) /\ UNCHANGED holder
     \/ Fault /\ UNCHANGED holder
     \/ Fault /\ LockFree(c) /\ holder' = c
  /\ Finish(c, "persist", "FAIL", "report")
  /\ UNCHANGED <<indexVars, failed, warned, run, stamp, resolved, inputs, package,
                 outputs, nextRun, limits, kills, deletes>>

-----------------------------------------------------------------------------
(* The steps that write artifacts *)

\* The producer has its result and opens the file.
StartWriting(c, s) ==
  /\ Truncate(PathOf(c, s))
  /\ phase' = [phase EXCEPT ![c] = "writing"]
  /\ UNCHANGED <<artifacts, clock, at, status, failed, warned, run, stamp, resolved,
                 inputs, package, outputs, holder, nextRun, countVars>>

\* The five producers read the persisted run, or the payload, of this execution.
Produce(c) ==
  /\ at[c] \in Producers
  /\ phase[c] = "start"
  /\ StartWriting(c, at[c])

\* The run a document is about: the memo takes its run_id from the audit summary.
About(c, s) == IF s = "memo" THEN inputs[c][1] ELSE run[c]

\* Both files are written and the first row gets its created_at.
FileWritten(c) ==
  /\ at[c] \in ArtifactSteps
  /\ phase[c] = "writing"
  /\ WriteOut(PathOf(c, at[c]), About(c, at[c]))
  /\ stamp' = [stamp EXCEPT ![c] = clock]
  /\ phase' = [phase EXCEPT ![c] = "insert"]
  /\ UNCHANGED <<artifacts, clock, at, status, failed, warned, run, resolved, inputs,
                 package, outputs, holder, nextRun, countVars>>

RegisterArtifact(c) == Register(at[c], run[c], PathOf(c, at[c]), stamp[c])

\* register_paths commits both rows and the step records its verdict.
Indexed(c) ==
  /\ at[c] \in ArtifactSteps
  /\ phase[c] = "insert"
  /\ LockFree(c)
  /\ RegisterArtifact(c)
  /\ \E st \in Verdicts(at[c]) :
       /\ Limited(st # "PASS")
       /\ Finish(c, at[c], st, NextStep[at[c]])
  /\ UNCHANGED <<files, clock, failed, warned, run, stamp, resolved, inputs, package,
                 outputs, holder, nextRun, faults, kills, deletes>>

\* Wrong variant: an exception ends the chain.
StepFailsForGood(c) ==
  /\ at[c] \in ArtifactSteps
  /\ \/ Fault /\ UNCHANGED artifacts
     \/ phase[c] = "insert" /\ Busy(c) /\ UNCHANGED artifacts
  /\ failed' = [failed EXCEPT ![c] = @ \cup {at[c]}]
  /\ Finish(c, at[c], "FAIL", "report")
  /\ UNCHANGED <<files, clock, warned, run, stamp, resolved, inputs, package,
                 outputs, holder, nextRun, limits, kills, deletes>>

\* A step raises: while it computes or writes, at the first row, or between
\* the two rows.  Only its own result is lost.
StepFails(c) ==
  /\ at[c] \in ArtifactSteps
  /\ \/ Fault /\ UNCHANGED artifacts
     \/ phase[c] = "insert" /\ Busy(c) /\ UNCHANGED artifacts
     \/ phase[c] = "insert" /\ LockFree(c) /\ Fault /\ RegisterArtifact(c)
  /\ failed' = [failed EXCEPT ![c] = @ \cup {at[c]}]
  /\ Finish(c, at[c], "FAIL", NextStep[at[c]])
  /\ UNCHANGED <<files, clock, warned, run, stamp, resolved, inputs, package,
                 outputs, holder, nextRun, limits, kills, deletes>>

-----------------------------------------------------------------------------
(* The memo *)

\* The next kind is looked up.  A query that raises OperationalError is taken
\* for one of a table that is not there yet: nothing is found.
ResolveInput(c) ==
  /\ at[c] = "memo"
  /\ phase[c] = "start"
  /\ Len(resolved[c]) < Len(MemoInputs)
  /\ \/ /\ \E i \in LatestArtifact(MemoInputs[Len(resolved[c]) + 1]) :
             resolved' = [resolved EXCEPT ![c] = Append(@, i)]
        /\ UNCHANGED faults
     \/ Fault /\ resolved' = [resolved EXCEPT ![c] = Append(@, 0)]
  /\ UNCHANGED <<indexVars, at, phase, status, failed, warned, run, stamp, inputs,
                 package, outputs, holder, nextRun, limits, kills, deletes>>

AllResolved(c) == at[c] = "memo" /\ phase[c] = "start" /\ Len(resolved[c]) = Len(MemoInputs)

\* No audit summary was found.
MemoSkipped(c) ==
  /\ AllResolved(c)
  /\ resolved[c][1] = 0
  /\ Finish(c, "memo", "SKIPPED", "report")
  /\ UNCHANGED <<indexVars, failed, warned, run, stamp, resolved, inputs, package,
                 outputs, holder, nextRun, countVars>>

\* load_json_artifact: what the file at the path of row i of kind k holds, as a
\* set of at most one run; 0 if the file is gone.
Loaded(k, i) ==
  IF i = 0 \/ ~Exists(artifacts[k][i].path) THEN {0}
  ELSE {f.about : f \in {g \in files : g.path = artifacts[k][i].path /\ g.whole}}

\* The next document is loaded; only the audit summary is required.
LoadInput(c) ==
  LET n == Len(inputs[c]) + 1 IN
  /\ AllResolved(c)
  /\ resolved[c][1] # 0
  /\ n <= Len(MemoInputs)
  /\ \E r \in Loaded(MemoInputs[n], resolved[c][n]) :
       /\ n = 1 => r # 0
       /\ inputs' = [inputs EXCEPT ![c] = Append(@, r)]
  /\ UNCHANGED <<indexVars, at, phase, status, failed, warned, run, stamp, resolved,
                 package, outputs, holder, nextRun, countVars>>

\* The document is torn, or the audit summary has gone since it was resolved.
LoadRaises(c) ==
  LET n == Len(inputs[c]) + 1 IN
  /\ AllResolved(c)
  /\ resolved[c][1] # 0
  /\ n <= Len(MemoInputs)
  /\ Loaded(MemoInputs[n], resolved[c][n]) \subseteq (IF n = 1 THEN {0} ELSE {})
  /\ failed' = [failed EXCEPT ![c] = @ \cup {"memo"}]
  /\ Finish(c, "memo", "FAIL", "report")
  /\ UNCHANGED <<indexVars, warned, run, stamp, resolved, inputs, package,
                 outputs, holder, nextRun, countVars>>

WriteMemo(c) ==
  /\ AllResolved(c)
  /\ Len(inputs[c]) = Len(MemoInputs)
  /\ StartWriting(c, "memo")

-----------------------------------------------------------------------------
(* The report: _finalize *)

\* The statuses are summed up, the text passes the wording guard, and the
\* report file is opened.
StartReport(c) ==
  /\ at[c] = "report"
  /\ phase[c] = "start"
  /\ package' = [package EXCEPT ![c] =
       [status |-> Overall(c),
        run |-> IF status[c]["persist"] = "PASS" THEN run[c] ELSE 0,
        unknown_checks |-> IF status[c]["engine"] = "PASS"
                           THEN UnknownChecks(EngineOutput) ELSE 0]]
  /\ Truncate(PathOf(c, "report"))
  /\ phase' = [phase EXCEPT ![c] = "writing"]
  /\ UNCHANGED <<artifacts, clock, at, status, failed, warned, run, stamp, resolved, inputs,
                 outputs, holder, nextRun, countVars>>

ReportWritten(c) ==
  /\ at[c] = "report"
  /\ phase[c] = "writing"
  /\ WriteOut(PathOf(c, "report"), package[c].run)
  /\ stamp' = [stamp EXCEPT ![c] = clock]
  /\ phase' = [phase EXCEPT ![c] = "insert"]
  /\ UNCHANGED <<artifacts, clock, at, status, failed, warned, run, resolved, inputs,
                 package, outputs, holder, nextRun, countVars>>

\* run_research_company is left; with it goes the connection of a persist step
\* that raised.
Leave(c, how) ==
  /\ at' = [at EXCEPT ![c] = how]
  /\ holder' = IF holder = c THEN NoChain ELSE holder

\* The report is registered, through a connection of its own.
ReportRegistered(c) ==
  /\ at[c] = "report"
  /\ phase[c] = "insert"
  /\ holder = NoChain
  /\ Register("report", package[c].run, PathOf(c, "report"), stamp[c])
  /\ Leave(c, "done")
  /\ UNCHANGED <<files, clock, phase, status, failed, warned, run, stamp, resolved, inputs,
                 package, outputs, nextRun, countVars>>

\* Wrong variant: the registration waits for the write lock as long as it takes.
ReportNeverGivesUp(c) ==
  /\ at[c] = "report"
  /\ phase[c] = "insert"
  /\ Fault
  /\ Leave(c, "done")
  /\ UNCHANGED <<indexVars, phase, status, failed, warned, run, stamp, resolved, inputs,
                 package, outputs, nextRun, limits, kills, deletes>>

\* Registration is best-effort.  It cannot succeed while the connection of this
\* execution's own persist step still has the write lock.
ReportNotRegistered(c) ==
  /\ at[c] = "report"
  /\ phase[c] = "insert"
  /\ \/ Fault
     \/ holder # NoChain /\ UNCHANGED faults
  /\ Leave(c, "done")
  /\ UNCHANGED <<indexVars, phase, status, failed, warned, run, stamp, resolved, inputs,
                 package, outputs, nextRun, limits, kills, deletes>>

\* The wording guard rejects the report, or it cannot be written: _finalize
\* raises and nothing is returned.
ReportRaises(c) ==
  /\ at[c] = "report"
  /\ phase[c] \in {"start", "writing"}
  /\ Fault
  /\ package' = [package EXCEPT ![c] = NoPackage]
  /\ Leave(c, "raised")
  /\ UNCHANGED <<indexVars, phase, status, failed, warned, run, stamp, resolved, inputs,
                 outputs, nextRun, limits, kills, deletes>>

-----------------------------------------------------------------------------
(* The environment *)

Kill(c) ==
  /\ Running(c)
  /\ kills < MaxKills
  /\ kills' = kills + 1
  /\ Leave(c, "killed")
  /\ package' = [package EXCEPT ![c] = NoPackage]
  /\ UNCHANGED <<indexVars, phase, status, failed, warned, run, stamp, resolved, inputs,
                 outputs, nextRun, faults, limits, deletes>>

Delete ==
  /\ deletes < MaxDeletes
  /\ deletes' = deletes + 1
  /\ \E f \in files : DeleteFile(f)
  /\ UNCHANGED <<artifacts, clock, chainVars, outputs, holder, nextRun, faults, limits, kills>>

TimePasses == Tick /\ UNCHANGED <<chainVars, outputs, holder, nextRun, countVars>>

ChainStep(c) ==
  \/ PayloadBuilt(c)
  \/ EngineRuns(c)
  \/ PreparationFails(c)
  \/ RunCreated(c)
  \/ OutputSaved(c)
  \/ PersistFails(c)
  \/ Produce(c)
  \/ FileWritten(c)
  \/ Indexed(c)
  \/ StepFails(c)
  \/ ResolveInput(c)
  \/ MemoSkipped(c)
  \/ LoadInput(c)
  \/ LoadRaises(c)
  \/ WriteMemo(c)
  \/ StartReport(c)
  \/ ReportWritten(c)
  \/ ReportRegistered(c)
  \/ ReportNotRegistered(c)
  \/ ReportRaises(c)

AllEnded == \A c \in Chains : at[c] \in Ended

\* Nothing is left to do.
Idle == AllEnded /\ UNCHANGED vars

Next ==
  \/ \E c \in Chains : Begin(c) \/ ChainStep(c) \/ Kill(c)
  \/ Delete
  \/ TimePasses
  \/ Idle

Init ==
  /\ IndexInit
  /\ at = [c \in Chains |-> "idle"]
  /\ phase = [c \in Chains |-> "start"]
  /\ status = [c \in Chains |-> [s \in StepIds |-> "SKIPPED"]]
  /\ failed = [c \in Chains |-> {}]
  /\ warned = [c \in Chains |-> FALSE]
  /\ run = [c \in Chains |-> 0]
  /\ stamp = [c \in Chains |-> 0]
  /\ resolved = [c \in Chains |-> <<>>]
  /\ inputs = [c \in Chains |-> <<>>]
  /\ package = [c \in Chains |-> NoPackage]
  /\ outputs = {}
  /\ holder = NoChain
  /\ nextRun = 1
  /\ faults = 0 /\ limits = 0 /\ kills = 0 /\ deletes = 0

Spec == Init /\ [][Next]_vars

\* The operating system runs a process that can run.  Nobody has to start an
\* execution, kill it or delete a file.
FairSpec == Spec /\ \A c \in Chains : WF_vars(ChainStep(c))

-----------------------------------------------------------------------------
(* Types *)

StepStatuses == {"SKIPPED", "PASS", "UNKNOWN", "FAIL"}

Packages == [status : {"none", "PASS", "PASS_WITH_LIMITATIONS", "FAIL"},
             run : Nat, unknown_checks : Nat]

\* Values stay in their types: the report schema allows no other step status.
TypeOK ==
  /\ IndexTypeOK
  /\ at \in [Chains -> {"idle", "report"} \cup StepIds \cup Ended]
  /\ phase \in [Chains -> {"start", "writing", "insert"}]
  /\ status \in [Chains -> [StepIds -> StepStatuses]]
  /\ failed \in [Chains -> SUBSET ArtifactSteps]
  /\ warned \in [Chains -> BOOLEAN]
  /\ run \in [Chains -> Nat]
  /\ stamp \in [Chains -> Nat]
  /\ resolved \in [Chains -> Seq(Nat)]
  /\ inputs \in [Chains -> Seq(Nat)]
  /\ package \in [Chains -> Packages]
  /\ outputs \subseteq Nat
  /\ holder \in Chains \cup {NoChain}
  /\ nextRun \in Nat \ {0}
  /\ faults \in Nat /\ limits \in Nat /\ kills \in Nat /\ deletes \in Nat

-----------------------------------------------------------------------------
(* Properties *)

\* An index row of a kind whose file names hold the run id never leads to a
\* half-written document, nor to one about another run, and that run's output
\* is in the database: whatever else runs, fails or is killed.
NamedFilesOfTheirRun ==
  \A k \in {"audit", "sensitivity"} : \A i \in DOMAIN artifacts[k] :
    /\ artifacts[k][i].run \in outputs
    /\ \A f \in files :
         f.path = artifacts[k][i].path => f.whole /\ f.about = artifacts[k][i].run

\* If executions follow one another and nobody deletes files, the memo is made
\* from this execution's documents, wherever the step that makes them did not
\* fail, or without one that the index could not be asked for: it never hands
\* out an older one (orchestrator.py, memo step).
MemoOfOneRun ==
  ~Overlap /\ deletes = 0 =>
    \A c \in Chains : \A n \in DOMAIN inputs[c] :
      MemoInputs[n] \notin failed[c] =>
        inputs[c][n] = (IF resolved[c][n] = 0 THEN 0 ELSE run[c])

\* A step that fails takes no other with it: once the run is persisted, all five
\* producers have been attempted before the report (orchestrator.py, "Step
\* isolation"), and without it none has.
StepsAreIsolated ==
  \A c \in Chains : at[c] \in {"report", "done"} =>
    \A s \in Producers : status[c][s] # "SKIPPED" <=> run[c] \in outputs

\* What the caller of run_research_company knows of the execution.
CallerKnows(c) ==
  CASE at[c] = "idle" -> "idle"
    [] at[c] \in {"raised", "killed"} -> "lost"
    [] at[c] = "done" /\ package[c].status = "FAIL" -> "failed"
    [] at[c] = "done" /\ package[c].status # "FAIL" -> "complete"
    [] OTHER -> "running"

Contract == INSTANCE ChainContract WITH
  verdict <- [c \in Chains |-> CallerKnows(c)],
  persisted <- {c \in Chains : run[c] \in outputs}

\* The chain is reported as failed exactly if its run is not in the database
\* (orchestrator.py, _finalize).
ImplementsContract == Contract!Spec

\* Every execution ends, even when its own persist step has left the database
\* locked.
ChainsEnd == \A c \in Chains : at[c] = "payload" ~> at[c] \in Ended

-----------------------------------------------------------------------------
(* Promises of the documentation that the code does not keep *)

\* "if the audit step failed, the memo is honestly SKIPPED, never fabricated"
\* (docs/research_company_orchestrator.md).
MemoSkippedWithoutAudit ==
  \A c \in Chains :
    /\ at[c] = "report"
    /\ "audit" \in failed[c]
    /\ \A i \in DOMAIN artifacts["audit"] : artifacts["audit"][i].run # run[c]
    => status[c]["memo"] = "SKIPPED"

\* "unknown_summary lists UNKNOWN, failed and skipped steps plus the engine
\* output's UNKNOWN check count" (docs/research_company_orchestrator.md).
UnknownChecksAreCounted ==
  \A c \in Chains :
    package[c].status \in {"PASS", "PASS_WITH_LIMITATIONS"} =>
      package[c].unknown_checks = Cardinality({k \in EngineOutput : k.result = "UNKNOWN"})
=============================================================================
