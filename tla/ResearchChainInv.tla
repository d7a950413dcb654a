------------------------- MODULE ResearchChainInv ---------------------------
(***************************************************************************)
(* The inductive invariant behind the safety properties of ResearchChain.  *)
(***************************************************************************)
EXTENDS ResearchChain

\* The steps a chain can be in once it has left producer p.
After(p) ==
  {"memo", "report"} \cup Ended \cup
  CASE p = "audit"         -> {"sensitivity", "explain", "business_risk", "conflict_report"}
    [] p = "sensitivity"   -> {"explain", "business_risk", "conflict_report"}
    [] p = "explain"       -> {"business_risk", "conflict_report"}
    [] p = "business_risk" -> {"conflict_report"}
    [] OTHER               -> {}

Persisted(c) == run[c] \in outputs

\* A memo that is being written was made from all its inputs.
MemoOK ==
  \A c \in Chains :
    at[c] = "memo" /\ phase[c] # "start" => Len(inputs[c]) = Len(MemoInputs)

\* Run ids are unique and were drawn from the counter.
RunsOK ==
  /\ outputs \subseteq 1..(nextRun - 1)
  /\ \A c \in Chains : run[c] < nextRun
  /\ \A c, d \in Chains : run[c] = run[d] /\ run[c] # 0 => c = d

\* Where an execution is tells whether its run is in the database.
StageOK ==
  \A c \in Chains :
    /\ at[c] \in {"idle", "payload", "engine"} => run[c] = 0
    /\ at[c] = "persist" => ~Persisted(c)
    /\ at[c] = "persist" /\ phase[c] = "insert" => run[c] # 0
    /\ at[c] \in {"idle"} \cup Preparation =>
         \A s \in Preparation : status[c][s] # "FAIL"
    /\ at[c] \in ArtifactSteps => Persisted(c)
    /\ at[c] \in {"report", "done"} =>
         (Persisted(c) <=> \A s \in Preparation : status[c][s] # "FAIL")
    /\ Persisted(c) => \A s \in Preparation : status[c][s] # "FAIL"

\* The producers an execution has left are attempted; the others are not.
StatusOK ==
  \A c \in Chains : \A p \in Producers :
    /\ Persisted(c) /\ at[c] \in After(p) \ {"raised", "killed"} => status[c][p] # "SKIPPED"
    /\ ~Persisted(c) => status[c][p] = "SKIPPED"

\* A computed package says whether the run is in the database.
PackageOK ==
  \A c \in Chains :
    (at[c] = "report" /\ phase[c] # "start") \/ at[c] = "done" =>
      (package[c].status = "FAIL" <=> ~Persisted(c))

\* The document an execution is about to register is its own, if its name says so.
WrittenOK ==
  \A c \in Chains :
    at[c] \in {"audit", "sensitivity"} /\ phase[c] = "insert" =>
      \A f \in files : f.path = PathOf(c, at[c]) => f.whole /\ f.about = run[c]

\* Whoever registered a row of those kinds has left the step that writes the file.
RowsOK ==
  \A k \in {"audit", "sensitivity"} : \A i \in DOMAIN artifacts[k] :
    /\ artifacts[k][i].path.kind = k
    /\ artifacts[k][i].path.run = artifacts[k][i].run
    /\ artifacts[k][i].run \in outputs
    /\ \A c \in Chains : run[c] = artifacts[k][i].run => at[c] \in After(k)
    /\ \A f \in files :
         f.path = artifacts[k][i].path => f.whole /\ f.about = artifacts[k][i].run

\* Documents are looked up by the memo step, and loaded when all are looked up.
LoadsOK ==
  \A c \in Chains :
    /\ at[c] \in {"idle"} \cup Preparation \cup Producers => resolved[c] = <<>>
    /\ Len(resolved[c]) <= Len(MemoInputs) /\ Len(inputs[c]) <= Len(MemoInputs)
    /\ inputs[c] # <<>> => Len(resolved[c]) = Len(MemoInputs)

\* The rest supposes that executions follow one another and no file is deleted.
Serial == ~Overlap /\ deletes = 0

\* There is a complete document about the run of c where s puts it.
IsThere(c, s) ==
  /\ Exists(PathOf(c, s))
  /\ \A f \in files : f.path = PathOf(c, s) => f.whole /\ f.about = run[c]

\* No row of kind s was registered later than at second t.
NoneAfter(s, t) == \A i \in DOMAIN artifacts[s] : artifacts[s][i].at <= t

\* The newest row of kind s leads to the document of c.
OwnsNewest(c, s) ==
  LET n == Len(artifacts[s]) IN
  /\ n # 0
  /\ artifacts[s][n].path = PathOf(c, s)
  /\ NoneAfter(s, artifacts[s][n].at)
  /\ IsThere(c, s)

\* Executions do not overlap and no row is dated ahead of the clock.
TurnsOK ==
  Serial =>
    /\ \A c, d \in Chains : Running(c) /\ Running(d) => c = d
    /\ \A s \in Producers : NoneAfter(s, clock)

\* The row that an execution is about to insert will be the newest one.
StampOK ==
  Serial =>
    \A c \in Chains : at[c] \in Producers /\ phase[c] = "insert" =>
      stamp[c] <= clock /\ NoneAfter(at[c], stamp[c]) /\ IsThere(c, at[c])

\* The execution that runs has registered the newest artifact of every producer
\* that it has left and that did not fail.
NewestOK ==
  Serial =>
    \A c \in Chains : \A s \in Producers :
      Running(c) /\ Persisted(c) /\ at[c] \in After(s) /\ s \notin failed[c] => OwnsNewest(c, s)

\* The memo step finds those, and what it has loaded is about its own run.
FoundOK ==
  Serial =>
    \A c \in Chains :
      /\ at[c] = "memo" =>
           \A n \in DOMAIN resolved[c] :
             MemoInputs[n] \notin failed[c] =>
               resolved[c][n] \in {0, Len(artifacts[MemoInputs[n]])}
      /\ \A n \in DOMAIN inputs[c] :
           MemoInputs[n] \notin failed[c] =>
             inputs[c][n] = (IF resolved[c][n] = 0 THEN 0 ELSE run[c])

\* The inductive invariant of the proofs, part by part.
ChainInv ==
  /\ TypeOK
  /\ MemoOK
  /\ RunsOK
  /\ StageOK
  /\ StatusOK
  /\ PackageOK
  /\ WrittenOK
  /\ RowsOK
  /\ LoadsOK
  /\ TurnsOK
  /\ StampOK
  /\ NewestOK
  /\ FoundOK
=============================================================================
