--------------------------- MODULE ChainContract ----------------------------
(***************************************************************************)
(* What run_research_company promises its caller: an execution that is     *)
(* reported as complete has its run in the database, one that is reported  *)
(* as failed has not, and one that is killed or raises says nothing.       *)
(***************************************************************************)
CONSTANT Chains

VARIABLES verdict,   \* per execution, what its caller knows
          persisted  \* the executions whose run is in the database

Verdicts == {"idle", "running", "complete", "failed", "lost"}

Change(c, from, to) == verdict[c] = from /\ verdict' = [verdict EXCEPT ![c] = to]

Start(c) == Change(c, "idle", "running") /\ UNCHANGED persisted

Persist(c) ==
  /\ verdict[c] = "running"
  /\ persisted' = persisted \cup {c}
  /\ UNCHANGED verdict

Complete(c) == c \in persisted /\ Change(c, "running", "complete") /\ UNCHANGED persisted
Fail(c)     == c \notin persisted /\ Change(c, "running", "failed") /\ UNCHANGED persisted
Lose(c)     == Change(c, "running", "lost") /\ UNCHANGED persisted

Init == verdict = [c \in Chains |-> "idle"] /\ persisted = {}

Next == \E c \in Chains : Start(c) \/ Persist(c) \/ Complete(c) \/ Fail(c) \/ Lose(c)

Spec == Init /\ [][Next]_<<verdict, persisted>>
=============================================================================
