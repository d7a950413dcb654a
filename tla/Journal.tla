------------------------------ MODULE Journal -------------------------------
(***************************************************************************)
(* The decision journal (research/journal.py): a file of one JSON line per *)
(* decision, appended to by the commands an operator runs, several at a    *)
(* time, and by nobody else (the API keeps no journal).                    *)
(*                                                                         *)
(* A line is the sequence of what was appended to it since the last line   *)
(* end, each part a whole decision or the torn begin of one.  A write that *)
(* fails on a full disk, or whose process is killed, tears its decision.   *)
(* A command that fails after its line was appended is run again.          *)
(***************************************************************************)
EXTENDS Naturals, Sequences, FiniteSets, SequencesExt

CONSTANTS
  Writers,        \* the processes that record a decision each
  DecisionType,   \* DecisionType[w]: the type the decision of w has
  MaxTears        \* commands that fail or are killed, part-way in the line or after it

VARIABLES
  lines,     \* the ended lines of the file
  open,      \* what was appended since the last line end
  recorder,  \* recorder[w]: "idle", "built", "written", "acknowledged", "refused", "torn", "failed"
  tears,     \* lines cut short
  failures   \* commands that failed after their line

journalVars == <<lines, open, recorder, tears, failures>>

AllowedDecisionTypes == {"research_deeper", "pass", "add_watch", "remove_watch",
                         "review_thesis", "personal_action_external"}

JournalInit ==
  /\ lines = <<>>
  /\ open = <<>>
  /\ recorder = [w \in Writers |-> "idle"]
  /\ tears = 0
  /\ failures = 0

\* build_decision_record: only an allowed type makes a record that is kept.  A
\* command that failed is run again and knows nothing of the line it left.
BuildRecord(w) ==
  /\ recorder[w] \in {"idle", "torn", "failed"}
  /\ recorder' = [recorder EXCEPT
       ![w] = IF DecisionType[w] \in AllowedDecisionTypes THEN "built" ELSE "refused"]
  /\ UNCHANGED <<lines, open, tears, failures>>

\* Wrong variant: the file is opened for writing, not for appending.
OverwriteRecord(w) ==
  /\ recorder[w] = "built"
  /\ lines' = <<<<w>>>>
  /\ open' = <<>>
  /\ recorder' = [recorder EXCEPT ![w] = "written"]
  /\ UNCHANGED <<tears, failures>>

\* record_decision: the line and its end in one write, after whatever is there.
AppendRecord(w) ==
  /\ recorder[w] = "built"
  /\ lines' = Append(lines, Append(open, w))
  /\ open' = <<>>
  /\ recorder' = [recorder EXCEPT ![w] = "written"]
  /\ UNCHANGED <<tears, failures>>

\* The write stops part-way: the line has no end.
TearRecord(w) ==
  /\ recorder[w] = "built"
  /\ tears + failures < MaxTears
  /\ open' = Append(open, "torn")
  /\ recorder' = [recorder EXCEPT ![w] = "torn"]
  /\ tears' = tears + 1
  /\ UNCHANGED <<lines, failures>>

\* write_decision_artifacts and the answer to the operator.
Acknowledge(w) ==
  /\ recorder[w] = "written"
  /\ recorder' = [recorder EXCEPT ![w] = "acknowledged"]
  /\ UNCHANGED <<lines, open, tears, failures>>

\* write_decision_artifacts raises, or the command is killed before it ends: the
\* line stays.
FailArtifacts(w) ==
  /\ recorder[w] = "written"
  /\ tears + failures < MaxTears
  /\ recorder' = [recorder EXCEPT ![w] = "failed"]
  /\ failures' = failures + 1
  /\ UNCHANGED <<lines, open, tears>>

JournalStep ==
  \E w \in Writers :
    BuildRecord(w) \/ AppendRecord(w) \/ TearRecord(w) \/ Acknowledge(w) \/ FailArtifacts(w)

\* load_journal parses every line, ended or not: None for the exception of one
\* that is not one whole decision.
AllLines == IF open = <<>> THEN lines ELSE Append(lines, open)
Parses(line) == Len(line) = 1 /\ line[1] # "torn"
Readable == \A i \in DOMAIN AllLines : Parses(AllLines[i])
Intact == {lines[i][1] : i \in {j \in DOMAIN lines : Parses(lines[j])}}

-----------------------------------------------------------------------------

\* What was acknowledged is in the journal but for one decision glued to each
\* torn line; what was refused is not in it; and as long as no line was torn the
\* journal can be read and has no more lines than decisions, but for one from each
\* command that failed after its line (research/journal.py:130, 164).
JournalKeepsDecisions ==
  /\ Cardinality({w \in Writers : recorder[w] = "acknowledged"} \ Intact) <= tears
  /\ \A w \in Writers : recorder[w] = "refused" => w \notin Intact
  /\ tears = 0 => Readable /\ Len(lines) <= Cardinality(Intact) + failures
=============================================================================
