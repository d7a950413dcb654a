-------------------------- MODULE MCResearchChain ---------------------------
(* Small instances of ResearchChain for TLC. *)
EXTENDS ResearchChainInv, TLC

CONSTANT d1

AllKinds == ArtifactSteps \cup {"report"}
OneDir == [c \in Chains |-> d1]

OneUnknown == {[id |-> 1, result |-> "PASS"], [id |-> 2, result |-> "UNKNOWN"]}

ChainSymmetry == Permutations(Chains)
=============================================================================
