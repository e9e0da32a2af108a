------------------------------- MODULE MCGateway -------------------------------
(* Small instances of Gateway. *)
EXTENDS Gateway, TLC

CONSTANTS r1, r2, r3

Search == [tool |-> "search", risk |-> "low"]
Fetch == [tool |-> "fetch_html", risk |-> "medium"]

\* The bootstrap rule and isolation policy, with a shorter path ceiling.
MCRules ==
  <<[fromTool |-> "search", toTool |-> "fetch_html", maxAllowedRisk |-> "medium",
     actionOnViolation |-> "require_approval", enabled |-> TRUE]>>
MCPolicy ==
  [maxPathLength |-> 1, forbidCrossToolEscalation |-> TRUE,
   requireApprovalOnToolChange |-> TRUE, blockOnHighRiskPath |-> TRUE,
   enabled |-> TRUE]
MCLongerPolicy == [MCPolicy EXCEPT !.maxPathLength = 2]

MCReuse == [c \in {Research} |-> "reuse_active"]
MCTtl == [c \in {Research} |-> 1]
MCLongTtl == [c \in {Research} |-> 2]
MCMaxRequests == [c \in {Research} |-> 1]

MCSearchOnly == {Search}
MCCapabilities == {Search, Fetch}

Symmetry == Permutations(Requests)
=============================================================================
