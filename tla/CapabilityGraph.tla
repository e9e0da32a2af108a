---------------------------- MODULE CapabilityGraph ----------------------------
(***************************************************************************)
(* The execution capability graph of packages/core/src/capability-graph,   *)
(* used the way the server's execute handlers use it when one request runs *)
(* at a time: evaluate the path, then either record the refusal or, after  *)
(* a successful execution, record the capability, at the risk which the    *)
(* gates behind the graph may have raised meanwhile.  Module Gateway has   *)
(* the same calls with other requests in between.                          *)
(*                                                                         *)
(* A node is identified by its position in insertion order.                *)
(***************************************************************************)
EXTENDS Integers, Sequences, FiniteSets

CONSTANTS
  Compartments, Tools,
  CandidateRules,     \* the transition rules that may be registered
  CandidatePolicies,  \* per compartment, the policies that may be registered
  MaxNodes            \* bound: nodes in the graph

VARIABLES
  rules,     \* registered transition rules, in registration order
  policies,  \* the registered isolation policy of some compartments
  paths,     \* per compartment, its executed path: a sequence of node ids
  judged,    \* history variable: the risk each step of the path was judged at
  nodes,     \* every node, in insertion order
  edges      \* every edge

vars == <<rules, policies, paths, judged, nodes, edges>>

RiskLevel == {"low", "medium", "high"}
Rank == [low |-> 1, medium |-> 2, high |-> 3, blocked |-> 4]
Action == {"allow", "require_approval", "force_rotation", "block"}

Rule == [fromTool: Tools, toTool: Tools, maxAllowedRisk: DOMAIN Rank,
         actionOnViolation: Action, enabled: BOOLEAN]
Policy == [maxPathLength: Nat, forbidCrossToolEscalation: BOOLEAN,
           requireApprovalOnToolChange: BOOLEAN, blockOnHighRiskPath: BOOLEAN,
           enabled: BOOLEAN]
Node == [kind: {"capability", "execution", "approval", "request"},
         compartment: Compartments, tool: Tools, risk: RiskLevel]
Edge == [from: Nat, to: Nat,
         relation: {"transitioned_to", "executed", "approved", "blocked"}]

ASSUME GraphAssumption ==
  /\ CandidateRules \subseteq Rule
  /\ CandidatePolicies \in [Compartments -> SUBSET Policy]
  /\ MaxNodes \in Nat

-----------------------------------------------------------------------------
\* findEnabledRule: the first enabled rule for the pair, in registration order.
MatchingRules(from, to) ==
  {k \in DOMAIN rules : /\ rules[k].enabled
                        /\ rules[k].fromTool = from
                        /\ rules[k].toTool = to}

\* Faulty variant of FindEnabledRule: the last registered rule wins.
FindLastRule(from, to) ==
  rules[CHOOSE k \in MatchingRules(from, to) :
          \A j \in MatchingRules(from, to) : k >= j]

FindEnabledRule(from, to) ==
  rules[CHOOSE k \in MatchingRules(from, to) :
          \A j \in MatchingRules(from, to) : k <= j]

Previous(c) == nodes[paths[c][Len(paths[c])]]

\* Faulty variant of HighRiskPath: only the incoming request counts.
HighRiskRequest(c, risk) == risk = "high"

\* The aggregate risk of the path and the incoming request is high.
HighRiskPath(c, risk) ==
  risk = "high" \/ \E k \in DOMAIN paths[c] : nodes[paths[c][k]].risk = "high"

\* evaluatePath: the first rule of the precedence that applies decides.
EvaluatePath(c, tool, risk) ==
  IF c \notin DOMAIN policies THEN "block"
  ELSE LET policy == policies[c] IN
    IF ~policy.enabled THEN "block"
    ELSE IF Len(paths[c]) + 1 > policy.maxPathLength THEN "block"
    ELSE IF paths[c] = << >> THEN "allow"
    ELSE LET previous == Previous(c)
             highRisk == policy.blockOnHighRiskPath /\ HighRiskPath(c, risk) IN
      IF previous.tool = tool THEN IF highRisk THEN "block" ELSE "allow"
      ELSE IF MatchingRules(previous.tool, tool) = {} \/ highRisk THEN "block"
      ELSE LET rule == FindEnabledRule(previous.tool, tool) IN
        IF Rank[risk] > Rank[rule.maxAllowedRisk] THEN rule.actionOnViolation
        ELSE IF policy.forbidCrossToolEscalation /\ Rank[risk] > Rank[previous.risk]
          THEN "force_rotation"
        ELSE IF policy.requireApprovalOnToolChange THEN "require_approval"
        ELSE "allow"

Admits(action) == action \in {"allow", "force_rotation"}

NewNode(kind, c, tool, risk) ==
  [kind |-> kind, compartment |-> c, tool |-> tool, risk |-> risk]

\* The edge from the end of the path to a new node; a first node has none.
EdgeFromPath(c, to, relation) ==
  IF paths[c] = << >> THEN {}
  ELSE {[from |-> paths[c][Len(paths[c])], to |-> to, relation |-> relation]}

\* recordCapabilityRequest: node, transitioned_to edge, and the path advances.
\* It checks neither the ceiling nor the rules.
RecordCapabilityRequest(c, tool, risk) ==
  LET id == Len(nodes) + 1 IN
  /\ nodes' = Append(nodes, NewNode("capability", c, tool, risk))
  /\ edges' = edges \cup EdgeFromPath(c, id, "transitioned_to")
  /\ paths' = [paths EXCEPT ![c] = Append(@, id)]
  /\ judged' = [judged EXCEPT ![c] = Append(@, risk)]

-----------------------------------------------------------------------------
Init ==
  /\ rules = << >>
  /\ policies = << >>
  /\ paths = [c \in Compartments |-> << >>]
  /\ judged = [c \in Compartments |-> << >>]
  /\ nodes = << >>
  /\ edges = {}

\* registerTransitionRule; a duplicate id throws.
RegisterTransitionRule(rule) ==
  /\ rule \notin {rules[k] : k \in DOMAIN rules}
  /\ rules' = Append(rules, rule)
  /\ UNCHANGED <<policies, paths, judged, nodes, edges>>

\* registerIsolationPolicy; a second policy for the compartment throws.
RegisterIsolationPolicy(c, policy) ==
  /\ c \notin DOMAIN policies
  /\ policies' = [d \in DOMAIN policies \cup {c} |->
                    IF d = c THEN policy ELSE policies[d]]
  /\ UNCHANGED <<rules, paths, judged, nodes, edges>>

\* recordTransition of an admitted transition.
RecordTransition(c, tool, risk) ==
  /\ Len(nodes) < MaxNodes
  /\ Admits(EvaluatePath(c, tool, risk))
  /\ RecordCapabilityRequest(c, tool, risk)
  /\ UNCHANGED <<rules, policies>>

\* recordTransition of a refused transition: a node and an edge off the path.
RecordRefusal(c, tool, risk) ==
  LET action == EvaluatePath(c, tool, risk)
      id == Len(nodes) + 1 IN
  /\ Len(nodes) < MaxNodes
  /\ ~Admits(action)
  /\ nodes' = Append(nodes, NewNode(IF action = "require_approval"
                                      THEN "approval" ELSE "request", c, tool, risk))
  /\ edges' = edges \cup EdgeFromPath(c, id, IF action = "require_approval"
                                               THEN "approved" ELSE "blocked")
  /\ UNCHANGED <<rules, policies, paths, judged>>

\* The handler after a successful execution that evaluatePath admitted at `risk`:
\* recordCapabilityRequest, then addNode and addEdge for the execution, both at
\* the `effective` risk.  Rate limits and adaptive defence, which run behind the
\* graph gate, may have raised it in place; the graph is not asked again.
RecordExecution(c, tool, risk, effective) ==
  LET id == Len(nodes) + 1 IN
  /\ Len(nodes) + 1 < MaxNodes
  /\ Admits(EvaluatePath(c, tool, risk))
  /\ effective = risk \/ Rank[effective] > Rank[risk]
  /\ nodes' = nodes \o <<NewNode("capability", c, tool, effective),
                         NewNode("execution", c, tool, effective)>>
  /\ edges' = edges \cup EdgeFromPath(c, id, "transitioned_to")
                    \cup {[from |-> id, to |-> id + 1, relation |-> "executed"]}
  /\ paths' = [paths EXCEPT ![c] = Append(@, id)]
  /\ judged' = [judged EXCEPT ![c] = Append(@, risk)]
  /\ UNCHANGED <<rules, policies>>

\* clear drops everything, rules and policies included.
Clear == nodes # << >> /\ rules' = << >> /\ policies' = << >>
         /\ paths' = [c \in Compartments |-> << >>] /\ nodes' = << >> /\ edges' = {}
         /\ judged' = [c \in Compartments |-> << >>]

Next ==
  \/ \E rule \in CandidateRules : RegisterTransitionRule(rule)
  \/ \E c \in Compartments :
       \/ \E policy \in CandidatePolicies[c] : RegisterIsolationPolicy(c, policy)
       \/ \E tool \in Tools, risk \in RiskLevel :
            \/ RecordTransition(c, tool, risk)
            \/ RecordRefusal(c, tool, risk)
            \/ \E effective \in RiskLevel : RecordExecution(c, tool, risk, effective)
  \/ Clear

Spec == Init /\ [][Next]_vars

-----------------------------------------------------------------------------
\* A compartment never chains more capabilities than its policy's ceiling, and
\* one without an enabled policy chains none (fail-closed).
PathWithinCeiling ==
  \A c \in Compartments :
    Len(paths[c]) <= IF c \in DOMAIN policies /\ policies[c].enabled
                       THEN policies[c].maxPathLength ELSE 0

\* Every tool change on a path is licensed by the rule in force for that pair:
\* the risk it was judged at is within the rule's ceiling, unless the rule itself
\* lets violations pass.  What the path records is that risk or, where limits or
\* defence stepped in, a higher one, which may be above the ceiling.  Rules
\* registered later never withdraw the licence.
PathIsAuthorised ==
  \A c \in Compartments : \A k \in 2 .. Len(paths[c]) :
    LET from == nodes[paths[c][k - 1]]  to == nodes[paths[c][k]] IN
    from.tool # to.tool =>
      /\ MatchingRules(from.tool, to.tool) # {}
      /\ LET rule == FindEnabledRule(from.tool, to.tool) IN
           \/ Rank[judged[c][k]] <= Rank[rule.maxAllowedRisk]
           \/ Admits(rule.actionOnViolation)

\* Where the policy blocks high-risk paths, nothing follows a high-risk step on a
\* path; and whatever follows another step was not judged high: it can only have
\* become high after the graph had let it pass.
HighRiskEndsPath ==
  \A c \in DOMAIN policies :
    policies[c].blockOnHighRiskPath =>
      \A k \in DOMAIN paths[c] :
        /\ nodes[paths[c][k]].risk = "high" => k = Len(paths[c])
        /\ judged[c][k] = "high" => Len(paths[c]) = 1

\* The transitioned_to edges are exactly the steps of the paths: the recorded
\* history of a compartment is one chain, never forked by a refusal and never
\* linked to another compartment's nodes; and only capability nodes are on it.
PathsAreChains ==
  /\ {<<e.from, e.to>> : e \in {x \in edges : x.relation = "transitioned_to"}}
       = UNION {{<<paths[c][k], paths[c][k + 1]>> : k \in 1 .. Len(paths[c]) - 1}
                  : c \in Compartments}
  /\ \A c \in Compartments : \A k \in DOMAIN paths[c] :
       /\ nodes[paths[c][k]].compartment = c
       /\ nodes[paths[c][k]].kind = "capability"

\* What the graph lets onto a compartment's executed path, whatever was refused,
\* recorded and registered in between, and in whichever order.
PathsAreSound ==
  PathWithinCeiling /\ PathIsAuthorised /\ HighRiskEndsPath /\ PathsAreChains

=============================================================================
