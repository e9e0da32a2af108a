----------------------------- MODULE PolicyEngines -----------------------------
(***************************************************************************)
(* The gateway's stateless deciders: the capability firewall               *)
(* (packages/policy-engine), transport routing, the privacy boundary and   *)
(* the adapter sandbox (packages/core/src).  Each one's rule table is a    *)
(* constant; a decision is an operator over it.                            *)
(***************************************************************************)
EXTENDS Integers, Sequences, FiniteSetsExt

CONSTANTS
  FirewallRules,  \* sequence of firewall rules, tried in order
  RoutingRules,   \* <<tool, risk>> -> transport rule
  BoundaryRules,  \* <<source, target>> -> privacy boundary rule
  Manifests,      \* transport kind -> what its adapter supports and needs
  SandboxPolicy   \* transport kind -> what its engine's sandbox grants

Risk == {"low", "medium", "high"}
Rank == [none |-> 0, low |-> 1, medium |-> 2, high |-> 3]

IsolationLevel == {"none", "session", "compartment", "strict"}
BoundaryAction == {"allow", "rotate_session", "require_approval", "block"}
ActionRank == [allow |-> 0, rotate_session |-> 1, require_approval |-> 2, block |-> 3]

ASSUME TablesAssumption ==
  /\ \A i \in DOMAIN FirewallRules :
       /\ FirewallRules[i].effect \in {"allow", "deny"}
       /\ FirewallRules[i].confirm \in BOOLEAN
       /\ FirewallRules[i].riskLevel \in Risk \cup {"any"}
       /\ FirewallRules[i].maxRiskLevel \in Risk \cup {"any"}
  /\ \A key \in DOMAIN RoutingRules :
       /\ RoutingRules[key].level \in IsolationLevel
       /\ RoutingRules[key].rotateOnHighRisk \in BOOLEAN
       /\ RoutingRules[key].forbidReuse \in BOOLEAN
  /\ \A key \in DOMAIN BoundaryRules :
       /\ BoundaryRules[key].maxAllowedRisk \in Risk \cup {"none"}
       /\ BoundaryRules[key].actionOnViolation \in BoundaryAction
  /\ DOMAIN SandboxPolicy = DOMAIN Manifests

-----------------------------------------------------------------------------
\* riskMatches: an exact level wins over a ceiling; neither means any risk.
RiskMatches(rule, risk) ==
  IF rule.riskLevel # "any" THEN rule.riskLevel = risk
  ELSE rule.maxRiskLevel # "any" => Rank[risk] <= Rank[rule.maxRiskLevel]

\* The rules that match a request; the first of them decides.
Matching(agent, compartment, tool, risk) ==
  {i \in DOMAIN FirewallRules :
     /\ FirewallRules[i].agent = agent
     /\ FirewallRules[i].compartment = compartment
     /\ FirewallRules[i].tool = tool
     /\ RiskMatches(FirewallRules[i], risk)}

\* YamlPolicyEngine.evaluate, deny by default.
Firewall(agent, compartment, tool, risk) ==
  LET matching == Matching(agent, compartment, tool, risk)
      rule == FirewallRules[Min(matching)]
  IN  IF matching = {} \/ rule.effect = "deny" THEN "deny"
      ELSE IF rule.confirm THEN "confirm" ELSE "allow"

\* TransportPolicyEngine.resolve: a tool and risk without a rule has no route.
Routed(tool, risk) == <<tool, risk>> \in DOMAIN RoutingRules
RoutingRotates(tool, risk) ==
  LET rule == RoutingRules[<<tool, risk>>] IN
  \/ rule.forbidReuse
  \/ risk = "high" /\ rule.rotateOnHighRisk
  \/ rule.level = "strict"

\* The violations of a boundary rule.  The handlers pass no previous tool, so
\* cross-tool reuse is never one of them.
Violations(rule, source, target, risk, level) ==
  {v \in {"cross_compartment", "risk_escalation", "strict_isolation_required"} :
     \/ v = "cross_compartment" /\ source # target
     \/ v = "risk_escalation" /\ Rank[risk] > Rank[rule.maxAllowedRisk]
     \/ v = "strict_isolation_required" /\ level = "strict"}

ActionForViolation(violation, rule) ==
  IF violation = "strict_isolation_required" /\ rule.actionOnViolation # "block"
    THEN "rotate_session" ELSE rule.actionOnViolation

\* PrivacyBoundaryEngine.evaluate: no rule for the flow blocks it, otherwise the
\* most restrictive action of its violations wins.
Boundary(source, target, risk, level) ==
  IF <<source, target>> \notin DOMAIN BoundaryRules THEN "block"
  ELSE LET rule == BoundaryRules[<<source, target>>]
           actions == {"allow"} \cup {ActionForViolation(v, rule) :
                         v \in Violations(rule, source, target, risk, level)}
       IN  CHOOSE a \in actions : \A b \in actions : ActionRank[a] >= ActionRank[b]

\* evaluateSandbox: the manifest must support the tool and need no permission or
\* access (network, browser, files, processes, environment) beyond the policy.
SandboxAllows(kind, tool) ==
  /\ kind \in DOMAIN Manifests
  /\ tool \in Manifests[kind].tools
  /\ Manifests[kind].permissions \subseteq SandboxPolicy[kind].permissions
  /\ Manifests[kind].access \subseteq SandboxPolicy[kind].access

\* What becomes of a call that reaches its adapter: the mock always answers;
\* SearXNG fails for any other tool, an unusable input, a timeout or a refused
\* connection, an HTTP error and a body that is not its JSON.
AdapterResults(kind, tool) ==
  IF kind = "mock" THEN {"success"}
  ELSE IF tool # "search" THEN {"failed"} ELSE {"success", "failed"}

\* ExecutionEngine.execute: the sandbox decides before the adapter is called.  Each
\* engine is built with the adapter of the kind it is asked for.
ExecutionResults(kind, tool) ==
  IF SandboxAllows(kind, tool) THEN AdapterResults(kind, tool) ELSE {"blocked"}

\* The manifests and sandbox policies the server's two engines are built with.
Harmless == {"no_filesystem", "no_process_spawn", "no_env_access"}
ShippedManifests ==
  [mock |-> [tools |-> {"search", "fetch_html", "fetch_json"},
             permissions |-> {"execute_mock", "network_disabled"} \cup Harmless,
             access |-> {}],
   searxng |-> [tools |-> {"search"},
                permissions |-> {"network_explicit_allowed"} \cup Harmless,
                access |-> {"network"}]]
ShippedSandbox ==
  [mock |-> [permissions |-> {"execute_mock", "network_disabled"} \cup Harmless,
             access |-> {}],
   searxng |-> [permissions |-> {"network_explicit_allowed"} \cup Harmless,
                access |-> {"network"}]]

\* escalateRisk: a target that is not strictly higher changes nothing.
EscalateRisk(risk, target) == IF Rank[target] > Rank[risk] THEN target ELSE risk
=============================================================================
