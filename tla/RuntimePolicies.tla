---------------------------- MODULE RuntimePolicies ----------------------------
(***************************************************************************)
(* The policies a runtime config holds: what the validator accepts         *)
(* (packages/core/src/runtime-config/validator.ts), what the engines can   *)
(* be built from (apps/grl-server/src/runtime-factory.ts and the engines'  *)
(* register functions), how a firewall decides from them (the server's     *)
(* rules and core's own policy engine), and the packs and profiles that    *)
(* are shipped (packages/core/src/runtime-profiles/packs.ts).              *)
(*                                                                         *)
(* A member of the wrong JSON type is not represented: a config file with  *)
(* one is like any other that the validator rejects.  Descriptions are     *)
(* left out.                                                               *)
(***************************************************************************)
EXTENDS Integers, Sequences, FiniteSets, SequencesExt

Tool == {"search", "fetch_html", "fetch_json"}
Risk == {"low", "medium", "high"}
Rank == [low |-> 0, medium |-> 1, high |-> 2]
TransportKind == {"mock", "direct", "tor", "proxy", "searxng", "browser"}
DefenceAction == {"allow", "cooldown", "temporary_block", "require_approval", "escalate_risk"}
AnomalyType == {"repeated_denied_capabilities", "sandbox_violation_attempts",
                "privacy_boundary_violations", "rapid_session_rotation",
                "high_risk_execution_pattern", "approval_rejection_pattern"}

\* An optional member that is left out.
Absent == "absent"

\* The fields of a config that engines are built from, and the others.
Surfaces == {"firewallPolicies", "transportPolicies", "privacyBoundaryRules",
             "adaptiveDefensePolicies", "rateLimitPolicies",
             "graphTransitionRules", "isolationPolicies"}
Fields == Surfaces \cup {"version", "compartments", "trustPolicies", "sandboxPolicies", "searxng"}

-----------------------------------------------------------------------------
Ids(list) == [i \in DOMAIN list |-> list[i].id]

\* An id is not empty and not used twice.
NamedAndDistinct(list) ==
  /\ IsInjective(Ids(list))
  /\ \A i \in DOMAIN list : list[i].id # ""

ValidFirewall(policies) ==
  /\ IsInjective([i \in DOMAIN policies |->
       <<policies[i].agentId, policies[i].compartmentId, policies[i].maxRiskLevel>>])
  /\ \A p \in ToSet(policies) :
       /\ p.agentId # "" /\ p.compartmentId # ""
       /\ p.allowedTools \subseteq Tool
       /\ p.maxRiskLevel \in Risk
       /\ p.requiresConfirmationAbove \in Risk \cup {Absent}

Routes(rules) == [i \in DOMAIN rules |-> <<rules[i].tool, rules[i].riskLevel>>]
ValidTransport(rules) ==
  /\ IsInjective(Routes(rules))
  /\ \A r \in ToSet(rules) :
       /\ r.tool \in Tool /\ r.riskLevel \in Risk
       /\ r.preferredTransport \in TransportKind
       /\ r.level \in {"none", "session", "compartment", "strict"}

ValidPrivacy(rules) ==
  /\ NamedAndDistinct(rules)
  /\ \A r \in ToSet(rules) :
       /\ r.source # "" /\ r.target # ""
       /\ r.maxAllowedRisk \in Risk \cup {"none"}
       /\ r.actionOnViolation \in {"allow", "rotate_session", "require_approval", "block"}

ValidDefence(policies) ==
  /\ NamedAndDistinct(policies)
  /\ \A p \in ToSet(policies) :
       /\ p.anomalies \subseteq AnomalyType
       /\ p.severities \subseteq {"info", "warning", "critical"}
       /\ p.resultingAction \in DefenceAction
       /\ p.cooldownMs >= 0   \* 0 also stands for none
       /\ p.escalationRiskLevel \in Risk \cup {Absent}

ValidRateLimit(policies) ==
  /\ NamedAndDistinct(policies)
  /\ \A p \in ToSet(policies) :
       /\ p.scope \in {"agent", "compartment", "session", "tool"}
       /\ p.maxRequests >= 0 /\ p.windowMs > 0
       /\ p.action \in DefenceAction

ValidTrust(t) ==
  /\ t.baselineScore \in 0 .. 100
  /\ 0 <= t.quarantinedThreshold
  /\ t.quarantinedThreshold < t.restrictedThreshold
  /\ t.restrictedThreshold < t.baselineScore

ValidGraph(rules) ==
  /\ NamedAndDistinct(rules)
  /\ \A r \in ToSet(rules) :
       /\ r.fromTool \in Tool /\ r.toTool \in Tool
       /\ r.maxAllowedRisk \in Risk \cup {"blocked"}
       /\ r.actionOnViolation \in {"allow", "require_approval", "force_rotation", "block"}

ValidIsolation(policies) ==
  /\ NamedAndDistinct(policies)
  /\ \A p \in ToSet(policies) : p.compartmentId # "" /\ p.maxPathLength > 0

\* One policy a transport; the four flags are booleans.
ValidSandbox(policies) ==
  /\ IsInjective([i \in DOMAIN policies |-> policies[i].transportKind])
  /\ \A p \in ToSet(policies) : p.transportKind \in TransportKind

\* "refused": a section that this validator accepts and the adapter's own does
\* not, such as a baseUrl that is not this machine's.
Searxng == {Absent, "disabled", "enabled", "refused"}
ValidTransportsConfig(section) == section \in Searxng

\* validateSearXngConfig: only a section that is enabled and well-formed yields an
\* adapter; one that is enabled and refused throws.
SearxngBuilt(section) == section = "enabled"

\* validateRuntimeConfig throws at the first problem; there is no partial config.
ValidRuntimeConfig(c) ==
  /\ c.version > 0
  /\ NamedAndDistinct(c.compartments)
  /\ ValidFirewall(c.firewallPolicies) /\ ValidTransport(c.transportPolicies)
  /\ ValidPrivacy(c.privacyBoundaryRules) /\ ValidDefence(c.adaptiveDefensePolicies)
  /\ ValidRateLimit(c.rateLimitPolicies) /\ ValidTrust(c.trustPolicies)
  /\ ValidGraph(c.graphTransitionRules) /\ ValidIsolation(c.isolationPolicies)
  /\ ValidSandbox(c.sandboxPolicies) /\ ValidTransportsConfig(c.searxng)

-----------------------------------------------------------------------------
\* The engines refuse what they could not tell apart: a second rule for a route,
\* for a pair of compartments or for an id, a second isolation policy for a
\* compartment.  A firewall can be built from anything.
RegistersTransport(rules) == IsInjective(Routes(rules))
RegistersPrivacy(rules) ==
  /\ IsInjective(Ids(rules))
  /\ IsInjective([i \in DOMAIN rules |-> <<rules[i].source, rules[i].target>>])
RegistersIsolation(policies) ==
  /\ IsInjective(Ids(policies))
  /\ IsInjective([i \in DOMAIN policies |-> policies[i].compartmentId])

\* buildReloadableDependencies does not throw.
Buildable(c) ==
  /\ RegistersTransport(c.transportPolicies)
  /\ RegistersPrivacy(c.privacyBoundaryRules)
  /\ IsInjective(Ids(c.adaptiveDefensePolicies)) /\ IsInjective(Ids(c.rateLimitPolicies))
  /\ IsInjective(Ids(c.graphTransitionRules)) /\ RegistersIsolation(c.isolationPolicies)

-----------------------------------------------------------------------------
Request == [agentId: {"local-agent"}, compartmentId: {"research"}, tool: Tool, riskLevel: Risk]
Denied == [allowed |-> FALSE, requiresConfirmation |-> FALSE]
Allowed(confirm) == [allowed |-> TRUE, requiresConfirmation |-> confirm]

Concerns(p, q) == p.agentId = q.agentId /\ p.compartmentId = q.compartmentId

\* buildFirewallFromConfig: any threshold makes every request confirm.
ServerConfirms(p, q) == p.requiresConfirmationAbove # Absent

\* Faulty variant of WithinCeiling: a policy is for its own level only.
WithinCeilingExactly(p, q) == q.riskLevel = p.maxRiskLevel

WithinCeiling(p, q) == Rank[q.riskLevel] <= Rank[p.maxRiskLevel]

\* The firewall the server builds: one allow rule for each policy and tool, and
\* the first that matches decides.  Its last test, of the transport a request asks for,
\* is left out: the server's requests ask for none.
ServerFirewall(policies, q) ==
  LET matching == {i \in DOMAIN policies : /\ Concerns(policies[i], q)
                                           /\ q.tool \in policies[i].allowedTools
                                           /\ WithinCeiling(policies[i], q)}
  IN  IF matching = {} THEN Denied ELSE Allowed(ServerConfirms(policies[Min(matching)], q))

\* core's PolicyStore holds one policy for an agent and a compartment.
StoreAccepts(policies) ==
  IsInjective([i \in DOMAIN policies |-> <<policies[i].agentId, policies[i].compartmentId>>])

\* core's PolicyEngine.evaluate, for well-formed requests whose input passes the
\* sanitizer.
PolicyEngine(policies, q) ==
  LET found == {i \in DOMAIN policies : Concerns(policies[i], q)}
      policy == policies[Min(found)]
  IN  IF \/ found = {}
         \/ q.tool \notin policy.allowedTools
         \/ Rank[q.riskLevel] > Rank[policy.maxRiskLevel]
      THEN Denied
      ELSE Allowed(/\ policy.requiresConfirmationAbove # Absent
                   /\ Rank[q.riskLevel] > Rank[policy.requiresConfirmationAbove])

\* For a list of policies that core's store would hold, both allow the same
\* requests, and the server asks for confirmation wherever core would.
NoLaxerThanCore(policies) ==
  StoreAccepts(policies) =>
    \A q \in Request :
      LET server == ServerFirewall(policies, q)
          core == PolicyEngine(policies, q)
      IN  /\ server.allowed = core.allowed
          /\ core.requiresConfirmation => server.requiresConfirmation

-----------------------------------------------------------------------------
\* Shorthands for the entries of the packs; all of them are enabled and concern
\* the one agent and the one compartment.
Allow(tools, ceiling, confirm) ==
  [agentId |-> "local-agent", compartmentId |-> "research", allowedTools |-> tools,
   maxRiskLevel |-> ceiling, requiresConfirmationAbove |-> confirm]
Route(tool, risk, transport, level) ==
  [tool |-> tool, riskLevel |-> risk, preferredTransport |-> transport, level |-> level]
Boundary(id, action) ==
  [id |-> id, source |-> "research", target |-> "research",
   maxAllowedRisk |-> "low", actionOnViolation |-> action]
Defend(id, anomaly, severities, action, cooldownMs, escalation) ==
  [id |-> id, anomalies |-> {anomaly}, severities |-> severities,
   resultingAction |-> action, cooldownMs |-> cooldownMs, escalationRiskLevel |-> escalation]
Limit(id, scope, maxRequests, action) ==
  [id |-> id, scope |-> scope, maxRequests |-> maxRequests, windowMs |-> 60000, action |-> action]
Trust(baseline, quarantined, restricted) ==
  [baselineScore |-> baseline, quarantinedThreshold |-> quarantined,
   restrictedThreshold |-> restricted]
Step(id, from, to, risk, action) ==
  [id |-> id, fromTool |-> from, toTool |-> to, maxAllowedRisk |-> risk,
   actionOnViolation |-> action]
Isolate(id, length, escalation, approval, block) ==
  [id |-> id, compartmentId |-> "research", maxPathLength |-> length,
   forbidCrossToolEscalation |-> escalation, requireApprovalOnToolChange |-> approval,
   blockOnHighRiskPath |-> block]
MockSandbox == <<[transportKind |-> "mock", allowNetwork |-> FALSE, allowFilesystem |-> FALSE,
                  allowProcessSpawn |-> FALSE, allowBrowser |-> FALSE]>>

BootstrapTransportRules ==
  <<Route("search", "low", "searxng", "session"),
    Route("fetch_html", "medium", "searxng", "strict")>>
BootstrapBoundaryRules == <<Boundary("research-self", "require_approval")>>
BootstrapDefencePolicies ==
  <<Defend("repeated-denied-defense", "repeated_denied_capabilities", {"warning"},
           "cooldown", 60000, Absent),
    Defend("sandbox-defense", "sandbox_violation_attempts", {"critical"},
           "temporary_block", 300000, Absent),
    Defend("privacy-boundary-defense", "privacy_boundary_violations", {"critical"},
           "require_approval", 0, Absent),
    Defend("approval-rejection-defense", "approval_rejection_pattern", {"warning"},
           "cooldown", 120000, Absent),
    Defend("risk-escalation-defense", "high_risk_execution_pattern", {"warning", "critical"},
           "escalate_risk", 0, "high")>>
BootstrapRateLimits ==
  <<Limit("agent-search-rate", "agent", 10, "cooldown"),
    Limit("tool-fetch-html-rate", "tool", 5, "require_approval")>>
BootstrapTransitionRules ==
  <<Step("search-to-fetch-html", "search", "fetch_html", "medium", "require_approval"),
    Step("fetch-html-to-fetch-json", "fetch_html", "fetch_json", "medium", "require_approval")>>
BootstrapIsolation == Isolate("research-default-dependency-isolation", 5, TRUE, TRUE, TRUE)

BalancedDefaultPack ==
  [firewallPolicies |-> <<Allow(Tool, "low", Absent), Allow({"fetch_html"}, "medium", "low")>>,
   transportPolicies |-> BootstrapTransportRules,
   privacyBoundaryRules |-> BootstrapBoundaryRules,
   adaptiveDefensePolicies |-> BootstrapDefencePolicies,
   rateLimitPolicies |-> BootstrapRateLimits,
   graphTransitionRules |-> BootstrapTransitionRules,
   isolationPolicies |-> <<BootstrapIsolation>>,
   trustPolicies |-> Trust(70, 19, 49),
   sandboxPolicies |-> MockSandbox]

StrictDefensePack ==
  [firewallPolicies |-> <<Allow({"search"}, "low", "low")>>,
   rateLimitPolicies |-> <<Limit("strict-agent-rate", "agent", 3, "cooldown"),
                           Limit("strict-tool-rate", "tool", 2, "require_approval")>>,
   adaptiveDefensePolicies |->
     <<Defend("strict-repeated-denied-defense", "repeated_denied_capabilities", {"warning"},
              "temporary_block", 300000, Absent),
       Defend("strict-sandbox-defense", "sandbox_violation_attempts", {"critical"},
              "temporary_block", 600000, Absent),
       Defend("strict-privacy-boundary-defense", "privacy_boundary_violations", {"critical"},
              "temporary_block", 300000, Absent),
       Defend("strict-approval-rejection-defense", "approval_rejection_pattern", {"warning"},
              "temporary_block", 300000, Absent),
       Defend("strict-risk-escalation-defense", "high_risk_execution_pattern",
              {"warning", "critical"}, "temporary_block", 300000, Absent)>>]

\* Faulty variant of StrictSandboxPack: the isolation policy is left to the config.
StrictSandboxPackWithoutIsolation ==
  [sandboxPolicies |-> MockSandbox,
   graphTransitionRules |->
     <<Step("strict-search-to-fetch-html", "search", "fetch_html", "low", "require_approval")>>,
   transportPolicies |-> <<Route("search", "low", "mock", "strict"),
                           Route("fetch_html", "low", "mock", "strict")>>]

StrictSandboxPack ==
  [sandboxPolicies |-> MockSandbox,
   isolationPolicies |-> <<Isolate("strict-isolation-policy", 3, TRUE, TRUE, TRUE)>>,
   graphTransitionRules |->
     <<Step("strict-search-to-fetch-html", "search", "fetch_html", "low", "require_approval")>>,
   transportPolicies |-> <<Route("search", "low", "mock", "strict"),
                           Route("fetch_html", "low", "mock", "strict")>>]

ResearchFlexPack ==
  [graphTransitionRules |->
     <<Step("research-search-to-fetch-html", "search", "fetch_html", "medium", "block"),
       Step("research-fetch-html-to-fetch-json", "fetch_html", "fetch_json", "medium", "block")>>,
   isolationPolicies |-> <<Isolate("research-isolation-policy", 8, TRUE, FALSE, TRUE)>>,
   rateLimitPolicies |-> <<Limit("research-agent-rate", "agent", 20, "cooldown"),
                           Limit("research-tool-rate", "tool", 10, "cooldown")>>,
   trustPolicies |-> Trust(70, 15, 40)]

DevelopmentLowFrictionPack ==
  [firewallPolicies |-> <<Allow(Tool, "medium", Absent)>>,
   rateLimitPolicies |-> <<Limit("dev-agent-rate", "agent", 100, "cooldown"),
                           Limit("dev-tool-rate", "tool", 50, "cooldown")>>,
   adaptiveDefensePolicies |->
     <<Defend("dev-sandbox-defense", "sandbox_violation_attempts", {"critical"},
              "require_approval", 0, Absent)>>,
   trustPolicies |-> Trust(80, 10, 30),
   isolationPolicies |-> <<Isolate("dev-isolation-policy", 20, FALSE, FALSE, FALSE)>>,
   graphTransitionRules |->
     <<Step("dev-search-to-fetch-html", "search", "fetch_html", "high", "require_approval"),
       Step("dev-fetch-html-to-fetch-json", "fetch_html", "fetch_json", "high",
            "require_approval")>>,
   sandboxPolicies |-> MockSandbox]

PrivacyHardeningPack ==
  [privacyBoundaryRules |-> <<Boundary("hardened-research-self", "block")>>]

TrustHardeningPack == [trustPolicies |-> Trust(65, 29, 54)]

\* BUILT_IN_PACKS and BUILT_IN_PROFILES.  All profiles are enabled, none has
\* overrides; `parent` is "none" where the profile extends nothing.
None == "none"
Packs ==
  [balanced_default |-> BalancedDefaultPack, strict_defense |-> StrictDefensePack,
   strict_sandbox |-> StrictSandboxPack, research_flex |-> ResearchFlexPack,
   development_low_friction |-> DevelopmentLowFrictionPack,
   privacy_hardening |-> PrivacyHardeningPack, trust_hardening |-> TrustHardeningPack]
Profiles ==
  [strict |-> [packs |-> <<"strict_defense", "strict_sandbox", "privacy_hardening",
                           "trust_hardening">>, parent |-> None],
   balanced |-> [packs |-> <<"balanced_default">>, parent |-> None],
   research |-> [packs |-> <<"research_flex">>, parent |-> "balanced"],
   development |-> [packs |-> <<"balanced_default", "development_low_friction">>,
                    parent |-> None]]

\* DEFAULT_RUNTIME_CONFIG: what `balanced` mirrors.
DefaultRuntimeConfig ==
  [f \in Fields |->
     CASE f = "version" -> 1
       [] f = "compartments" -> <<[id |-> "research", enabled |-> TRUE]>>
       [] f = "searxng" -> Absent
       [] OTHER -> BalancedDefaultPack[f]]
=============================================================================
