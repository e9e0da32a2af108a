------------------------------- MODULE MCEngines -------------------------------
(* A small instance of every engine. *)
EXTENDS Engines

\* A scaled-down scoring table that can reach every level, both clamps and the
\* recovery cap within four events.
Penalties == [capability_denied |-> 2, incident_opened |-> 5]
Recoveries == [clean_execution |-> 1, incident_closed |-> 2]

\* The two bootstrap policies scaled down, and one block of each shape.
MCLimits ==
  {[scope |-> "agent", maxRequests |-> 2, windowMs |-> 1, action |-> "cooldown"],
   [scope |-> "tool", maxRequests |-> 1, windowMs |-> 2, action |-> "require_approval"],
   [scope |-> "agent", maxRequests |-> 1, windowMs |-> 1, action |-> "allow"]}
MCTemporaryBlocks ==
  {[agent |-> "a1", tool |-> "any", duration |-> 1],
   [agent |-> "any", tool |-> "any", duration |-> 2]}

\* The graph's constants (MCEngines.cfg has its tools and its bound on nodes):
\* the bootstrap policy with a shorter ceiling next to a permissive and a
\* disabled one, and two rules that compete for one tool pair.
GraphRule(from, to, risk, action) ==
  [fromTool |-> from, toTool |-> to, maxAllowedRisk |-> risk,
   actionOnViolation |-> action, enabled |-> TRUE]
GraphPolicy(length, strict, enabled) ==
  [maxPathLength |-> length, forbidCrossToolEscalation |-> strict,
   requireApprovalOnToolChange |-> FALSE, blockOnHighRiskPath |-> strict,
   enabled |-> enabled]
GraphRules ==
  {GraphRule("search", "fetch_html", "medium", "force_rotation"),
   GraphRule("search", "fetch_html", "low", "block")}
GraphPolicies ==
  [research |-> {GraphPolicy(3, TRUE, TRUE)},
   lab |-> {GraphPolicy(2, FALSE, TRUE), GraphPolicy(2, FALSE, FALSE)}]

\* A rule over one event type and a rule over two, one of them shared.
MCHeuristicRules ==
  [high_risk_execution_pattern |->
     [watched |-> {"execution_failed", "execution_blocked"},
      threshold |-> 3, window |-> 1, severity |-> "warning"],
   sandbox_violation_attempts |->
     [watched |-> {"execution_blocked"},
      threshold |-> 2, window |-> 2, severity |-> "critical"]]

\* The shipped packs and profiles, and the files of MCConfigFiles.
Files == INSTANCE MCConfigFiles
ShippedConfig == Files!DefaultRuntimeConfig
ConfigFiles == Files!MCContents

\* Three policy decisions for two compartments, and a pool of user agents that
\* two identities exhaust when one of them is rotated.
MCDecisions ==
  {[compartment |-> "dark", transport |-> "tor"],
   [compartment |-> "open", transport |-> "direct"],
   [compartment |-> "open", transport |-> "proxy"]}
Pool == <<"firefox", "esr">>

\* Two requests whose signals overflow a buffer of two and an audit log of five,
\* under the default policy, one of each other strategy and a disabled one.
MergePolicy(id, enabled, precedence, default, strategy) ==
  [id |-> id, enabled |-> enabled, precedence |-> precedence,
   defaultAction |-> default, mergeStrategy |-> strategy]
MCSignals ==
  {[source |-> "temporal_obfuscation", action |-> "delay"],
   [source |-> "temporal_obfuscation", action |-> "cooldown"],
   [source |-> "capability_graph", action |-> "rotate_session"],
   [source |-> "capability_graph", action |-> "require_approval"],
   [source |-> "capability_firewall", action |-> "deny"]}
MCMergePolicies ==
  {MergePolicy("first", TRUE, <<>>, "require_approval", "deny_first"),
   MergePolicy("sources", TRUE, <<"capability_graph", "capability_firewall">>, "allow",
               "source_precedence"),
   MergePolicy("off", FALSE, <<>>, "deny", "most_restrictive")}
=============================================================================
