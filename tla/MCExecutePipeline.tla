--------------------------- MODULE MCExecutePipeline ---------------------------
(***************************************************************************)
(* One agent in one compartment, two harmless topics and a sensitive one.  *)
(* The tables hold rules of every kind, so that each raised risk meets its *)
(* own verdict: search is allowed low, confirmed medium and unrouted high; *)
(* fetch_html is strictly isolated medium and for approval high (and not   *)
(* supported by SearXNG); fetch_json has a route that is not SearXNG       *)
(* medium and is denied high.                                              *)
(***************************************************************************)
EXTENDS ExecutePipeline, TLC

CONSTANTS agent, compartment, topicA, topicB, health

MCAgents == {agent}
MCCompartments == {compartment}
MCTopics == {topicA, topicB, health}
MCSensitive == {health}

MCCapabilities == {<<"search", "low">>, <<"fetch_html", "medium">>, <<"fetch_json", "medium">>}

Rule(effect, tool, level, ceiling, confirm) ==
  [effect |-> effect, agent |-> agent, compartment |-> compartment, tool |-> tool,
   riskLevel |-> level, maxRiskLevel |-> ceiling, confirm |-> confirm]
MCFirewallRules == <<
  Rule("allow", "search", "low", "any", FALSE),
  Rule("allow", "search", "any", "medium", TRUE),
  Rule("allow", "search", "any", "any", FALSE),
  Rule("deny", "fetch_json", "high", "any", FALSE),
  Rule("allow", "fetch_json", "any", "any", FALSE),
  Rule("allow", "fetch_html", "any", "any", FALSE)>>

Routing(kind, level, rotate, forbid) ==
  [kind |-> kind, level |-> level, rotateOnHighRisk |-> rotate, forbidReuse |-> forbid]
MCRoutingRules ==
  (<<"search", "low">> :> Routing("searxng", "session", TRUE, FALSE)) @@
  (<<"search", "medium">> :> Routing("searxng", "compartment", TRUE, FALSE)) @@
  (<<"fetch_html", "medium">> :> Routing("searxng", "strict", TRUE, TRUE)) @@
  (<<"fetch_html", "high">> :> Routing("searxng", "session", TRUE, FALSE)) @@
  (<<"fetch_json", "medium">> :> Routing("mock", "none", FALSE, FALSE))

MCBoundaryRules == <<compartment, compartment>> :>
  [maxAllowedRisk |-> "medium", actionOnViolation |-> "require_approval"]

MCDeployments ==
  {[mock |-> TRUE, searxng |-> TRUE, relay |-> TRUE],
   [mock |-> FALSE, searxng |-> FALSE, relay |-> TRUE],
   [mock |-> TRUE, searxng |-> TRUE, relay |-> FALSE]}

MCTopicSymmetry == Permutations({topicA, topicB})
=============================================================================
