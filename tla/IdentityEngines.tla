---------------------------- MODULE IdentityEngines ----------------------------
(***************************************************************************)
(* The engines that decide how long an identity may last                   *)
(* (packages/core/src): personas per research topic, the relay route of a  *)
(* compartment and the transport fingerprint of an agent.  Each keeps a    *)
(* small record per key; an operator gives its decision and its successor. *)
(***************************************************************************)
EXTENDS Integers

CONSTANTS
  Topics,             \* the category hints requests carry
  Sensitive,          \* HIGH_RISK_CATEGORIES
  MaxSearches,        \* searches of one persona
  MaxAssignments,     \* maxAssignmentsPerRoute of the relay rotation policy
  MaxUses             \* maxRequestsPerFingerprint

NoTopic == "none"

ASSUME EnginesAssumption ==
  /\ Sensitive \subseteq Topics /\ NoTopic \notin Topics
  /\ {MaxSearches, MaxAssignments, MaxUses} \subseteq Nat \ {0}

-----------------------------------------------------------------------------
\* A persona is the number of its searches; none has been created at NoPersona.
NoPersona == 0
Saturated(searches) == searches >= MaxSearches

\* evaluatePersonaIsolation: a saturated persona is at critical risk as well
\* (derivePersonaRisk).  Personas are kept per topic: none ever changes topic.
PersonaDecision(searches, topic) ==
  [newFragment |-> searches = NoPersona \/ Saturated(searches),
   isolateSession |-> Saturated(searches) \/ topic \in Sensitive,
   escalate |-> Saturated(searches)]

\* getOrCreatePersona and recordPersonaSearch: a saturated persona is replaced.
Searched(searches) == IF Saturated(searches) THEN 1 ELSE searches + 1

-----------------------------------------------------------------------------
\* The active route of a compartment: the topic it is bound to, and how many
\* routes the compartment has been assigned so far.
NoRoute == [scope |-> NoTopic, assigned |-> 0]

\* Faulty variant of ShouldRotate: the topic of the bound route is not compared.
ShouldRotateUnscoped(route, topic, critical) ==
  critical \/ route.assigned >= MaxAssignments

\* shouldRotate under the default policy: critical risk, another topic than the
\* route's, or the assignment ceiling.
ShouldRotate(route, topic, critical) ==
  critical \/ route.scope # topic \/ route.assigned >= MaxAssignments

\* evaluateIsolation: a compartment without a route is assigned one, which does
\* not count as a rotation.
RouteRotates(route, topic, critical) ==
  route # NoRoute /\ ShouldRotate(route, topic, critical)
NextRoute(route, topic, critical) ==
  IF route = NoRoute \/ ShouldRotate(route, topic, critical)
    THEN [scope |-> topic, assigned |-> route.assigned + 1] ELSE route

-----------------------------------------------------------------------------
\* A fingerprint is the number of its uses.  evaluateIsolation under the default
\* policy, which does not rotate on temporal escalation.
FingerprintRotates(uses, personaChanged, topic) ==
  uses >= MaxUses \/ personaChanged \/ topic \in Sensitive

\* rotateFingerprint starts at zero; assignFingerprint then counts the request.
NextFingerprint(uses, rotates) == IF rotates THEN 1 ELSE uses + 1
=============================================================================
