---------------------------- MODULE ExecutePipeline ----------------------------
(***************************************************************************)
(* The gates of POST /v1/capabilities/execute-mock and /execute            *)
(* (apps/grl-server/src/local-api.ts), in the order of each handler, with   *)
(* the signals they hand to the composite policy and the identities they   *)
(* use up.  From its arrival to the execution delay a request runs without *)
(* an await, so one request at a time is all there is here; what happens   *)
(* around the awaits is module Gateway.  Gates whose engines have a module *)
(* of their own (graph, trust, limits, defence) appear by their outcomes.  *)
(***************************************************************************)
EXTENDS PolicyEngines, IdentityEngines, CompositePolicy

CONSTANTS
  Agents, Compartments,
  Capabilities,       \* the <<tool, risk>> pairs requests ask for
  Deployments,        \* [mock, searxng, relay |-> BOOLEAN]: what is switched on
  MaxRequests         \* bound of the model

ASSUME PipelineAssumption ==
  /\ Deployments \subseteq [mock: BOOLEAN, searxng: BOOLEAN, relay: BOOLEAN]
  /\ \A cap \in Capabilities : cap[2] \in Risk
  /\ MaxRequests \in Nat

VARIABLES
  deployment,   \* environment and configuration of this process
  persona,      \* agent, topic -> searches of its persona
  route,        \* compartment -> its active relay route
  fingerprint,  \* agent -> uses of its fingerprint
  carried,      \* compartment -> topics its active session was handed out for
  owed,         \* history: a refused request has used up a route rotation that
                \* the compartment's session never followed
  rq,           \* the request being decided, then its answer
  served        \* requests so far

engines == <<deployment, persona, route, fingerprint, carried, served>>
vars == <<engines, owed, rq>>

\* Faulty variant: adaptive defence may raise the risk after the firewall's verdict.
PipelineDefendedLate == [
  mock |-> <<"graph", "agents", "trust", "privacy", "fingerprint", "limits", "firewall",
             "defence", "network", "routing", "boundary", "session", "execute">>,
  real |-> <<"graph", "agents", "trust", "privacy", "limits", "firewall", "defence",
             "network", "routing", "boundary", "fingerprint", "session", "execute">>]

\* The gates in the order of the two handlers; they differ in the place of the
\* fingerprint.
Pipeline == [
  mock |-> <<"graph", "agents", "trust", "privacy", "fingerprint", "limits", "defence",
             "firewall", "network", "routing", "boundary", "session", "execute">>,
  real |-> <<"graph", "agents", "trust", "privacy", "limits", "defence", "firewall",
             "network", "routing", "boundary", "fingerprint", "session", "execute">>]

\* A request on arrival: beside what it asks for, its answer, the collector's
\* signals, the reasons to rotate the session and the identities it was given.
Arrived(endpoint, agent, compartment, topic, capability) ==
  [endpoint |-> endpoint, agent |-> agent, compartment |-> compartment,
   topic |-> topic, tool |-> capability[1], risk |-> capability[2],
   answer |-> "none", step |-> 1, signals |-> <<>>, demands |-> {},
   newFragment |-> FALSE, critical |-> FALSE,
   session |-> "none", fingerprint |-> "none", approvals |-> 0, result |-> "none"]

Idle == [answer |-> "idle"]

Init ==
  /\ deployment \in Deployments
  /\ persona = [a \in Agents |-> [t \in Topics |-> NoPersona]]
  /\ route = [c \in Compartments |-> NoRoute]
  /\ fingerprint = [a \in Agents |-> 0]
  /\ carried = [c \in Compartments |-> {}]
  /\ owed = [c \in Compartments |-> FALSE]
  /\ rq = Idle
  /\ served = 0

-----------------------------------------------------------------------------
At(gate) == rq.answer = "none" /\ Pipeline[rq.endpoint][rq.step] = gate

Pass(r) == [r EXCEPT !.step = @ + 1]
Emit(r, source, action) ==
  [r EXCEPT !.signals = Append(@, [source |-> source, action |-> action])]
\* `allow` never decides; the gates here leave it out.
Report(r, source, action) == IF action = "allow" THEN r ELSE Emit(r, source, action)
Refuse(r, source, action) == [Emit(r, source, action) EXCEPT !.answer = "denied"]
Pend(r, source) ==
  [Emit(r, source, "require_approval") EXCEPT !.answer = "pending", !.approvals = @ + 1]
Demand(r, reason) == [r EXCEPT !.demands = @ \cup {reason}]

\* A gate's verdict: the request goes on or is answered.
Reply(r) ==
  /\ rq' = r
  /\ owed' = [owed EXCEPT ![rq.compartment] =
                @ \/ (r.answer \in {"denied", "pending"} /\ "route" \in r.demands)]

Start(endpoint, agent, compartment, topic, capability) ==
  /\ rq.answer # "none"
  /\ served < MaxRequests
  /\ endpoint = "mock" => deployment.mock
  /\ rq' = Arrived(endpoint, agent, compartment, topic, capability)
  /\ served' = served + 1
  /\ UNCHANGED <<deployment, persona, route, fingerprint, carried, owed>>

\* execute-mock outside a test environment: refused before there is a collector.
StartDisabled(agent, compartment, topic, capability) ==
  /\ rq.answer # "none"
  /\ served < MaxRequests
  /\ ~deployment.mock
  /\ rq' = [Arrived("mock", agent, compartment, topic, capability)
              EXCEPT !.answer = "denied", !.step = 0]
  /\ served' = served + 1
  /\ UNCHANGED <<deployment, persona, route, fingerprint, carried, owed>>

\* allow | force_rotation | require_approval | block: see CapabilityGraph.
GraphGate ==
  /\ At("graph")
  /\ \/ Reply(Pass(rq))
     \/ Reply(Pass(Demand(Emit(rq, "capability_graph", "rotate_session"), "graph")))
     \/ Reply(Pend(rq, "capability_graph"))
     \/ Reply(Refuse(rq, "capability_graph", "deny"))
  /\ UNCHANGED engines

\* An evicted or quarantined agent, a restricted one, one above its quota.
AgentGate ==
  /\ At("agents")
  /\ \/ Reply(Pass(rq))
     \/ Reply(Refuse(rq, "multi_agent", "deny"))
     \/ Reply(Pend(rq, "multi_agent"))
     \/ Reply(Refuse(rq, "multi_agent", "temporary_block"))
  /\ UNCHANGED engines

\* A quarantined compartment, a restricted one: see TrustReputation.
TrustGate ==
  /\ At("trust")
  /\ \/ Reply(Pass(rq))
     \/ Reply(Refuse(rq, "trust_reputation", "deny"))
     \/ Reply(Pend(rq, "trust_reputation"))
  /\ UNCHANGED engines

\* runPrivacyPipeline refuses at critical behavioural risk, before the persona
\* is looked at.
BehaviouralRefusal ==
  /\ At("privacy")
  /\ Reply(Refuse(rq, "behavioral_privacy", "deny"))
  /\ UNCHANGED engines

\* A behavioural delay, a new fragment or neither, the persona's search, and a
\* temporal decision whose refusal is signalled but not acted upon.
PrivacyGate ==
  /\ At("privacy")
  /\ \E behaviour \in {"allow", "delay", "rotate_fragment"},
        temporal \in {"allow", "delay", "cooldown", "temporary_block"},
        critical \in BOOLEAN :
       LET decision == PersonaDecision(persona[rq.agent][rq.topic], rq.topic)
           fragment == IF decision.newFragment THEN "rotate_fragment" ELSE "allow"
           reported == Report(Report(Report(rq, "behavioral_privacy", behaviour),
                                     "persona_isolation", fragment),
                              "temporal_obfuscation", temporal)
       IN  Reply([Pass(reported) EXCEPT
                    !.demands = IF decision.isolateSession THEN @ \cup {"persona"} ELSE @,
                    !.newFragment = decision.newFragment,
                    !.critical = critical \/ decision.escalate])
  /\ persona' = [persona EXCEPT ![rq.agent][rq.topic] = Searched(@)]
  /\ UNCHANGED <<deployment, route, fingerprint, carried, served>>

\* Faulty variant: a rotated route does not reach the fingerprint.
PersonaChangedRouteless == rq.newFragment

\* applyTransportFingerprint; only the real endpoint knows about the route yet.
PersonaChanged == rq.newFragment \/ "route" \in rq.demands

FingerprintGate ==
  /\ At("fingerprint")
  /\ LET rotates == FingerprintRotates(fingerprint[rq.agent], PersonaChanged, rq.topic)
         r == [Pass(rq) EXCEPT !.fingerprint = IF rotates THEN "rotated" ELSE "kept"]
     IN  /\ Reply(IF rotates THEN Emit(r, "transport_fingerprint", "rotate_fingerprint") ELSE r)
         /\ fingerprint' = [fingerprint EXCEPT ![rq.agent] = NextFingerprint(@, rotates)]
  /\ UNCHANGED <<deployment, persona, route, carried, served>>

\* resolveDefense: an escalation is not a signal; the raised risk is what the
\* later gates judge.
Defended(target) ==
  \/ Reply(Pass(rq))
  \/ Reply(Pass([rq EXCEPT !.risk = EscalateRisk(@, target)]))
  \/ Reply(Pend(rq, "adaptive_defense"))
  \/ \E action \in {"cooldown", "temporary_block"} :
       Reply(Refuse(rq, "adaptive_defense", action))

LimiterGate == At("limits") /\ Defended("high") /\ UNCHANGED engines
DefenceGate == At("defence") /\ (\E target \in Risk : Defended(target)) /\ UNCHANGED engines

FirewallGate ==
  /\ At("firewall")
  /\ LET verdict == Firewall(rq.agent, rq.compartment, rq.tool, rq.risk) IN
     \/ verdict = "allow" /\ Reply(Pass(rq))
     \/ verdict = "confirm" /\ Reply(Pend(rq, "capability_firewall"))
     \/ verdict = "deny" /\ Reply(Refuse(rq, "capability_firewall", "deny"))
  /\ UNCHANGED engines

\* evaluateNetworkIsolationGate: without an enabled relay nothing passes.
NetworkGate ==
  /\ At("network")
  /\ \/ /\ ~deployment.relay
        /\ Reply(Refuse(rq, "network_isolation", "deny"))
        /\ UNCHANGED route
     \/ /\ deployment.relay
        /\ Reply(Pass(IF RouteRotates(route[rq.compartment], rq.topic, rq.critical)
                        THEN Demand(Emit(rq, "network_isolation", "rotate_identity"), "route")
                        ELSE rq))
        /\ route' = [route EXCEPT ![rq.compartment] = NextRoute(@, rq.topic, rq.critical)]
  /\ UNCHANGED <<deployment, persona, fingerprint, carried, served>>

\* The real endpoint runs nothing but SearXNG, and only when it is ready.
Unavailable ==
  /\ rq.endpoint = "real"
  /\ RoutingRules[<<rq.tool, rq.risk>>].kind # "searxng" \/ ~deployment.searxng

\* Faulty variant: neither endpoint signals a missing route.
UnroutedSilently(r) == [r EXCEPT !.answer = "denied"]

\* execute-mock answers a missing route without a signal, execute with one.
Unrouted(r) ==
  IF r.endpoint = "mock" THEN [r EXCEPT !.answer = "denied"]
  ELSE Refuse(r, "transport_policy", "deny")

RoutingGate ==
  /\ At("routing")
  /\ \/ ~Routed(rq.tool, rq.risk) /\ Reply(Unrouted(rq))
     \/ /\ Routed(rq.tool, rq.risk) /\ Unavailable
        /\ Reply(Refuse(rq, "transport_policy", "deny"))
     \/ /\ Routed(rq.tool, rq.risk) /\ ~Unavailable
        /\ Reply(Pass(IF RoutingRotates(rq.tool, rq.risk) THEN Demand(rq, "routing") ELSE rq))
  /\ UNCHANGED engines

BoundaryVerdict(r) ==
  Boundary(r.compartment, r.compartment, r.risk, RoutingRules[<<r.tool, r.risk>>].level)

BoundaryGate ==
  /\ At("boundary")
  /\ LET verdict == BoundaryVerdict(rq) IN
     \/ verdict = "block" /\ Reply(Refuse(rq, "privacy_boundary", "deny"))
     \/ verdict = "require_approval" /\ Reply(Pend(rq, "privacy_boundary"))
     \/ /\ verdict = "rotate_session"
        /\ Reply(Pass(Demand(Emit(rq, "privacy_boundary", "rotate_session"), "boundary")))
     \/ verdict = "allow" /\ Reply(Pass(rq))
  /\ UNCHANGED engines

\* The session manager rotates on any demand; otherwise it reuses the active
\* session if there is one it may reuse (see SessionManager), or mints one.
SessionGate ==
  /\ At("session")
  /\ \E session \in {"reused", "minted", "rotated"} :
       /\ (session = "rotated") <=> (rq.demands # {})
       /\ session = "reused" => carried[rq.compartment] # {}
       /\ rq' = [Pass(rq) EXCEPT !.session = session]
       /\ carried' = [carried EXCEPT ![rq.compartment] =
                        {rq.topic} \cup IF session = "reused" THEN @ ELSE {}]
       /\ owed' = [owed EXCEPT ![rq.compartment] = @ /\ session = "reused"]
  /\ UNCHANGED <<deployment, persona, route, fingerprint, served>>

\* The execution engine's sandbox blocks inside an answer that stays "allowed".
Execute ==
  /\ At("execute")
  /\ LET kind == IF rq.endpoint = "mock" THEN "mock" ELSE RoutingRules[<<rq.tool, rq.risk>>].kind
     IN  \E status \in ExecutionResults(kind, rq.tool) :
           LET r == [rq EXCEPT !.answer = "allowed", !.result = status]
           IN  Reply(IF status = "blocked" THEN Emit(r, "sandbox", "deny") ELSE r)
  /\ UNCHANGED engines

Next ==
  \/ \E a \in Agents, c \in Compartments, t \in Topics, cap \in Capabilities :
       \/ \E endpoint \in {"mock", "real"} : Start(endpoint, a, c, t, cap)
       \/ StartDisabled(a, c, t, cap)
  \/ GraphGate \/ AgentGate \/ TrustGate
  \/ BehaviouralRefusal \/ PrivacyGate \/ FingerprintGate
  \/ LimiterGate \/ DefenceGate \/ FirewallGate
  \/ NetworkGate \/ RoutingGate \/ BoundaryGate
  \/ SessionGate \/ Execute

Spec == Init /\ [][Next]_vars

-----------------------------------------------------------------------------
Decided == rq.answer \in {"allowed", "pending", "denied"}

\* A session carries research on two topics only after a refused request has
\* used up the route rotation that would have separated them: a change of topic
\* always rotates the route, and the session with it, when the request gets
\* through (local-api.ts mustRotateSession, NetworkIsolationEngine.shouldRotate).
TopicsMeetOnlyAfterRefusal ==
  \A c \in Compartments :
    (\E s, t \in carried[c] : s # t) => owed[c]

\* The composite policy of an answer accounts for it.  A refusal is a blocking
\* composite, except that execute-mock refuses an unrouted request in silence; a
\* pending answer is at least require_approval; an answer that allows is never
\* require_approval, blocking only because of the two gates whose refusal does not
\* stop the handler, and `deny` exactly when its execution was blocked.
CompositeExplainsAnswer ==
  LET composite == Decision(rq.signals, DefaultPolicy).action IN
  Decided /\ rq.step > 0 =>
    /\ rq.answer = "denied" =>
         \/ composite \in Blocking
         \/ rq.endpoint = "mock" /\ ~Routed(rq.tool, rq.risk)
    /\ rq.answer = "pending" =>
         rq.approvals = 1 /\ PrecedenceOf(composite) >= PrecedenceOf("require_approval")
    /\ rq.answer = "allowed" =>
         /\ rq.approvals = 0 /\ composite # "require_approval"
         /\ composite \in Blocking =>
              \E s \in ToSet(rq.signals) : s.action = composite
                                    /\ s.source \in {"temporal_obfuscation", "sandbox"}
         /\ (rq.result = "blocked") <=> (composite = "deny")

\* A request that is not executed takes no session and, on the real endpoint,
\* leaves the agent's fingerprint alone; one that is executed gets every new
\* identity its composite policy asks for: a fresh session for rotate_session and
\* rotate_identity and, on the real endpoint, a fresh fingerprint for the latter.
IdentityMovesForExecution ==
  LET asks(action) == \E s \in ToSet(rq.signals) : s.action = action IN
  /\ Decided /\ rq.answer # "allowed" =>
       rq.session = "none" /\ (rq.endpoint = "real" => rq.fingerprint = "none")
  /\ Decided /\ rq.answer = "allowed" =>
       /\ rq.session # "none"
       /\ asks("rotate_session") \/ asks("rotate_identity") => rq.session = "rotated"
       /\ rq.endpoint = "real" /\ asks("rotate_identity") => rq.fingerprint = "rotated"

\* The risk an execution runs at, raised or not, is one the firewall allows
\* without confirmation and the boundary neither blocks nor sends for approval.
JudgedAtFinalRisk ==
  Decided /\ rq.answer = "allowed" =>
    /\ Firewall(rq.agent, rq.compartment, rq.tool, rq.risk) = "allow"
    /\ BoundaryVerdict(rq) \in {"allow", "rotate_session"}
=============================================================================
