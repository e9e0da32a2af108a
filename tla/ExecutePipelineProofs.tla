-------------------------- MODULE ExecutePipelineProofs --------------------------
(***************************************************************************)
(* TLAPS proofs about the gate sequence of the two execute handlers, for   *)
(* any agents, compartments and topics, any tables of firewall, routing    *)
(* and boundary rules, and any limits of the identity engines.             *)
(*                                                                         *)
(* Most of it is a property of the request alone, of what it has passed    *)
(* and what it has collected on the way (RequestOK): the tables do not     *)
(* change, so a verdict given on the way still holds at the end, and the   *)
(* order of the gates does the rest.  IdentitiesOK adds what the requests  *)
(* leave behind in the compartment's route and session.                    *)
(***************************************************************************)
EXTENDS ExecutePipeline, TLAPS

Actions == {"allow", "delay", "require_approval", "cooldown", "temporary_block", "deny"}
Sources == {"capability_graph", "multi_agent", "trust_reputation", "behavioral_privacy",
            "persona_isolation", "temporal_obfuscation", "transport_fingerprint",
            "adaptive_defense", "capability_firewall", "network_isolation", "transport_policy",
            "privacy_boundary", "sandbox"}
Reasons == {"graph", "persona", "route", "routing", "boundary"}
Signal == [source: Sources, action: Actions \cup Rotation]
Tools == {cap[1] : cap \in Capabilities}

IsRequest(r) ==
  r \in [endpoint: {"mock", "real"}, agent: Agents, compartment: Compartments,
         topic: Topics, tool: Tools, risk: Risk,
         answer: {"none", "allowed", "pending", "denied"}, step: 0 .. 13,
         signals: Seq(Signal), demands: SUBSET Reasons,
         newFragment: {r.newFragment}, critical: {r.critical},
         session: {"none", "reused", "minted", "rotated"},
         fingerprint: {"none", "kept", "rotated"}, approvals: {0, 1},
         result: {"none", "success", "failed", "blocked"}]

\* The request is beyond a gate of its endpoint's sequence.
Past(r, gate) == \E i \in 1 .. r.step - 1 : Pipeline[r.endpoint][i] = gate

\* Some gate has signalled the action.
Signalled(r, action) == \E s \in ToSet(r.signals) : s.action = action

\* What a gate may signal and let the request go on.
GoesOn(s) ==
  \/ s.action \in Rotation \cup {"delay"}
  \/ s.source = "temporal_obfuscation" /\ s.action \in {"cooldown", "temporary_block"}

\* Every answer has its signals, and only its own.
AnswerAccounted(r) ==
  /\ r.answer = "none" =>
       /\ r.step > 0 /\ r.approvals = 0 /\ r.result = "none"
       /\ \A s \in ToSet(r.signals) : GoesOn(s)
  /\ r.answer = "denied" /\ r.step > 0 =>
       \/ \E action \in Blocking : Signalled(r, action)
       \/ r.endpoint = "mock" /\ ~Routed(r.tool, r.risk)
  /\ r.answer = "pending" => r.approvals = 1 /\ Signalled(r, "require_approval")
  /\ r.answer = "allowed" =>
       /\ r.step = 13 /\ r.approvals = 0
       /\ \A s \in ToSet(r.signals) : GoesOn(s) \/ (s.source = "sandbox" /\ s.action = "deny")
       /\ Signalled(r, "deny") <=> r.result = "blocked"

\* Every rotation signalled has left a demand, and the route's comes from its gate.
DemandsKept(r) ==
  /\ Signalled(r, "rotate_session") => r.demands # {}
  /\ Signalled(r, "rotate_identity") => "route" \in r.demands
  /\ "route" \in r.demands => Past(r, "network")

\* The verdicts of the gates the request has passed hold for its present risk.
VerdictsHold(r) ==
  /\ Past(r, "firewall") => Firewall(r.agent, r.compartment, r.tool, r.risk) = "allow"
  /\ Past(r, "boundary") => BoundaryVerdict(r) \in {"allow", "rotate_session"}

\* Identities are taken at their gates and not before, and no request is turned
\* away after that.
IdentitiesTaken(r) ==
  /\ IF Past(r, "session") THEN r.session # "none" /\ (r.demands # {} => r.session = "rotated")
                           ELSE r.session = "none"
  /\ r.endpoint = "real" =>
       IF Past(r, "fingerprint")
         THEN r.fingerprint # "none" /\ ("route" \in r.demands => r.fingerprint = "rotated")
         ELSE r.fingerprint = "none"
  /\ r.answer \in {"pending", "denied"} =>
       ~Past(r, "session") /\ (r.endpoint = "real" => ~Past(r, "fingerprint"))

RequestOK(r) ==
  /\ IsRequest(r)
  /\ AnswerAccounted(r) /\ DemandsKept(r) /\ VerdictsHold(r) /\ IdentitiesTaken(r)

\* The compartment is about to leave the session its carried topics belong to.
Leaving(c) ==
  /\ rq.answer = "none" /\ rq.compartment = c
  /\ "route" \in rq.demands /\ ~Past(rq, "session")

\* A session's topics are the route's, unless a refusal or the request under way
\* has moved the route.
IdentitiesOK ==
  /\ carried \in [Compartments -> SUBSET Topics]
  /\ \A c \in Compartments :
       route[c] \in [scope: Topics \cup {NoTopic}, assigned: {route[c].assigned}]
  /\ DOMAIN route = Compartments
  /\ owed \in [Compartments -> BOOLEAN]
  /\ TopicsMeetOnlyAfterRefusal
  /\ \A c \in Compartments : owed[c] \/ Leaving(c) \/ carried[c] \subseteq {route[c].scope}
  /\ rq.answer = "none" /\ Past(rq, "network") => route[rq.compartment].scope = rq.topic

PipelineInv == (rq = Idle \/ RequestOK(rq)) /\ IdentitiesOK

-----------------------------------------------------------------------------
\* The two sequences, gate by gate.
LEMMA Places ==
  ASSUME NEW r, IsRequest(r)
  PROVE  /\ Past(r, "firewall") <=> r.step > (IF r.endpoint = "mock" THEN 8 ELSE 7)
         /\ Past(r, "network") <=> r.step > (IF r.endpoint = "mock" THEN 9 ELSE 8)
         /\ Past(r, "boundary") <=> r.step > (IF r.endpoint = "mock" THEN 11 ELSE 10)
         /\ Past(r, "fingerprint") <=> r.step > (IF r.endpoint = "mock" THEN 5 ELSE 11)
         /\ Past(r, "session") <=> r.step > 12
<1>1. r.step \in 0 .. 13 /\ r.endpoint \in {"mock", "real"}
  BY DEF IsRequest
<1>2. CASE r.endpoint = "mock"
  BY <1>1, <1>2 DEF Past, Pipeline
<1>3. CASE r.endpoint = "real"
  BY <1>1, <1>3 DEF Past, Pipeline
<1>. QED BY <1>1, <1>2, <1>3

\* And where a request is that has arrived at a gate.
LEMMA Arrivals ==
  ASSUME IsRequest(rq), rq.step > 0, NEW gate, At(gate)
  PROVE  /\ rq.answer = "none"
         /\ gate \in {"graph", "agents", "trust", "privacy"} => rq.step <= 4
         /\ gate = "limits" => rq.step = IF rq.endpoint = "mock" THEN 6 ELSE 5
         /\ gate = "defence" => rq.step = IF rq.endpoint = "mock" THEN 7 ELSE 6
         /\ gate = "firewall" => rq.step = IF rq.endpoint = "mock" THEN 8 ELSE 7
         /\ gate = "network" => rq.step = IF rq.endpoint = "mock" THEN 9 ELSE 8
         /\ gate = "routing" => rq.step = IF rq.endpoint = "mock" THEN 10 ELSE 9
         /\ gate = "boundary" => rq.step = IF rq.endpoint = "mock" THEN 11 ELSE 10
         /\ gate = "fingerprint" => rq.step = IF rq.endpoint = "mock" THEN 5 ELSE 11
         /\ gate = "session" => rq.step = 12
         /\ gate = "execute" => rq.step = 13
<1>1. rq.step \in 1 .. 13 /\ rq.endpoint \in {"mock", "real"} /\ rq.answer = "none"
      /\ Pipeline[rq.endpoint][rq.step] = gate
  BY DEF IsRequest, At
<1>2. CASE rq.endpoint = "mock"
  BY <1>1, <1>2 DEF Pipeline
<1>3. CASE rq.endpoint = "real"
  BY <1>1, <1>3 DEF Pipeline
<1>. QED BY <1>1, <1>2, <1>3

-----------------------------------------------------------------------------
\* The rank of each action.
LEMMA PrecedenceFacts ==
  /\ PrecedenceOf("allow") = 1 /\ PrecedenceOf("delay") = 2
  /\ PrecedenceOf("require_approval") = 3 /\ PrecedenceOf("cooldown") = 4
  /\ PrecedenceOf("temporary_block") = 5 /\ PrecedenceOf("deny") = 6
BY DEF PrecedenceOf, Precedence

\* The largest of a few small numbers.
LEMMA LargestRank ==
  ASSUME NEW S \in SUBSET (1 .. 6), 1 \in S
  PROVE  Max(S) \in S /\ \A n \in S : n <= Max(S)
<1>1. \E m \in S : \A n \in S : m >= n
  OBVIOUS
<1>. QED BY <1>1 DEF Max

\* Under the default policy the composite is an action that was signalled, or
\* allow, and none that was signalled is more restrictive.
LEMMA CompositeFacts ==
  ASSUME NEW signals \in Seq(Signal)
  PROVE  LET c == Decision(signals, DefaultPolicy).action IN
         /\ c \in Actions
         /\ c = "allow" \/ \E s \in ToSet(signals) : s.action = c
         /\ \A s \in ToSet(signals) :
              s.action \in Actions => PrecedenceOf(s.action) <= PrecedenceOf(c)
<1>. DEFINE D == Deciding(signals)
            ranks == {PrecedenceOf(a) : a \in D} \cup {1}
            winner == Precedence[Max(ranks)]
<1>1. D = {s.action : s \in ToSet(signals)} \cap Actions
  <2>1. \A s \in ToSet(signals) : s.action \in Actions \cup Rotation
    <3>1. \A s \in ToSet(signals) : s \in Signal
      BY DEF ToSet
    <3>. QED BY <3>1 DEF Signal
  <2>2. Actions \cap Rotation = {}
    BY DEF Actions, Rotation
  <2>. QED BY <2>1, <2>2 DEF Deciding
<1>2. ranks \in SUBSET (1 .. 6) /\ 1 \in ranks
  BY <1>1, PrecedenceFacts DEF Actions
<1>3. Max(ranks) \in ranks /\ \A n \in ranks : n <= Max(ranks)
  <2>. HIDE DEF ranks
  <2>. QED BY <1>2, LargestRank
<1>4. \A i \in 1 .. 6 : Precedence[i] \in Actions /\ PrecedenceOf(Precedence[i]) = i
  BY PrecedenceFacts DEF Precedence, Actions
<1>5. \A a \in Actions : Precedence[PrecedenceOf(a)] = a
  BY PrecedenceFacts DEF Precedence, Actions
<1>6. Precedence[1] = "allow"
  BY DEF Precedence
<1>7. winner \in Actions /\ PrecedenceOf(winner) = Max(ranks)
  BY <1>2, <1>3, <1>4
<1>8. winner = "allow" \/ winner \in D
  BY <1>1, <1>3, <1>5, <1>6
<1>9. MostRestrictive(signals, DefaultPolicy) = winner
  BY DEF MostRestrictive, DefaultPolicy
<1>10. Decision(signals, DefaultPolicy).action = winner
  BY <1>9 DEF Decision, Merged, DefaultPolicy
<1>. HIDE DEF winner, ranks, D
<1>11. \A s \in ToSet(signals) :
         s.action \in Actions => PrecedenceOf(s.action) <= PrecedenceOf(winner)
  BY <1>1, <1>3, <1>7 DEF ranks
<1>. QED BY <1>1, <1>7, <1>8, <1>10, <1>11

\* What an answered request shows is what its composite policy says.
LEMMA AnswerExplained ==
  ASSUME IsRequest(rq), AnswerAccounted(rq)
  PROVE  CompositeExplainsAnswer
<1>. DEFINE c == Decision(rq.signals, DefaultPolicy).action
<1>1. /\ c \in Actions
      /\ c = "allow" \/ \E s \in ToSet(rq.signals) : s.action = c
      /\ \A s \in ToSet(rq.signals) :
           s.action \in Actions => PrecedenceOf(s.action) <= PrecedenceOf(c)
  BY CompositeFacts DEF IsRequest
<1>. HIDE DEF c
<1>. SUFFICES ASSUME Decided, rq.step > 0
              PROVE  /\ rq.answer = "denied" =>
                          \/ c \in Blocking
                          \/ rq.endpoint = "mock" /\ ~Routed(rq.tool, rq.risk)
                     /\ rq.answer = "pending" =>
                          /\ rq.approvals = 1
                          /\ PrecedenceOf(c) >= PrecedenceOf("require_approval")
                     /\ rq.answer = "allowed" =>
                          /\ rq.approvals = 0 /\ c # "require_approval"
                          /\ c \in Blocking =>
                               \E s \in ToSet(rq.signals) :
                                 s.action = c /\ s.source \in {"temporal_obfuscation", "sandbox"}
                          /\ (rq.result = "blocked") <=> (c = "deny")
  BY DEF CompositeExplainsAnswer, c
<1>2. ASSUME rq.answer = "denied"
      PROVE  c \in Blocking \/ (rq.endpoint = "mock" /\ ~Routed(rq.tool, rq.risk))
  <2>1. CASE \E action \in Blocking : Signalled(rq, action)
    <3>1. PICK s \in ToSet(rq.signals) : s.action \in Blocking
      BY <2>1 DEF Signalled
    <3>2. PrecedenceOf(s.action) >= 4 /\ s.action \in Actions
      BY <3>1, PrecedenceFacts DEF Blocking, Actions
    <3>. QED BY <1>1, <3>2, PrecedenceFacts DEF Blocking, Actions
  <2>. QED BY <1>2, <2>1 DEF AnswerAccounted
<1>3. ASSUME rq.answer = "pending"
      PROVE  rq.approvals = 1 /\ PrecedenceOf(c) >= PrecedenceOf("require_approval")
  <2>1. rq.approvals = 1 /\ \E s \in ToSet(rq.signals) : s.action = "require_approval"
    BY <1>3 DEF AnswerAccounted, Signalled
  <2>. QED BY <1>1, <2>1, PrecedenceFacts DEF Actions
<1>4. ASSUME rq.answer = "allowed"
      PROVE  /\ rq.approvals = 0 /\ c # "require_approval"
             /\ c \in Blocking =>
                  \E s \in ToSet(rq.signals) :
                    s.action = c /\ s.source \in {"temporal_obfuscation", "sandbox"}
             /\ (rq.result = "blocked") <=> (c = "deny")
  <2>1. /\ rq.approvals = 0
        /\ \A s \in ToSet(rq.signals) : GoesOn(s) \/ (s.source = "sandbox" /\ s.action = "deny")
        /\ (\E s \in ToSet(rq.signals) : s.action = "deny") <=> rq.result = "blocked"
    BY <1>4 DEF AnswerAccounted, Signalled
  <2>2. Actions \cap Rotation = {}
    BY DEF Actions, Rotation
  <2>3. c # "allow" =>
          \E s \in ToSet(rq.signals) :
            /\ s.action = c
            /\ \/ s.action = "delay"
               \/ s.source = "temporal_obfuscation" /\ s.action \in {"cooldown", "temporary_block"}
               \/ s.source = "sandbox" /\ s.action = "deny"
    BY <1>1, <2>1, <2>2 DEF GoesOn
  <2>4. (\E s \in ToSet(rq.signals) : s.action = "deny") => c = "deny"
    BY <1>1, PrecedenceFacts DEF Actions
  <2>5. c = "deny" => \E s \in ToSet(rq.signals) : s.action = "deny"
    BY <1>1
  <2>. QED BY <2>1, <2>3, <2>4, <2>5 DEF Blocking
<1>. QED BY <1>2, <1>3, <1>4

\* The other three properties of a request follow from RequestOK.
LEMMA RequestFacts ==
  ASSUME RequestOK(rq)
  PROVE  CompositeExplainsAnswer /\ IdentityMovesForExecution /\ JudgedAtFinalRisk
<1>1. CompositeExplainsAnswer
  BY AnswerExplained DEF RequestOK
<1>2. rq.answer = "allowed" =>
        /\ Past(rq, "session") /\ Past(rq, "fingerprint")
        /\ Past(rq, "firewall") /\ Past(rq, "boundary")
  BY Places DEF RequestOK, AnswerAccounted
<1>3. IdentityMovesForExecution
  BY <1>2 DEF RequestOK, IdentitiesTaken, DemandsKept, Signalled, Decided,
              IdentityMovesForExecution
<1>4. JudgedAtFinalRisk
  BY <1>2 DEF RequestOK, VerdictsHold, Decided, JudgedAtFinalRisk
<1>. QED BY <1>1, <1>3, <1>4

-----------------------------------------------------------------------------
\* One more signal changes nothing else.
LEMMA EmitFacts ==
  ASSUME NEW r, IsRequest(r), NEW source \in Sources, NEW action \in Actions \cup Rotation
  PROVE  /\ IsRequest(Emit(r, source, action))
         /\ Emit(r, source, action) =
              [r EXCEPT !.signals = Append(r.signals, [source |-> source, action |-> action])]
         /\ ToSet(Emit(r, source, action).signals) =
              ToSet(r.signals) \cup {[source |-> source, action |-> action]}
<1>. DEFINE s == [source |-> source, action |-> action]
            longer == Append(r.signals, s)
<1>1. Emit(r, source, action) = [r EXCEPT !.signals = longer]
  BY Zenon DEF Emit
<1>2. s \in Signal /\ r.signals \in Seq(Signal)
  BY DEF Signal, IsRequest
<1>. HIDE DEF s
<1>3. longer \in Seq(Signal) /\ ToSet(longer) = ToSet(r.signals) \cup {s}
  <2>1. /\ longer \in Seq(Signal) /\ Len(longer) = Len(r.signals) + 1
        /\ longer[Len(r.signals) + 1] = s /\ Len(r.signals) \in Nat
        /\ \A i \in 1 .. Len(r.signals) : longer[i] = r.signals[i]
    BY <1>2
  <2>2. DOMAIN longer = 1 .. Len(r.signals) + 1 /\ DOMAIN r.signals = 1 .. Len(r.signals)
    BY <1>2, <2>1
  <2>. HIDE DEF longer
  <2>. QED BY <2>1, <2>2 DEF ToSet
<1>. HIDE DEF longer
<1>4. IsRequest([r EXCEPT !.signals = longer]) /\ [r EXCEPT !.signals = longer].signals = longer
  BY <1>3 DEF IsRequest
<1>. QED BY <1>1, <1>3, <1>4 DEF longer, s

\* A gate turns a request away with a signal that says so.
LEMMA RefusalKeeps ==
  ASSUME NEW r, RequestOK(r), r.answer = "none", r.step <= 11,
         r.endpoint = "real" => r.step <= 10,
         NEW source \in Sources, NEW action \in Blocking
  PROVE  LET q == Refuse(r, source, action) IN
         /\ RequestOK(q) /\ q.answer = "denied" /\ q.step = r.step
         /\ q.compartment = r.compartment /\ q.topic = r.topic /\ q.demands = r.demands
<1>. DEFINE e == Emit(r, source, action)
            q == [e EXCEPT !.answer = "denied"]
<1>1. Refuse(r, source, action) = q
  BY DEF Refuse
<1>2. action \in Actions \cup Rotation /\ action \notin {"rotate_session", "rotate_identity"}
  BY DEF Blocking, Actions
<1>3. /\ IsRequest(e)
      /\ e = [r EXCEPT !.signals = Append(r.signals, [source |-> source, action |-> action])]
      /\ ToSet(e.signals) = ToSet(r.signals) \cup {[source |-> source, action |-> action]}
  BY <1>2, EmitFacts DEF RequestOK
<1>4. /\ e.step = r.step /\ e.endpoint = r.endpoint /\ e.compartment = r.compartment
      /\ e.agent = r.agent /\ e.topic = r.topic /\ e.tool = r.tool /\ e.risk = r.risk
      /\ e.demands = r.demands /\ e.session = r.session /\ e.fingerprint = r.fingerprint
  <2>. HIDE DEF e
  <2>1. IsRequest(r)
    BY DEF RequestOK
  <2>2. /\ e.step = r.step /\ e.endpoint = r.endpoint /\ e.compartment = r.compartment
        /\ e.agent = r.agent /\ e.topic = r.topic
    BY ONLY <1>3, <2>1 DEF IsRequest
  <2>3. /\ e.tool = r.tool /\ e.risk = r.risk /\ e.demands = r.demands
        /\ e.session = r.session /\ e.fingerprint = r.fingerprint
    BY ONLY <1>3, <2>1 DEF IsRequest
  <2>. QED BY ONLY <2>2, <2>3
<1>. HIDE DEF e
<1>5. /\ IsRequest(q) /\ q.answer = "denied" /\ q.signals = e.signals
      /\ q.step = r.step /\ q.endpoint = r.endpoint /\ q.compartment = r.compartment
      /\ q.agent = r.agent /\ q.topic = r.topic /\ q.tool = r.tool /\ q.risk = r.risk
      /\ q.demands = r.demands /\ q.session = r.session /\ q.fingerprint = r.fingerprint
  <2>1. IsRequest(e)
    BY <1>3
  <2>2. IsRequest(q)
    BY ONLY <2>1 DEF IsRequest
  <2>3. q.answer = "denied" /\ q.signals = e.signals /\ q.step = e.step
        /\ q.endpoint = e.endpoint /\ q.compartment = e.compartment /\ q.agent = e.agent
        /\ q.topic = e.topic /\ q.tool = e.tool
    BY ONLY <2>1 DEF IsRequest
  <2>4. q.risk = e.risk /\ q.demands = e.demands /\ q.session = e.session
        /\ q.fingerprint = e.fingerprint
    BY ONLY <2>1 DEF IsRequest
  <2>. QED BY <1>4, <2>2, <2>3, <2>4
<1>. HIDE DEF q
<1>6. \A other : Signalled(q, other) <=> Signalled(r, other) \/ other = action
  BY <1>3, <1>5 DEF Signalled
<1>7. AnswerAccounted(q)
  BY <1>5, <1>6 DEF AnswerAccounted
<1>8. \A gate : Past(q, gate) <=> Past(r, gate)
  BY <1>5 DEF Past
<1>9. DemandsKept(q)
  BY <1>2, <1>5, <1>6, <1>8 DEF RequestOK, DemandsKept
<1>10. VerdictsHold(q)
  BY <1>5, <1>8 DEF RequestOK, VerdictsHold, BoundaryVerdict
<1>11. ~Past(r, "session") /\ (r.endpoint = "real" => ~Past(r, "fingerprint"))
  BY Places DEF RequestOK, IsRequest
<1>12. IdentitiesTaken(q)
  BY <1>5, <1>8, <1>11 DEF RequestOK, IdentitiesTaken
<1>. QED BY <1>1, <1>5, <1>7, <1>9, <1>10, <1>12 DEF RequestOK

\* A gate sends a request for approval.
LEMMA PendKeeps ==
  ASSUME NEW r, RequestOK(r), r.answer = "none", r.step <= 11,
         r.endpoint = "real" => r.step <= 10, NEW source \in Sources
  PROVE  LET q == Pend(r, source) IN
         /\ RequestOK(q) /\ q.answer = "pending" /\ q.step = r.step
         /\ q.compartment = r.compartment /\ q.topic = r.topic /\ q.demands = r.demands
<1>. DEFINE e == Emit(r, source, "require_approval")
            q == [e EXCEPT !.answer = "pending", !.approvals = 1]
<1>1. /\ IsRequest(e)
      /\ e = [r EXCEPT !.signals =
                 Append(r.signals, [source |-> source, action |-> "require_approval"])]
      /\ ToSet(e.signals) =
           ToSet(r.signals) \cup {[source |-> source, action |-> "require_approval"]}
  BY EmitFacts DEF RequestOK, Actions
<1>2. /\ e.step = r.step /\ e.endpoint = r.endpoint /\ e.compartment = r.compartment
      /\ e.agent = r.agent /\ e.topic = r.topic /\ e.tool = r.tool /\ e.risk = r.risk
      /\ e.demands = r.demands /\ e.session = r.session /\ e.fingerprint = r.fingerprint
      /\ e.approvals = r.approvals
  <2>. HIDE DEF e
  <2>1. IsRequest(r)
    BY DEF RequestOK
  <2>2. /\ e.step = r.step /\ e.endpoint = r.endpoint /\ e.compartment = r.compartment
        /\ e.agent = r.agent /\ e.topic = r.topic /\ e.approvals = r.approvals
    BY ONLY <1>1, <2>1 DEF IsRequest
  <2>3. /\ e.tool = r.tool /\ e.risk = r.risk /\ e.demands = r.demands
        /\ e.session = r.session /\ e.fingerprint = r.fingerprint
    BY ONLY <1>1, <2>1 DEF IsRequest
  <2>. QED BY ONLY <2>2, <2>3
<1>3. Pend(r, source) = q
  <2>1. e.approvals + 1 = 1
    BY <1>2 DEF RequestOK, AnswerAccounted
  <2>2. Pend(r, source) = [e EXCEPT !.answer = "pending", !.approvals = e.approvals + 1]
    BY Zenon DEF Pend
  <2>. HIDE DEF e
  <2>. QED BY <2>1, <2>2
<1>. HIDE DEF e
<1>4. /\ IsRequest(q) /\ q.answer = "pending" /\ q.signals = e.signals /\ q.approvals = 1
      /\ q.step = r.step /\ q.endpoint = r.endpoint /\ q.compartment = r.compartment
      /\ q.agent = r.agent /\ q.topic = r.topic /\ q.tool = r.tool /\ q.risk = r.risk
      /\ q.demands = r.demands /\ q.session = r.session /\ q.fingerprint = r.fingerprint
  <2>1. IsRequest(e)
    BY <1>1
  <2>2. IsRequest(q)
    BY ONLY <2>1 DEF IsRequest
  <2>3. q.answer = "pending" /\ q.signals = e.signals /\ q.step = e.step
        /\ q.endpoint = e.endpoint /\ q.compartment = e.compartment /\ q.agent = e.agent
        /\ q.topic = e.topic /\ q.tool = e.tool
    BY ONLY <2>1 DEF IsRequest
  <2>4. q.risk = e.risk /\ q.demands = e.demands /\ q.session = e.session
        /\ q.fingerprint = e.fingerprint /\ q.approvals = 1
    BY ONLY <2>1 DEF IsRequest
  <2>. QED BY <1>2, <2>2, <2>3, <2>4
<1>. HIDE DEF q
<1>5. \A other : Signalled(q, other) <=> Signalled(r, other) \/ other = "require_approval"
  BY <1>1, <1>4 DEF Signalled
<1>6. AnswerAccounted(q)
  BY <1>4, <1>5 DEF AnswerAccounted
<1>7. \A gate : Past(q, gate) <=> Past(r, gate)
  BY <1>4 DEF Past
<1>8. DemandsKept(q)
  BY <1>4, <1>5, <1>7 DEF RequestOK, DemandsKept
<1>9. VerdictsHold(q)
  BY <1>4, <1>7 DEF RequestOK, VerdictsHold, BoundaryVerdict
<1>10. ~Past(r, "session") /\ (r.endpoint = "real" => ~Past(r, "fingerprint"))
  BY Places DEF RequestOK, IsRequest
<1>11. IdentitiesTaken(q)
  BY <1>4, <1>7, <1>10 DEF RequestOK, IdentitiesTaken
<1>. QED BY <1>3, <1>4, <1>6, <1>8, <1>9, <1>11 DEF RequestOK

\* q is r one gate further, with no signal that decides by itself.
Advances(r, q) ==
  /\ IsRequest(q) /\ q.step = r.step + 1
  /\ q.endpoint = r.endpoint /\ q.agent = r.agent /\ q.compartment = r.compartment
  /\ q.topic = r.topic /\ q.tool = r.tool
  /\ q.answer = "none" /\ q.approvals = r.approvals /\ q.result = r.result
  /\ r.demands \subseteq q.demands
  /\ \A s \in ToSet(q.signals) :
       \/ s \in ToSet(r.signals)
       \/ /\ GoesOn(s)
          /\ s.action = "rotate_session" => q.demands # {}
          /\ s.action = "rotate_identity" => "route" \in q.demands

\* What has to be shown of a gate before the session that lets a request pass.
LEMMA AdvanceKeeps ==
  ASSUME NEW r, RequestOK(r), r.answer = "none", r.step <= 11, NEW q, Advances(r, q),
         q.risk = r.risk \/ (~Past(q, "firewall") /\ ~Past(q, "boundary")),
         "route" \in q.demands => Past(q, "network"),
         Past(q, "firewall") => Past(r, "firewall")
           \/ Firewall(q.agent, q.compartment, q.tool, q.risk) = "allow",
         Past(q, "boundary") => Past(r, "boundary")
           \/ BoundaryVerdict(q) \in {"allow", "rotate_session"},
         q.session = r.session,
         r.endpoint = "real" =>
           \/ r.step < 11 /\ q.fingerprint = r.fingerprint
           \/ /\ r.step = 11 /\ q.fingerprint # "none"
              /\ "route" \in q.demands => q.fingerprint = "rotated"
  PROVE  RequestOK(q)
<1>1. IsRequest(r) /\ IsRequest(q) /\ r.step \in 1 .. 11 /\ q.step \in 2 .. 12
  BY DEF RequestOK, Advances, AnswerAccounted, IsRequest
<1>2. AnswerAccounted(q)
  BY <1>1 DEF RequestOK, AnswerAccounted, Advances
<1>3. DemandsKept(q)
  BY DEF RequestOK, DemandsKept, Advances, Signalled
<1>4. VerdictsHold(q)
  <2>1. (Past(r, "firewall") => Past(q, "firewall")) /\ (Past(r, "boundary") => Past(q, "boundary"))
    BY <1>1, Places DEF Advances
  <2>2. q.risk = r.risk => BoundaryVerdict(q) = BoundaryVerdict(r)
    BY DEF BoundaryVerdict, Advances
  <2>. QED BY <2>1, <2>2 DEF RequestOK, VerdictsHold, Advances
<1>5. IdentitiesTaken(q)
  <2>1. /\ ~Past(q, "session") /\ ~Past(r, "session")
        /\ r.endpoint = "real" => /\ ~Past(r, "fingerprint")
                                  /\ Past(q, "fingerprint") <=> r.step = 11
    BY <1>1, Places DEF Advances
  <2>. QED BY <2>1 DEF RequestOK, IdentitiesTaken, Advances
<1>. QED BY <1>1, <1>2, <1>3, <1>4, <1>5 DEF RequestOK

\* Passing a gate as one is.
LEMMA PassFacts ==
  ASSUME NEW r, IsRequest(r), r.answer = "none", r.step \in 1 .. 12
  PROVE  /\ Advances(r, Pass(r)) /\ Pass(r) = [r EXCEPT !.step = r.step + 1]
         /\ Pass(r).risk = r.risk /\ Pass(r).demands = r.demands
         /\ Pass(r).signals = r.signals
         /\ Pass(r).session = r.session /\ Pass(r).fingerprint = r.fingerprint
<1>. DEFINE q == [r EXCEPT !.step = r.step + 1]
<1>1. Pass(r) = q
  BY Zenon DEF Pass
<1>2. IsRequest(q) /\ q.step = r.step + 1
  BY DEF IsRequest
<1>3. /\ q.endpoint = r.endpoint /\ q.agent = r.agent /\ q.compartment = r.compartment
      /\ q.topic = r.topic /\ q.tool = r.tool /\ q.answer = "none"
      /\ q.approvals = r.approvals /\ q.result = r.result /\ q.demands = r.demands
      /\ q.signals = r.signals /\ q.risk = r.risk
      /\ q.session = r.session /\ q.fingerprint = r.fingerprint
  BY DEF IsRequest
<1>. HIDE DEF q
<1>4. Pass(r) = [r EXCEPT !.step = r.step + 1]
  BY <1>1 DEF q
<1>. QED BY <1>1, <1>2, <1>3, <1>4 DEF Advances

\* q asks for the same as r, was answered the same and holds the same identities.
Alike(r, q) ==
  /\ q.endpoint = r.endpoint /\ q.agent = r.agent /\ q.compartment = r.compartment
  /\ q.topic = r.topic /\ q.tool = r.tool /\ q.risk = r.risk
  /\ q.answer = r.answer /\ q.step = r.step /\ q.approvals = r.approvals
  /\ q.result = r.result /\ q.session = r.session /\ q.fingerprint = r.fingerprint

\* A signal and a demand leave all of that as it was.
LEMMA DemandFacts ==
  ASSUME NEW r, IsRequest(r), NEW reason \in Reasons
  PROVE  /\ IsRequest(Demand(r, reason)) /\ Alike(r, Demand(r, reason))
         /\ Demand(r, reason).demands = r.demands \cup {reason}
         /\ Demand(r, reason).signals = r.signals
<1>. DEFINE more == r.demands \cup {reason}
            q == [r EXCEPT !.demands = more]
<1>1. Demand(r, reason) = q
  BY Zenon DEF Demand
<1>2. more \in SUBSET Reasons
  BY DEF IsRequest
<1>. HIDE DEF more
<1>3. IsRequest(q) /\ q.demands = more /\ q.signals = r.signals
  BY <1>2 DEF IsRequest
<1>4. Alike(r, q)
  BY DEF IsRequest, Alike
<1>. HIDE DEF q
<1>. QED BY <1>1, <1>3, <1>4 DEF more

\* See DemandFacts.
LEMMA EmitAlike ==
  ASSUME NEW r, IsRequest(r), NEW source \in Sources, NEW action \in Actions \cup Rotation
  PROVE  Alike(r, Emit(r, source, action)) /\ Emit(r, source, action).demands = r.demands
<1>. DEFINE longer == Append(r.signals, [source |-> source, action |-> action])
<1>1. Emit(r, source, action) = [r EXCEPT !.signals = longer]
  BY EmitFacts
<1>. HIDE DEF longer
<1>. QED BY <1>1 DEF IsRequest, Alike

\* A gate that lets a request pass and asks for a rotation.
LEMMA RotationAdvances ==
  ASSUME NEW r, IsRequest(r), r.answer = "none", r.step \in 1 .. 12,
         NEW source \in Sources, NEW reason \in Reasons,
         NEW action \in {"rotate_session", "rotate_identity"},
         action = "rotate_identity" => reason = "route"
  PROVE  LET q == Pass(Demand(Emit(r, source, action), reason)) IN
         /\ Advances(r, q) /\ q.risk = r.risk /\ q.demands = r.demands \cup {reason}
         /\ q.session = r.session /\ q.fingerprint = r.fingerprint
<1>. DEFINE e == Emit(r, source, action)
            d == Demand(e, reason)
            q == Pass(d)
            s == [source |-> source, action |-> action]
<1>1. /\ IsRequest(e) /\ Alike(r, e) /\ e.demands = r.demands
      /\ ToSet(e.signals) = ToSet(r.signals) \cup {s}
  <2>1. action \in Actions \cup Rotation
    BY DEF Rotation
  <2>2. IsRequest(e) /\ ToSet(e.signals) = ToSet(r.signals) \cup {s}
    BY <2>1, EmitFacts
  <2>3. Alike(r, e) /\ e.demands = r.demands
    BY <2>1, EmitAlike
  <2>. QED BY ONLY <2>2, <2>3
<1>2. GoesOn(s) /\ s.action = action
  BY DEF GoesOn, Rotation
<1>. HIDE DEF e, s
<1>3. /\ IsRequest(d) /\ Alike(e, d) /\ d.demands = r.demands \cup {reason}
      /\ d.signals = e.signals
  BY <1>1, DemandFacts
<1>. HIDE DEF d
<1>4. d.answer = "none" /\ d.step = r.step
  BY <1>1, <1>3 DEF Alike
<1>5. /\ Advances(d, q) /\ q.risk = d.risk /\ q.demands = d.demands
      /\ q.signals = d.signals /\ q.session = d.session /\ q.fingerprint = d.fingerprint
  BY <1>3, <1>4, PassFacts
<1>. HIDE DEF q
<1>6. /\ q.risk = r.risk /\ q.demands = r.demands \cup {reason}
      /\ q.session = r.session /\ q.fingerprint = r.fingerprint
  BY <1>1, <1>3, <1>5 DEF Alike
<1>7. ToSet(q.signals) = ToSet(r.signals) \cup {s}
  BY <1>1, <1>3, <1>5
<1>8. Advances(r, q)
  BY <1>1, <1>2, <1>3, <1>5, <1>6, <1>7 DEF Alike, Advances
<1>. QED BY <1>6, <1>8 DEF e, d, q

-----------------------------------------------------------------------------
\* A reply owes the compartment a rotation when it turns away a request that has
\* moved the route.
LEMMA ReplyOwes ==
  ASSUME IdentitiesOK, NEW q, Reply(q), rq.compartment \in Compartments
  PROVE  /\ rq' = q /\ owed' \in [Compartments -> BOOLEAN]
         /\ \A c \in Compartments : owed[c] => owed'[c]
         /\ q.answer \in {"denied", "pending"} /\ "route" \in q.demands
              => owed'[rq.compartment]
<1>. DEFINE moved == q.answer \in {"denied", "pending"} /\ "route" \in q.demands
<1>1. rq' = q /\ owed' = [owed EXCEPT ![rq.compartment] = owed[rq.compartment] \/ moved]
  BY Zenon DEF Reply
<1>2. owed \in [Compartments -> BOOLEAN]
  BY DEF IdentitiesOK
<1>. HIDE DEF moved
<1>3. CASE moved
  <2>1. owed' = [owed EXCEPT ![rq.compartment] = TRUE]
    BY <1>1, <1>3, Zenon
  <2>. QED BY <1>1, <1>2, <2>1
<1>4. CASE ~moved
  <2>1. owed[rq.compartment] \in BOOLEAN
    BY <1>2
  <2>2. (owed[rq.compartment] \/ moved) = owed[rq.compartment]
    BY <1>4, <2>1, Zenon
  <2>3. owed' = owed
    BY <1>1, <1>2, <2>2
  <2>. QED BY <1>1, <1>2, <1>4, <2>3 DEF moved
<1>. QED BY <1>3, <1>4

\* A reply that leaves the route and the session alone.
LEMMA ReplyKeeps ==
  ASSUME PipelineInv, IsRequest(rq), rq.answer = "none", NEW q, RequestOK(q), Reply(q),
         q.compartment = rq.compartment, q.topic = rq.topic,
         "route" \in q.demands <=> "route" \in rq.demands,
         q.answer = "allowed" => Past(rq, "session"),
         q.answer = "none" =>
           ~Past(q, "session") /\ (Past(q, "network") => Past(rq, "network")),
         UNCHANGED <<carried, route>>
  PROVE  PipelineInv'
<1>1. /\ rq' = q /\ owed' \in [Compartments -> BOOLEAN]
      /\ \A c \in Compartments : owed[c] => owed'[c]
      /\ q.answer \in {"denied", "pending"} /\ "route" \in q.demands
           => owed'[rq.compartment]
  BY ReplyOwes DEF PipelineInv, IsRequest
<1>2. TopicsMeetOnlyAfterRefusal'
  BY <1>1 DEF PipelineInv, IdentitiesOK, TopicsMeetOnlyAfterRefusal
<1>3. ASSUME NEW c \in Compartments
      PROVE  owed'[c] \/ Leaving(c)' \/ carried'[c] \subseteq {route'[c].scope}
  <2>1. owed[c] \/ Leaving(c) \/ carried[c] \subseteq {route[c].scope}
    BY DEF PipelineInv, IdentitiesOK
  <2>2. ASSUME Leaving(c) PROVE owed'[c] \/ Leaving(c)'
    <3>1. c = rq.compartment /\ "route" \in q.demands /\ ~Past(rq, "session")
      BY <2>2 DEF Leaving
    <3>2. CASE q.answer = "none"
      BY <1>1, <3>1, <3>2 DEF Leaving, Past
    <3>3. CASE q.answer \in {"denied", "pending"}
      BY <1>1, <3>1, <3>3
    <3>. QED BY <3>1, <3>2, <3>3 DEF RequestOK, IsRequest
  <2>. QED BY <1>1, <2>1, <2>2
<1>4. q.answer = "none" /\ Past(q, "network") => route[q.compartment].scope = q.topic
  BY DEF PipelineInv, IdentitiesOK
<1>5. IdentitiesOK'
  BY <1>1, <1>2, <1>3, <1>4 DEF PipelineInv, IdentitiesOK, Past
<1>. QED BY <1>1, <1>5 DEF PipelineInv, RequestOK, IsRequest, AnswerAccounted, DemandsKept,
            VerdictsHold, IdentitiesTaken, BoundaryVerdict, Past, Signalled

\* A request at a gate, with all that is known of it.
LEMMA AtGate ==
  ASSUME PipelineInv, NEW gate, At(gate)
  PROVE  /\ RequestOK(rq) /\ IsRequest(rq) /\ rq.answer = "none" /\ rq.step \in 1 .. 13
<1>1. rq # Idle
  BY DEF At, Idle
<1>. QED BY <1>1 DEF PipelineInv, RequestOK, At, AnswerAccounted, IsRequest

\* A gate other than the network's that passes the request on.
LEMMA PassOn ==
  ASSUME PipelineInv, NEW gate, At(gate), rq.step <= 11, NEW q, RequestOK(q), Reply(q),
         Advances(rq, q), "route" \in q.demands => "route" \in rq.demands,
         gate # "network", UNCHANGED <<carried, route>>
  PROVE  PipelineInv'
<1>1. RequestOK(rq) /\ IsRequest(rq) /\ IsRequest(q) /\ rq.answer = "none"
      /\ rq.step \in 1 .. 13
  BY AtGate DEF RequestOK
<1>2. ~Past(q, "session")
  BY <1>1, Places DEF Advances
<1>3. Past(q, "network") => Past(rq, "network")
  <2>1. rq.step # (IF rq.endpoint = "mock" THEN 9 ELSE 8)
    BY <1>1 DEF At, Pipeline, IsRequest
  <2>. QED BY <1>1, <2>1, Places DEF Advances
<1>. QED BY <1>1, <1>2, <1>3, ReplyKeeps DEF Advances

\* Where a request can still be turned away.
LEMMA BeforeIdentities ==
  ASSUME PipelineInv, NEW gate, At(gate),
         gate \notin {"session", "execute"}, rq.endpoint = "real" => gate # "fingerprint"
  PROVE  rq.step <= 11 /\ (rq.endpoint = "real" => rq.step <= 10)
<1>1. /\ rq.step \in 1 .. 13 /\ rq.endpoint \in {"mock", "real"}
      /\ Pipeline[rq.endpoint][rq.step] = gate
  BY AtGate DEF IsRequest, At
<1>2. CASE rq.endpoint = "mock"
  BY <1>1, <1>2 DEF Pipeline
<1>3. CASE rq.endpoint = "real"
  BY <1>1, <1>3 DEF Pipeline
<1>. QED BY <1>1, <1>2, <1>3

\* A gate that sends the request for approval.
LEMMA SentForApproval ==
  ASSUME PipelineInv, NEW gate, At(gate),
         gate \notin {"session", "execute"}, rq.endpoint = "real" => gate # "fingerprint",
         NEW source \in Sources, Reply(Pend(rq, source)), UNCHANGED <<carried, route>>
  PROVE  PipelineInv'
<1>1. /\ RequestOK(rq) /\ IsRequest(rq) /\ rq.answer = "none"
      /\ rq.step <= 11 /\ (rq.endpoint = "real" => rq.step <= 10)
  BY AtGate, BeforeIdentities
<1>. QED BY <1>1, PendKeeps, ReplyKeeps

\* A gate that turns the request away.
LEMMA TurnedAway ==
  ASSUME PipelineInv, NEW gate, At(gate),
         gate \notin {"session", "execute"}, rq.endpoint = "real" => gate # "fingerprint",
         NEW source \in Sources, NEW action \in Blocking, Reply(Refuse(rq, source, action)),
         UNCHANGED <<carried, route>>
  PROVE  PipelineInv'
<1>1. /\ RequestOK(rq) /\ IsRequest(rq) /\ rq.answer = "none"
      /\ rq.step <= 11 /\ (rq.endpoint = "real" => rq.step <= 10)
  BY AtGate, BeforeIdentities
<1>. QED BY <1>1, RefusalKeeps, ReplyKeeps

\* A gate that passes the request on and takes no identity.
LEMMA Onward ==
  ASSUME PipelineInv, NEW gate, At(gate),
         gate \in {"graph", "agents", "trust", "privacy", "limits", "defence", "firewall",
                   "routing", "boundary"},
         NEW q, Advances(rq, q), Reply(q),
         q.risk = rq.risk \/ gate \in {"limits", "defence"},
         gate = "firewall" => Firewall(rq.agent, rq.compartment, rq.tool, rq.risk) = "allow",
         gate = "boundary" => BoundaryVerdict(rq) \in {"allow", "rotate_session"},
         "route" \in q.demands => "route" \in rq.demands,
         q.session = rq.session, q.fingerprint = rq.fingerprint,
         UNCHANGED <<carried, route>>
  PROVE  PipelineInv'
<1>1. RequestOK(rq) /\ IsRequest(rq) /\ rq.answer = "none" /\ rq.step \in 1 .. 13
      /\ IsRequest(q) /\ rq.endpoint \in {"mock", "real"} /\ q.step = rq.step + 1
      /\ q.endpoint = rq.endpoint
  BY AtGate DEF Advances, IsRequest
<1>2. /\ rq.step <= 11 /\ (rq.endpoint = "real" => rq.step < 11)
      /\ gate # "firewall" => rq.step # (IF rq.endpoint = "mock" THEN 8 ELSE 7)
      /\ gate # "boundary" => rq.step # (IF rq.endpoint = "mock" THEN 11 ELSE 10)
      /\ gate \in {"limits", "defence"} => rq.step < (IF rq.endpoint = "mock" THEN 8 ELSE 7)
  <2>1. rq.step \in 1 .. 13 /\ Pipeline[rq.endpoint][rq.step] = gate
    BY <1>1 DEF At
  <2>2. CASE rq.endpoint = "mock"
    BY <2>1, <2>2 DEF Pipeline
  <2>3. CASE rq.endpoint = "real"
    BY <2>1, <2>3 DEF Pipeline
  <2>. QED BY <1>1, <2>2, <2>3
<1>3. /\ Past(q, "firewall") => Past(rq, "firewall") \/ gate = "firewall"
      /\ Past(q, "boundary") => Past(rq, "boundary") \/ gate = "boundary"
      /\ gate \in {"limits", "defence"} => ~Past(q, "firewall") /\ ~Past(q, "boundary")
      /\ Past(rq, "network") => Past(q, "network")
  BY <1>1, <1>2, Places
<1>4. "route" \in q.demands => Past(q, "network")
  BY <1>1, <1>3 DEF RequestOK, DemandsKept
<1>5. gate = "firewall" => Firewall(q.agent, q.compartment, q.tool, q.risk) = "allow"
  BY DEF Advances
<1>6. gate = "boundary" => BoundaryVerdict(q) = BoundaryVerdict(rq)
  BY DEF Advances, BoundaryVerdict
<1>7. RequestOK(q)
  BY <1>1, <1>2, <1>3, <1>4, <1>5, <1>6, AdvanceKeeps
<1>. QED BY <1>1, <1>2, <1>7, PassOn

\* The gates that take a request as it is.
LEMMA PassesAsItIs ==
  ASSUME PipelineInv, NEW gate, At(gate), Reply(Pass(rq)), UNCHANGED <<carried, route>>,
         gate \in {"graph", "agents", "trust", "limits", "defence", "firewall", "routing",
                   "boundary"},
         gate = "firewall" => Firewall(rq.agent, rq.compartment, rq.tool, rq.risk) = "allow",
         gate = "boundary" => BoundaryVerdict(rq) \in {"allow", "rotate_session"}
  PROVE  PipelineInv'
<1>1. IsRequest(rq) /\ rq.answer = "none" /\ rq.step \in 1 .. 12
  BY AtGate, Arrivals
<1>. QED BY <1>1, PassFacts, Onward

\* A gate that lets the request pass with a new session.
LEMMA PassesWithRotation ==
  ASSUME PipelineInv, NEW gate \in {"graph", "boundary"}, At(gate), NEW source \in Sources,
         Reply(Pass(Demand(Emit(rq, source, "rotate_session"), gate))),
         UNCHANGED <<carried, route>>,
         gate = "boundary" => BoundaryVerdict(rq) \in {"allow", "rotate_session"}
  PROVE  PipelineInv'
<1>. DEFINE q == Pass(Demand(Emit(rq, source, "rotate_session"), gate))
<1>0. gate \in Reasons /\ gate # "route"
  BY DEF Reasons
<1>1. IsRequest(rq) /\ rq.answer = "none" /\ rq.step \in 1 .. 12
  BY AtGate, Arrivals
<1>2. /\ Advances(rq, q) /\ q.risk = rq.risk /\ q.demands = rq.demands \cup {gate}
      /\ q.session = rq.session /\ q.fingerprint = rq.fingerprint
  BY <1>0, <1>1, RotationAdvances
<1>3. Reply(q)
  OBVIOUS
<1>. HIDE DEF q
<1>. QED BY <1>0, <1>2, <1>3, Onward

-----------------------------------------------------------------------------
\* The gates, one by one.
LEMMA GraphGateKeeps == ASSUME PipelineInv, GraphGate PROVE PipelineInv'
<1>1. At("graph") /\ UNCHANGED engines /\ UNCHANGED <<carried, route>>
  BY DEF GraphGate, engines
<1>2. CASE Reply(Pass(rq))
  BY <1>1, <1>2, PassesAsItIs
<1>3. CASE Reply(Pass(Demand(Emit(rq, "capability_graph", "rotate_session"), "graph")))
  BY <1>1, <1>3, PassesWithRotation DEF Sources
<1>4. CASE Reply(Pend(rq, "capability_graph"))
  BY <1>1, <1>4, SentForApproval DEF Sources
<1>5. CASE Reply(Refuse(rq, "capability_graph", "deny"))
  BY <1>1, <1>5, TurnedAway DEF Sources, Blocking
<1>. QED BY <1>2, <1>3, <1>4, <1>5 DEF GraphGate

\* See TurnedAway and PassesAsItIs.
LEMMA AgentGateKeeps == ASSUME PipelineInv, AgentGate PROVE PipelineInv'
<1>1. At("agents") /\ UNCHANGED engines /\ UNCHANGED <<carried, route>>
  BY DEF AgentGate, engines
<1>2. CASE Reply(Pass(rq))
  BY <1>1, <1>2, PassesAsItIs
<1>3. CASE Reply(Pend(rq, "multi_agent"))
  BY <1>1, <1>3, SentForApproval DEF Sources
<1>4. CASE Reply(Refuse(rq, "multi_agent", "deny"))
  BY <1>1, <1>4, TurnedAway DEF Sources, Blocking
<1>5. CASE Reply(Refuse(rq, "multi_agent", "temporary_block"))
  BY <1>1, <1>5, TurnedAway DEF Sources, Blocking
<1>. QED BY <1>2, <1>3, <1>4, <1>5 DEF AgentGate

\* See TurnedAway and PassesAsItIs.
LEMMA TrustGateKeeps == ASSUME PipelineInv, TrustGate PROVE PipelineInv'
<1>1. At("trust") /\ UNCHANGED engines /\ UNCHANGED <<carried, route>>
  BY DEF TrustGate, engines
<1>2. CASE Reply(Pass(rq))
  BY <1>1, <1>2, PassesAsItIs
<1>3. CASE Reply(Pend(rq, "trust_reputation"))
  BY <1>1, <1>3, SentForApproval DEF Sources
<1>4. CASE Reply(Refuse(rq, "trust_reputation", "deny"))
  BY <1>1, <1>4, TurnedAway DEF Sources, Blocking
<1>. QED BY <1>2, <1>3, <1>4 DEF TrustGate

\* See TurnedAway.
LEMMA BehaviouralRefusalKeeps == ASSUME PipelineInv, BehaviouralRefusal PROVE PipelineInv'
BY TurnedAway DEF BehaviouralRefusal, Sources, Blocking, engines

\* An escalation never lowers the risk, and stays within the three levels.
LEMMA EscalationFacts ==
  ASSUME NEW risk \in Risk, NEW target \in Risk
  PROVE  EscalateRisk(risk, target) \in Risk
BY DEF EscalateRisk

\* Adaptive defence may raise the risk, at its two gates before the firewall's.
LEMMA DefendedKeeps ==
  ASSUME PipelineInv, NEW gate \in {"limits", "defence"}, At(gate), UNCHANGED engines,
         NEW target \in Risk, Defended(target)
  PROVE  PipelineInv'
<1>1. IsRequest(rq) /\ rq.answer = "none" /\ rq.step \in 1 .. 12
  BY AtGate, Arrivals
<1>2. CASE Reply(Pass(rq))
  BY <1>2, PassesAsItIs DEF engines
<1>3. CASE Reply(Pass([rq EXCEPT !.risk = EscalateRisk(rq.risk, target)]))
  <2>. DEFINE raised == EscalateRisk(rq.risk, target)
              r == [rq EXCEPT !.risk = raised]
              q == Pass(r)
  <2>1. raised \in Risk
    BY <1>1, EscalationFacts DEF IsRequest
  <2>. HIDE DEF raised
  <2>2. IsRequest(r)
    BY <1>1, <2>1 DEF IsRequest
  <2>3. /\ r.endpoint = rq.endpoint /\ r.agent = rq.agent /\ r.compartment = rq.compartment
        /\ r.topic = rq.topic /\ r.tool = rq.tool /\ r.answer = "none" /\ r.step = rq.step
        /\ r.approvals = rq.approvals /\ r.result = rq.result
    BY <1>1 DEF IsRequest
  <2>4. /\ r.demands = rq.demands /\ r.signals = rq.signals
        /\ r.session = rq.session /\ r.fingerprint = rq.fingerprint
    BY <1>1 DEF IsRequest
  <2>5. Reply(q)
    BY <1>3 DEF raised
  <2>. HIDE DEF r
  <2>6. /\ Advances(r, q) /\ q.demands = r.demands /\ q.signals = r.signals
        /\ q.session = r.session /\ q.fingerprint = r.fingerprint
    BY <1>1, <2>2, <2>3, PassFacts
  <2>. HIDE DEF q
  <2>7. Advances(rq, q)
    BY <2>3, <2>4, <2>6 DEF Advances
  <2>. QED BY <2>4, <2>5, <2>6, <2>7, Onward DEF engines
<1>4. CASE Reply(Pend(rq, "adaptive_defense"))
  BY <1>4, SentForApproval DEF Sources, engines
<1>5. ASSUME NEW action \in {"cooldown", "temporary_block"},
             Reply(Refuse(rq, "adaptive_defense", action))
      PROVE  PipelineInv'
  BY <1>5, TurnedAway DEF Sources, Blocking, engines
<1>. QED BY <1>2, <1>3, <1>4, <1>5 DEF Defended

\* See DefendedKeeps.
LEMMA LimiterGateKeeps == ASSUME PipelineInv, LimiterGate PROVE PipelineInv'
BY DefendedKeeps DEF LimiterGate, Risk

\* See DefendedKeeps.
LEMMA DefenceGateKeeps == ASSUME PipelineInv, DefenceGate PROVE PipelineInv'
BY DefendedKeeps DEF DefenceGate

\* The firewall's verdict is the one that holds at the end.
LEMMA FirewallGateKeeps == ASSUME PipelineInv, FirewallGate PROVE PipelineInv'
<1>. DEFINE verdict == Firewall(rq.agent, rq.compartment, rq.tool, rq.risk)
<1>1. At("firewall") /\ UNCHANGED engines /\ UNCHANGED <<carried, route>>
  BY DEF FirewallGate, engines
<1>2. CASE verdict = "allow" /\ Reply(Pass(rq))
  BY <1>1, <1>2, PassesAsItIs
<1>3. CASE Reply(Pend(rq, "capability_firewall"))
  BY <1>1, <1>3, SentForApproval DEF Sources
<1>4. CASE Reply(Refuse(rq, "capability_firewall", "deny"))
  BY <1>1, <1>4, TurnedAway DEF Sources, Blocking
<1>. QED BY <1>2, <1>3, <1>4 DEF FirewallGate

\* And so is the boundary's.
LEMMA BoundaryGateKeeps == ASSUME PipelineInv, BoundaryGate PROVE PipelineInv'
<1>1. At("boundary") /\ UNCHANGED engines /\ UNCHANGED <<carried, route>>
  BY DEF BoundaryGate, engines
<1>2. CASE BoundaryVerdict(rq) = "allow" /\ Reply(Pass(rq))
  BY <1>1, <1>2, PassesAsItIs
<1>3. CASE /\ BoundaryVerdict(rq) = "rotate_session"
           /\ Reply(Pass(Demand(Emit(rq, "privacy_boundary", "rotate_session"), "boundary")))
  BY <1>1, <1>3, PassesWithRotation DEF Sources
<1>4. CASE Reply(Pend(rq, "privacy_boundary"))
  BY <1>1, <1>4, SentForApproval DEF Sources
<1>5. CASE Reply(Refuse(rq, "privacy_boundary", "deny"))
  BY <1>1, <1>5, TurnedAway DEF Sources, Blocking
<1>. QED BY <1>2, <1>3, <1>4, <1>5 DEF BoundaryGate

\* A report adds its one signal, if any, and changes nothing else.
LEMMA ReportFacts ==
  ASSUME NEW r, IsRequest(r), NEW source \in Sources, NEW action \in Actions \cup Rotation
  PROVE  LET q == Report(r, source, action) IN
         /\ IsRequest(q) /\ Alike(r, q) /\ q.demands = r.demands
         /\ \A s \in ToSet(q.signals) :
              \/ s \in ToSet(r.signals)
              \/ s.source = source /\ s.action = action /\ action # "allow"
<1>1. CASE action = "allow"
  BY <1>1 DEF Report, Alike
<1>2. CASE action # "allow"
  <2>. DEFINE e == Emit(r, source, action)
              s == [source |-> source, action |-> action]
  <2>1. Report(r, source, action) = e
    BY <1>2 DEF Report
  <2>2. IsRequest(e) /\ ToSet(e.signals) = ToSet(r.signals) \cup {s}
    BY EmitFacts
  <2>3. Alike(r, e) /\ e.demands = r.demands
    BY EmitAlike
  <2>4. s.source = source /\ s.action = action
    OBVIOUS
  <2>. HIDE DEF e, s
  <2>. QED BY <1>2, <2>1, <2>2, <2>3, <2>4
<1>. QED BY <1>1, <1>2

\* A request after the privacy gate.
Reported(r, behaviour, fragment, temporal) ==
  Report(Report(Report(r, "behavioral_privacy", behaviour), "persona_isolation", fragment),
         "temporal_obfuscation", temporal)
Shielded(r, isolates, newFragment, critical) ==
  [Pass(r) EXCEPT !.demands = IF isolates THEN Pass(r).demands \cup {"persona"}
                              ELSE Pass(r).demands,
                  !.newFragment = newFragment, !.critical = critical]

\* What the privacy pipeline adds to a request lets it go on.
LEMMA PrivacyAdvances ==
  ASSUME NEW r, IsRequest(r), r.answer = "none", r.step \in 1 .. 12,
         NEW behaviour \in {"allow", "delay", "rotate_fragment"},
         NEW fragment \in {"allow", "rotate_fragment"},
         NEW temporal \in {"allow", "delay", "cooldown", "temporary_block"},
         NEW isolates \in BOOLEAN, NEW newFragment, NEW critical
  PROVE  LET q == Shielded(Reported(r, behaviour, fragment, temporal),
                           isolates, newFragment, critical)
         IN  /\ Advances(r, q) /\ q.risk = r.risk
             /\ q.session = r.session /\ q.fingerprint = r.fingerprint
             /\ "route" \in q.demands => "route" \in r.demands
<1>. DEFINE r1 == Report(r, "behavioral_privacy", behaviour)
            r2 == Report(r1, "persona_isolation", fragment)
            r3 == Report(r2, "temporal_obfuscation", temporal)
            p == Pass(r3)
            more == IF isolates THEN p.demands \cup {"persona"} ELSE p.demands
            q == [p EXCEPT !.demands = more, !.newFragment = newFragment, !.critical = critical]
<1>1. /\ behaviour \in Actions \cup Rotation /\ fragment \in Actions \cup Rotation
      /\ temporal \in Actions \cup Rotation
  BY DEF Actions, Rotation
<1>2. /\ IsRequest(r1) /\ Alike(r, r1) /\ r1.demands = r.demands
      /\ \A s \in ToSet(r1.signals) :
           \/ s \in ToSet(r.signals)
           \/ s.source = "behavioral_privacy" /\ s.action = behaviour /\ behaviour # "allow"
  <2>1. "behavioral_privacy" \in Sources
    BY DEF Sources
  <2>. QED BY ONLY <1>1, <2>1, IsRequest(r), ReportFacts
<1>. HIDE DEF r1
<1>3. /\ IsRequest(r2) /\ Alike(r1, r2) /\ r2.demands = r1.demands
      /\ \A s \in ToSet(r2.signals) :
           \/ s \in ToSet(r1.signals)
           \/ s.source = "persona_isolation" /\ s.action = fragment /\ fragment # "allow"
  <2>1. "persona_isolation" \in Sources
    BY DEF Sources
  <2>. QED BY ONLY <1>1, <1>2, <2>1, ReportFacts
<1>. HIDE DEF r2
<1>4. /\ IsRequest(r3) /\ Alike(r2, r3) /\ r3.demands = r2.demands
      /\ \A s \in ToSet(r3.signals) :
           \/ s \in ToSet(r2.signals)
           \/ s.source = "temporal_obfuscation" /\ s.action = temporal /\ temporal # "allow"
  <2>1. "temporal_obfuscation" \in Sources
    BY DEF Sources
  <2>. QED BY ONLY <1>1, <1>3, <2>1, ReportFacts
<1>. HIDE DEF r3
<1>5. Alike(r, r3) /\ r3.demands = r.demands
  BY <1>2, <1>3, <1>4 DEF Alike
<1>6. \A s \in ToSet(r3.signals) :
        \/ s \in ToSet(r.signals)
        \/ /\ GoesOn(s)
           /\ s.action \notin {"rotate_session", "rotate_identity"}
  BY <1>2, <1>3, <1>4 DEF GoesOn, Rotation
<1>7. /\ Advances(r3, p) /\ p.risk = r3.risk /\ p.demands = r3.demands
      /\ p.signals = r3.signals /\ p.session = r3.session /\ p.fingerprint = r3.fingerprint
  BY <1>4, <1>5, PassFacts DEF Alike
<1>. HIDE DEF p
<1>8. more \in SUBSET Reasons /\ p.demands \subseteq more
      /\ ("route" \in more => "route" \in p.demands)
  BY <1>7 DEF Advances, IsRequest, Reasons
<1>. HIDE DEF more
<1>9. IsRequest(q) /\ q.demands = more /\ q.signals = p.signals
  BY <1>7, <1>8 DEF Advances, IsRequest
<1>10. Alike(p, q)
  BY <1>7 DEF Advances, IsRequest, Alike
<1>. HIDE DEF q
<1>11. /\ q.risk = r.risk /\ q.session = r.session /\ q.fingerprint = r.fingerprint
       /\ "route" \in q.demands => "route" \in r.demands
  BY <1>5, <1>7, <1>8, <1>9, <1>10 DEF Alike
<1>12. q.step = r.step + 1 /\ q.answer = "none"
  BY <1>5, <1>7, <1>10 DEF Alike, Advances
<1>13. r.demands \subseteq q.demands
  BY <1>5, <1>7, <1>8, <1>9
<1>14. \A s \in ToSet(q.signals) :
         \/ s \in ToSet(r.signals)
         \/ GoesOn(s) /\ s.action \notin {"rotate_session", "rotate_identity"}
  BY <1>6, <1>7, <1>9
<1>15. Advances(r, q)
  BY <1>5, <1>7, <1>9, <1>10, <1>12, <1>13, <1>14 DEF Alike, Advances
<1>. QED BY <1>11, <1>15, Zenon DEF q, more, p, r3, r2, r1, Reported, Shielded

\* See PrivacyAdvances.
LEMMA PrivacyGateKeeps == ASSUME PipelineInv, PrivacyGate PROVE PipelineInv'
<1>1. /\ At("privacy") /\ UNCHANGED <<carried, route>> /\ IsRequest(rq) /\ rq.answer = "none"
      /\ rq.step \in 1 .. 12
  BY AtGate, Arrivals DEF PrivacyGate
<1>. DEFINE decision == PersonaDecision(persona[rq.agent][rq.topic], rq.topic)
            fragment == IF decision.newFragment THEN "rotate_fragment" ELSE "allow"
            isolates == decision.isolateSession
            newFragment == decision.newFragment
            Q(behaviour, temporal, critical) ==
              Shielded(Reported(rq, behaviour, fragment, temporal), isolates, newFragment, critical)
<1>2. PICK behaviour \in {"allow", "delay", "rotate_fragment"},
           temporal \in {"allow", "delay", "cooldown", "temporary_block"},
           critical \in BOOLEAN : Reply(Q(behaviour, temporal, critical \/ decision.escalate))
  BY Zenon DEF PrivacyGate, Reported, Shielded
<1>3. fragment \in {"allow", "rotate_fragment"} /\ isolates \in BOOLEAN
  BY DEF PersonaDecision
<1>. DEFINE raised == critical \/ decision.escalate
            q == Q(behaviour, temporal, raised)
<1>. HIDE DEF decision, fragment, isolates, newFragment, raised
<1>4. /\ Advances(rq, q) /\ q.risk = rq.risk
      /\ q.session = rq.session /\ q.fingerprint = rq.fingerprint
      /\ "route" \in q.demands => "route" \in rq.demands
  BY ONLY <1>1, <1>3, PrivacyAdvances
<1>5. Reply(q)
  BY <1>2 DEF raised
<1>. HIDE DEF q
<1>. QED BY <1>1, <1>4, <1>5, Onward

\* The fingerprint a request is given is a new one when its route is; it reaches
\* this gate after the network's on the real endpoint alone.
LEMMA FingerprintGateKeeps == ASSUME PipelineInv, FingerprintGate PROVE PipelineInv'
<1>. DEFINE rotates == FingerprintRotates(fingerprint[rq.agent], PersonaChanged, rq.topic)
            given == IF rotates THEN "rotated" ELSE "kept"
            p == Pass(rq)
            r == [p EXCEPT !.fingerprint = given]
            q == IF rotates THEN Emit(r, "transport_fingerprint", "rotate_fingerprint") ELSE r
<1>1. At("fingerprint") /\ Reply(q) /\ UNCHANGED <<carried, route>>
  BY DEF FingerprintGate
<1>2. /\ RequestOK(rq) /\ IsRequest(rq) /\ rq.answer = "none" /\ rq.endpoint \in {"mock", "real"}
      /\ rq.step \in 1 .. 13 /\ rq.step = IF rq.endpoint = "mock" THEN 5 ELSE 11
  BY <1>1, AtGate, Arrivals DEF IsRequest
<1>3. given \in {"kept", "rotated"} /\ ("route" \in rq.demands => given = "rotated")
  BY DEF FingerprintRotates, PersonaChanged
<1>4. /\ Advances(rq, p) /\ p.risk = rq.risk /\ p.demands = rq.demands
      /\ p.signals = rq.signals /\ p.session = rq.session
  BY <1>2, PassFacts
<1>. HIDE DEF p
<1>5. /\ Advances(rq, r) /\ r.risk = rq.risk /\ r.demands = rq.demands
      /\ r.session = rq.session /\ r.fingerprint = given /\ r.signals = rq.signals
  <2>. HIDE DEF given
  <2>1. IsRequest(r) /\ r.fingerprint = given
    BY <1>3, <1>4 DEF Advances, IsRequest
  <2>2. /\ r.endpoint = p.endpoint /\ r.agent = p.agent /\ r.compartment = p.compartment
        /\ r.topic = p.topic /\ r.tool = p.tool /\ r.answer = p.answer /\ r.step = p.step
        /\ r.approvals = p.approvals /\ r.result = p.result
    BY <1>4 DEF Advances, IsRequest
  <2>3. /\ r.risk = p.risk /\ r.demands = p.demands /\ r.signals = p.signals
        /\ r.session = p.session
    BY <1>4 DEF Advances, IsRequest
  <2>. HIDE DEF r
  <2>. QED BY <1>4, <2>1, <2>2, <2>3 DEF Advances
<1>6. /\ Advances(rq, q) /\ q.risk = rq.risk /\ q.demands = rq.demands
      /\ q.session = rq.session /\ q.fingerprint = given
  <2>. HIDE DEF r, given
  <2>1. CASE ~rotates
    BY <1>5, <2>1
  <2>2. CASE rotates
    <3>. DEFINE e == Emit(r, "transport_fingerprint", "rotate_fingerprint")
                s == [source |-> "transport_fingerprint", action |-> "rotate_fingerprint"]
    <3>1. "transport_fingerprint" \in Sources /\ "rotate_fingerprint" \in Actions \cup Rotation
      BY DEF Sources, Rotation
    <3>2. IsRequest(r)
      BY <1>5 DEF Advances
    <3>3. IsRequest(e) /\ ToSet(e.signals) = ToSet(r.signals) \cup {s}
      BY ONLY <3>1, <3>2, EmitFacts
    <3>4. Alike(r, e) /\ e.demands = r.demands
      BY ONLY <3>1, <3>2, EmitAlike
    <3>5. GoesOn(s) /\ s.action \notin {"rotate_session", "rotate_identity"}
      BY DEF GoesOn, Rotation
    <3>6. q = e
      BY <2>2
    <3>. HIDE DEF e, s, q
    <3>. QED BY <1>5, <3>3, <3>4, <3>5, <3>6 DEF Advances, Alike
  <2>. QED BY <2>1, <2>2
<1>. HIDE DEF q, r, given
<1>7. "route" \in q.demands => Past(q, "network")
  BY <1>2, <1>6, Places DEF RequestOK, DemandsKept, Advances
<1>8. /\ Past(q, "firewall") => Past(rq, "firewall")
      /\ Past(q, "boundary") => Past(rq, "boundary")
  BY <1>2, <1>6, Places DEF Advances
<1>9. RequestOK(q)
  BY <1>2, <1>3, <1>6, <1>7, <1>8, AdvanceKeeps
<1>. QED BY <1>1, <1>2, <1>6, <1>9, PassOn

\* The mock endpoint refuses an unrouted request without a signal.
LEMMA SilenceKeeps ==
  ASSUME NEW r, RequestOK(r), r.answer = "none", r.step \in 1 .. 11,
         r.endpoint = "mock", ~Routed(r.tool, r.risk)
  PROVE  LET q == [r EXCEPT !.answer = "denied"] IN
         /\ RequestOK(q) /\ q.answer = "denied" /\ q.compartment = r.compartment
         /\ q.topic = r.topic /\ q.demands = r.demands
<1>. DEFINE q == [r EXCEPT !.answer = "denied"]
<1>1. IsRequest(q) /\ q.answer = "denied"
  BY DEF RequestOK, IsRequest
<1>2. /\ q.signals = r.signals /\ q.step = r.step /\ q.endpoint = r.endpoint
      /\ q.compartment = r.compartment /\ q.agent = r.agent /\ q.topic = r.topic
      /\ q.tool = r.tool
  BY DEF RequestOK, IsRequest
<1>3. /\ q.risk = r.risk /\ q.demands = r.demands /\ q.session = r.session
      /\ q.fingerprint = r.fingerprint
  BY DEF RequestOK, IsRequest
<1>. HIDE DEF q
<1>4. AnswerAccounted(q)
  BY <1>1, <1>2, <1>3 DEF AnswerAccounted
<1>5. \A gate : Past(q, gate) <=> Past(r, gate)
  BY <1>2 DEF Past
<1>6. DemandsKept(q) /\ VerdictsHold(q)
  BY <1>2, <1>3, <1>5 DEF RequestOK, DemandsKept, VerdictsHold, BoundaryVerdict, Signalled
<1>7. ~Past(r, "session")
  BY Places DEF RequestOK
<1>8. IdentitiesTaken(q)
  BY <1>1, <1>2, <1>3, <1>5, <1>7 DEF RequestOK, IdentitiesTaken
<1>9. /\ RequestOK(q) /\ q.answer = "denied" /\ q.compartment = r.compartment
      /\ q.topic = r.topic /\ q.demands = r.demands
  BY <1>1, <1>2, <1>3, <1>4, <1>6, <1>8 DEF RequestOK
<1>. QED BY <1>9, Zenon DEF q

\* A request without a route is refused, one that runs with a new session leaves
\* a demand for it.
LEMMA RoutingGateKeeps == ASSUME PipelineInv, RoutingGate PROVE PipelineInv'
<1>1. At("routing") /\ UNCHANGED <<carried, route>>
  BY DEF RoutingGate, engines
<1>2. /\ RequestOK(rq) /\ IsRequest(rq) /\ rq.answer = "none" /\ rq.step \in 1 .. 11
      /\ rq.endpoint \in {"mock", "real"}
  BY <1>1, AtGate, Arrivals DEF IsRequest
<1>3. CASE ~Routed(rq.tool, rq.risk) /\ Reply(Unrouted(rq)) /\ rq.endpoint = "mock"
  <2>. DEFINE q == [rq EXCEPT !.answer = "denied"]
  <2>1. Reply(q)
    BY <1>3 DEF Unrouted
  <2>2. /\ RequestOK(q) /\ q.answer = "denied" /\ q.compartment = rq.compartment
        /\ q.topic = rq.topic /\ q.demands = rq.demands
    BY <1>2, <1>3, SilenceKeeps
  <2>. HIDE DEF q
  <2>. QED BY <1>1, <1>2, <2>1, <2>2, ReplyKeeps
<1>4. CASE Reply(Refuse(rq, "transport_policy", "deny"))
  BY <1>1, <1>4, TurnedAway DEF Sources, Blocking
<1>5. CASE Reply(Pass(rq))
  BY <1>1, <1>5, PassesAsItIs
<1>6. CASE Reply(Pass(Demand(rq, "routing")))
  <2>. DEFINE d == Demand(rq, "routing")
              q == Pass(d)
  <2>0. "routing" \in Reasons
    BY DEF Reasons
  <2>1. /\ IsRequest(d) /\ Alike(rq, d) /\ d.demands = rq.demands \cup {"routing"}
        /\ d.signals = rq.signals
    BY <1>2, <2>0, DemandFacts
  <2>. HIDE DEF d
  <2>2. /\ Advances(d, q) /\ q.risk = d.risk /\ q.demands = d.demands /\ q.signals = d.signals
        /\ q.session = d.session /\ q.fingerprint = d.fingerprint
    BY <1>2, <2>1, PassFacts DEF Alike
  <2>3. Reply(q)
    BY <1>6 DEF d
  <2>. HIDE DEF q
  <2>4. Advances(rq, q)
    BY <2>1, <2>2 DEF Advances, Alike
  <2>. QED BY <1>1, <2>1, <2>2, <2>3, <2>4, Onward DEF Alike
<1>. QED BY <1>2, <1>3, <1>4, <1>5, <1>6 DEF RoutingGate, Unrouted

\* The network's gate without a relay turns every request away.
LEMMA NoRelayKeeps == ASSUME PipelineInv, NetworkGate, ~deployment.relay PROVE PipelineInv'
<1>1. /\ At("network") /\ Reply(Refuse(rq, "network_isolation", "deny"))
      /\ UNCHANGED <<carried, route>>
  BY DEF NetworkGate
<1>. QED BY <1>1, TurnedAway DEF Sources, Blocking

\* What the relay's route is afterwards: the topic's, and the same one unless it
\* was rotated or there was none.
LEMMA RouteFacts ==
  ASSUME NEW old, old \in [scope: Topics \cup {NoTopic}, assigned: {old.assigned}],
         NEW topic \in Topics, NEW critical
  PROVE  LET new == NextRoute(old, topic, critical) IN
         /\ new \in [scope: Topics \cup {NoTopic}, assigned: {new.assigned}]
         /\ new.scope = topic
         /\ RouteRotates(old, topic, critical) \/ old.scope = NoTopic \/ new = old
<1>1. NoRoute.scope = NoTopic
  BY DEF NoRoute
<1>2. CASE old = NoRoute \/ ShouldRotate(old, topic, critical)
  <2>. DEFINE count == old.assigned + 1
              new == [scope |-> topic, assigned |-> count]
  <2>1. NextRoute(old, topic, critical) = new
    BY <1>2 DEF NextRoute
  <2>2. new \in [scope: Topics \cup {NoTopic}, assigned: {new.assigned}] /\ new.scope = topic
    OBVIOUS
  <2>3. RouteRotates(old, topic, critical) \/ old.scope = NoTopic
    BY <1>1, <1>2 DEF RouteRotates
  <2>. HIDE DEF new
  <2>. QED BY <2>1, <2>2, <2>3
<1>3. CASE ~(old = NoRoute \/ ShouldRotate(old, topic, critical))
  <2>1. NextRoute(old, topic, critical) = old /\ old.scope = topic
    BY <1>3 DEF NextRoute, ShouldRotate
  <2>. QED BY <2>1
<1>. QED BY <1>2, <1>3

\* The network's gate binds the compartment's route to the topic; when that takes
\* another route, the request will take another session.
LEMMA RelayKeeps == ASSUME PipelineInv, NetworkGate, deployment.relay PROVE PipelineInv'
<1>. DEFINE c == rq.compartment
            rotates == RouteRotates(route[c], rq.topic, rq.critical)
            new == NextRoute(route[c], rq.topic, rq.critical)
            turned == Pass(Demand(Emit(rq, "network_isolation", "rotate_identity"), "route"))
            q == IF rotates THEN turned ELSE Pass(rq)
<1>1. At("network") /\ Reply(q) /\ route' = [route EXCEPT ![c] = new] /\ carried' = carried
  BY DEF NetworkGate
<1>2. /\ RequestOK(rq) /\ IsRequest(rq) /\ rq.answer = "none" /\ rq.step \in 1 .. 11
      /\ rq.endpoint \in {"mock", "real"} /\ c \in Compartments /\ rq.topic \in Topics
      /\ rq.step = IF rq.endpoint = "mock" THEN 9 ELSE 8
  BY <1>1, AtGate, Arrivals DEF IsRequest
<1>3. /\ Advances(rq, q) /\ q.risk = rq.risk /\ q.session = rq.session
      /\ q.fingerprint = rq.fingerprint /\ (rotates => "route" \in q.demands)
  <2>. HIDE DEF rotates
  <2>1. /\ Advances(rq, Pass(rq)) /\ Pass(rq).risk = rq.risk
        /\ Pass(rq).session = rq.session /\ Pass(rq).fingerprint = rq.fingerprint
    BY <1>2, PassFacts
  <2>2. /\ Advances(rq, turned) /\ turned.risk = rq.risk /\ "route" \in turned.demands
        /\ turned.session = rq.session /\ turned.fingerprint = rq.fingerprint
    <3>1. "network_isolation" \in Sources /\ "route" \in Reasons
      BY DEF Sources, Reasons
    <3>2. rq.step \in 1 .. 12
      BY <1>2
    <3>. QED BY ONLY <1>2, <3>1, <3>2, RotationAdvances
  <2>. HIDE DEF turned
  <2>. QED BY <2>1, <2>2
<1>. HIDE DEF q, rotates
<1>4. /\ Past(q, "network") /\ ~Past(q, "session") /\ ~Past(rq, "network")
      /\ Past(q, "firewall") => Past(rq, "firewall")
      /\ Past(q, "boundary") => Past(rq, "boundary")
  BY <1>2, <1>3, Places DEF Advances
<1>5. RequestOK(q)
  BY <1>2, <1>3, <1>4, AdvanceKeeps
<1>6. /\ rq' = q /\ owed' \in [Compartments -> BOOLEAN]
      /\ \A d \in Compartments : owed[d] => owed'[d]
  BY <1>1, <1>2, ReplyOwes DEF PipelineInv
<1>7. /\ carried \in [Compartments -> SUBSET Topics] /\ DOMAIN route = Compartments
      /\ route[c] \in [scope: Topics \cup {NoTopic}, assigned: {route[c].assigned}]
  BY <1>2 DEF PipelineInv, IdentitiesOK
<1>8. /\ new \in [scope: Topics \cup {NoTopic}, assigned: {new.assigned}]
      /\ new.scope = rq.topic /\ (rotates \/ route[c].scope = NoTopic \/ new = route[c])
  BY <1>2, <1>7, RouteFacts DEF rotates
<1>. HIDE DEF new
<1>9. /\ DOMAIN route' = Compartments /\ route'[c] = new
      /\ \A d \in Compartments \ {c} : route'[d] = route[d]
  BY <1>1, <1>2, <1>7
<1>10. TopicsMeetOnlyAfterRefusal'
  BY <1>1, <1>6 DEF PipelineInv, IdentitiesOK, TopicsMeetOnlyAfterRefusal
<1>11. ASSUME NEW d \in Compartments
       PROVE  owed'[d] \/ Leaving(d)' \/ carried'[d] \subseteq {route'[d].scope}
  <2>1. ~Leaving(d)
    BY <1>2, <1>4 DEF RequestOK, DemandsKept, Leaving
  <2>2. owed[d] \/ carried[d] \subseteq {route[d].scope}
    BY <2>1 DEF PipelineInv, IdentitiesOK
  <2>3. CASE d # c
    BY <1>1, <1>6, <1>9, <2>2, <2>3
  <2>4. CASE d = c /\ rotates
    <3>1. Leaving(d)'
      BY <1>3, <1>4, <1>6, <2>4 DEF Leaving, Advances, Past
    <3>. QED BY <3>1
  <2>5. CASE d = c /\ route[c].scope = NoTopic
    <3>1. owed[d] \/ carried[d] = {}
      BY <1>7, <2>2, <2>5, EnginesAssumption DEF EnginesAssumption
    <3>. QED BY <1>1, <1>6, <3>1
  <2>6. CASE d = c /\ new = route[c]
    BY <1>1, <1>6, <1>9, <2>2, <2>6
  <2>. QED BY <1>8, <2>3, <2>4, <2>5, <2>6
<1>12. ASSUME NEW d \in Compartments
       PROVE  route'[d] \in [scope: Topics \cup {NoTopic}, assigned: {route'[d].assigned}]
  BY <1>8, <1>9 DEF PipelineInv, IdentitiesOK
<1>13. route'[q.compartment].scope = q.topic
  BY <1>3, <1>8, <1>9 DEF Advances
<1>14. IdentitiesOK'
  BY <1>1, <1>6, <1>7, <1>9, <1>10, <1>11, <1>12, <1>13 DEF IdentitiesOK
<1>. QED BY <1>5, <1>6, <1>14 DEF PipelineInv, RequestOK, IsRequest, AnswerAccounted,
            DemandsKept, VerdictsHold, IdentitiesTaken, BoundaryVerdict, Past, Signalled

\* A request gets its session from the gate before the last; no gate can turn it
\* away any more.
LEMMA SessionTaken ==
  ASSUME RequestOK(rq), rq.answer = "none", rq.step = 12,
         NEW session \in {"reused", "minted", "rotated"}, rq.demands # {} => session = "rotated"
  PROVE  LET q == [Pass(rq) EXCEPT !.session = session] IN
         /\ RequestOK(q) /\ q.answer = "none" /\ q.compartment = rq.compartment
         /\ q.topic = rq.topic /\ q.demands = rq.demands /\ q.step = 13
<1>. DEFINE p == Pass(rq)
            q == [p EXCEPT !.session = session]
<1>1. IsRequest(rq) /\ rq.step \in 1 .. 12
  BY DEF RequestOK
<1>2. /\ Advances(rq, p) /\ p.risk = rq.risk /\ p.demands = rq.demands
      /\ p.signals = rq.signals /\ p.fingerprint = rq.fingerprint
  BY <1>1, PassFacts
<1>. HIDE DEF p
<1>3. IsRequest(q) /\ q.session = session
  BY <1>2 DEF Advances, IsRequest
<1>4. /\ q.endpoint = p.endpoint /\ q.agent = p.agent /\ q.compartment = p.compartment
      /\ q.topic = p.topic /\ q.tool = p.tool /\ q.answer = p.answer /\ q.step = p.step
      /\ q.approvals = p.approvals /\ q.result = p.result
  BY <1>2 DEF Advances, IsRequest
<1>5. /\ q.risk = p.risk /\ q.demands = p.demands /\ q.signals = p.signals
      /\ q.fingerprint = p.fingerprint
  BY <1>2 DEF Advances, IsRequest
<1>. HIDE DEF q
<1>6. /\ q.endpoint = rq.endpoint /\ q.agent = rq.agent /\ q.compartment = rq.compartment
      /\ q.topic = rq.topic /\ q.tool = rq.tool /\ q.answer = "none" /\ q.step = 13
      /\ q.approvals = rq.approvals /\ q.result = rq.result
      /\ q.risk = rq.risk /\ q.demands = rq.demands /\ q.signals = rq.signals
      /\ q.fingerprint = rq.fingerprint
  BY <1>2, <1>4, <1>5 DEF Advances
<1>7. /\ Past(q, "firewall") <=> Past(rq, "firewall")
      /\ Past(q, "network") <=> Past(rq, "network")
      /\ Past(q, "boundary") <=> Past(rq, "boundary")
      /\ Past(q, "fingerprint") <=> Past(rq, "fingerprint")
      /\ Past(q, "session")
  BY <1>1, <1>3, <1>6, Places DEF IsRequest
<1>8. AnswerAccounted(q)
  BY <1>6 DEF RequestOK, AnswerAccounted
<1>9. DemandsKept(q)
  BY <1>6, <1>7 DEF RequestOK, DemandsKept, Signalled
<1>10. VerdictsHold(q)
  BY <1>6, <1>7 DEF RequestOK, VerdictsHold, BoundaryVerdict
<1>11. IdentitiesTaken(q)
  BY <1>3, <1>6, <1>7 DEF RequestOK, IdentitiesTaken
<1>12. /\ RequestOK(q) /\ q.answer = "none" /\ q.compartment = rq.compartment
       /\ q.topic = rq.topic /\ q.demands = rq.demands /\ q.step = 13
  BY <1>3, <1>6, <1>8, <1>9, <1>10, <1>11 DEF RequestOK
<1>. QED BY <1>12, Zenon DEF q, p

\* A reused session carries topics of the compartment's route only, or a rotation
\* is already owed; any other session carries the request's topic alone.
LEMMA SessionGateKeeps == ASSUME PipelineInv, SessionGate PROVE PipelineInv'
<1>. DEFINE c == rq.compartment
<1>1. PICK session \in {"reused", "minted", "rotated"} :
        /\ (session = "rotated") <=> (rq.demands # {})
        /\ rq' = [Pass(rq) EXCEPT !.session = session]
        /\ carried' = [carried EXCEPT ![c] =
                         {rq.topic} \cup (IF session = "reused" THEN carried[c] ELSE {})]
        /\ owed' = [owed EXCEPT ![c] = owed[c] /\ session = "reused"]
  BY Zenon DEF SessionGate
<1>2. At("session") /\ route' = route
  BY DEF SessionGate
<1>3. /\ RequestOK(rq) /\ IsRequest(rq) /\ rq.answer = "none" /\ rq.step = 12
      /\ c \in Compartments /\ rq.topic \in Topics
  BY <1>2, AtGate, Arrivals DEF IsRequest
<1>4. /\ RequestOK(rq') /\ rq'.answer = "none" /\ rq'.compartment = c
      /\ rq'.topic = rq.topic /\ rq'.step = 13
  BY <1>1, <1>3, SessionTaken
<1>5. Past(rq, "network") /\ ~Past(rq, "session") /\ Past(rq', "session")
  BY <1>3, <1>4, Places DEF RequestOK, IsRequest
<1>6. route[c].scope = rq.topic
  BY <1>3, <1>5 DEF PipelineInv, IdentitiesOK
<1>7. /\ carried \in [Compartments -> SUBSET Topics] /\ owed \in [Compartments -> BOOLEAN]
  BY DEF PipelineInv, IdentitiesOK
<1>. DEFINE topics == {rq.topic} \cup (IF session = "reused" THEN carried[c] ELSE {})
            owes == owed[c] /\ session = "reused"
<1>8. owes \in BOOLEAN /\ topics \in SUBSET Topics
  BY <1>3, <1>7
<1>9. owes \/ topics \subseteq {rq.topic}
  <2>1. CASE session = "reused"
    <3>1. ~Leaving(c)
      BY <1>1, <2>1 DEF Leaving
    <3>2. owed[c] \/ carried[c] \subseteq {rq.topic}
      BY <1>3, <1>6, <3>1 DEF PipelineInv, IdentitiesOK
    <3>. QED BY <2>1, <3>2
  <2>2. CASE session # "reused"
    BY <2>2
  <2>. QED BY <2>1, <2>2
<1>10. carried' = [carried EXCEPT ![c] = topics] /\ owed' = [owed EXCEPT ![c] = owes]
  BY <1>1, Zenon
<1>. HIDE DEF topics, owes
<1>11. /\ carried' \in [Compartments -> SUBSET Topics] /\ owed' \in [Compartments -> BOOLEAN]
       /\ carried'[c] = topics /\ owed'[c] = owes
       /\ \A d \in Compartments \ {c} : carried'[d] = carried[d] /\ owed'[d] = owed[d]
  BY <1>3, <1>7, <1>8, <1>10
<1>12. TopicsMeetOnlyAfterRefusal'
  <2>1. ASSUME NEW d \in Compartments, NEW s \in carried'[d], NEW t \in carried'[d], s # t
        PROVE  owed'[d]
    <3>1. CASE d = c
      BY <1>9, <1>11, <2>1, <3>1
    <3>2. CASE d # c
      BY <1>11, <2>1, <3>2 DEF PipelineInv, IdentitiesOK, TopicsMeetOnlyAfterRefusal
    <3>. QED BY <3>1, <3>2
  <2>. QED BY <2>1 DEF TopicsMeetOnlyAfterRefusal
<1>13. ASSUME NEW d \in Compartments
       PROVE  owed'[d] \/ Leaving(d)' \/ carried'[d] \subseteq {route'[d].scope}
  <2>1. CASE d = c
    BY <1>2, <1>6, <1>9, <1>11, <2>1
  <2>2. CASE d # c
    <3>1. ~Leaving(d)
      BY <2>2 DEF Leaving
    <3>2. owed[d] \/ carried[d] \subseteq {route[d].scope}
      BY <3>1 DEF PipelineInv, IdentitiesOK
    <3>. QED BY <1>2, <1>11, <2>2, <3>2
  <2>. QED BY <2>1, <2>2
<1>14. route'[rq'.compartment].scope = rq'.topic
  BY <1>2, <1>4, <1>6
<1>15. IdentitiesOK'
  BY <1>2, <1>11, <1>12, <1>13, <1>14 DEF PipelineInv, IdentitiesOK
<1>16. RequestOK(rq)'
  BY <1>4 DEF RequestOK, IsRequest, AnswerAccounted,
            DemandsKept, VerdictsHold, IdentitiesTaken, BoundaryVerdict, Past, Signalled
<1>. QED BY <1>15, <1>16 DEF PipelineInv

\* An execution has one of three results, whatever its transport.
LEMMA ResultFacts ==
  ASSUME NEW kind, NEW tool, NEW status \in ExecutionResults(kind, tool)
  PROVE  status \in {"success", "failed", "blocked"}
BY DEF ExecutionResults, AdapterResults

\* The execution answers the request; a blocked one leaves the sandbox's signal.
LEMMA ExecuteKeeps == ASSUME PipelineInv, Execute PROVE PipelineInv'
<1>. DEFINE R(status) == [rq EXCEPT !.answer = "allowed", !.result = status]
            Q(status) == IF status = "blocked" THEN Emit(R(status), "sandbox", "deny")
                         ELSE R(status)
<1>1. At("execute") /\ UNCHANGED <<carried, route>>
      /\ \E kind : \E status \in ExecutionResults(kind, rq.tool) : Reply(Q(status))
  BY Zenon DEF Execute, engines
<1>2. PICK status \in {"success", "failed", "blocked"} : Reply(Q(status))
  BY <1>1, ResultFacts
<1>3. RequestOK(rq) /\ IsRequest(rq) /\ rq.answer = "none" /\ rq.step = 13
  BY <1>1, AtGate, Arrivals
<1>. DEFINE r == R(status)
            q == Q(status)
            s == [source |-> "sandbox", action |-> "deny"]
<1>4. IsRequest(r) /\ r.answer = "allowed" /\ r.result = status
  BY <1>3 DEF IsRequest
<1>5. /\ r.endpoint = rq.endpoint /\ r.agent = rq.agent /\ r.compartment = rq.compartment
      /\ r.topic = rq.topic /\ r.tool = rq.tool /\ r.step = rq.step
      /\ r.approvals = rq.approvals
  BY <1>3 DEF IsRequest
<1>6. /\ r.risk = rq.risk /\ r.demands = rq.demands /\ r.signals = rq.signals
      /\ r.session = rq.session /\ r.fingerprint = rq.fingerprint
  BY <1>3 DEF IsRequest
<1>. HIDE DEF R
<1>7. /\ IsRequest(q) /\ Alike(r, q) /\ q.demands = r.demands
      /\ ToSet(q.signals) = ToSet(r.signals) \cup (IF status = "blocked" THEN {s} ELSE {})
  <2>1. CASE status = "blocked"
    <3>1. "sandbox" \in Sources /\ "deny" \in Actions \cup Rotation
      BY DEF Sources, Actions
    <3>. DEFINE e == Emit(r, "sandbox", "deny")
    <3>2. IsRequest(e) /\ ToSet(e.signals) = ToSet(r.signals) \cup {s}
      BY ONLY <1>4, <3>1, EmitFacts
    <3>3. Alike(r, e) /\ e.demands = r.demands
      BY ONLY <1>4, <3>1, EmitAlike
    <3>4. q = e
      BY <2>1
    <3>. HIDE DEF e, q
    <3>. QED BY <2>1, <3>2, <3>3, <3>4
  <2>2. CASE status # "blocked"
    <3>1. q = r
      BY <2>2
    <3>. HIDE DEF q
    <3>. QED BY <1>4, <2>2, <3>1 DEF Alike
  <2>. QED BY <2>1, <2>2
<1>8. Reply(q)
  BY <1>2
<1>9. s.source = "sandbox" /\ s.action = "deny"
  OBVIOUS
<1>. HIDE DEF Q, s
<1>10. /\ q.endpoint = rq.endpoint /\ q.agent = rq.agent /\ q.compartment = rq.compartment
       /\ q.topic = rq.topic /\ q.tool = rq.tool /\ q.step = 13 /\ q.approvals = rq.approvals
       /\ q.answer = "allowed" /\ q.result = status
       /\ q.risk = rq.risk /\ q.demands = rq.demands
       /\ q.session = rq.session /\ q.fingerprint = rq.fingerprint
       /\ ToSet(q.signals) = ToSet(rq.signals) \cup (IF status = "blocked" THEN {s} ELSE {})
  BY <1>3, <1>4, <1>5, <1>6, <1>7 DEF Alike
<1>11. \A gate : Past(q, gate) <=> Past(rq, gate)
  BY <1>3, <1>10 DEF Past
<1>12. AnswerAccounted(q)
  <2>1. rq.approvals = 0 /\ \A x \in ToSet(rq.signals) : GoesOn(x)
    BY <1>3 DEF RequestOK, AnswerAccounted
  <2>2. \A x \in ToSet(rq.signals) : x.action # "deny"
    BY <2>1 DEF GoesOn, Rotation
  <2>3. Signalled(q, "deny") <=> status = "blocked"
    BY <1>9, <1>10, <2>2 DEF Signalled
  <2>. QED BY <1>9, <1>10, <2>1, <2>3 DEF AnswerAccounted
<1>13. DemandsKept(q)
  BY <1>3, <1>9, <1>10, <1>11 DEF RequestOK, DemandsKept, Signalled
<1>14. VerdictsHold(q)
  BY <1>3, <1>10, <1>11 DEF RequestOK, VerdictsHold, BoundaryVerdict
<1>15. IdentitiesTaken(q)
  BY <1>3, <1>10, <1>11 DEF RequestOK, IdentitiesTaken
<1>16. RequestOK(q) /\ Past(rq, "session")
  BY <1>3, <1>7, <1>12, <1>13, <1>14, <1>15, Places DEF RequestOK
<1>. HIDE DEF q
<1>. QED BY <1>1, <1>3, <1>8, <1>10, <1>16, ReplyKeeps

\* A request that has just arrived, or was refused on arrival.
LEMMA ArrivalOK ==
  ASSUME NEW endpoint \in {"mock", "real"}, NEW agent \in Agents,
         NEW compartment \in Compartments, NEW topic \in Topics, NEW cap \in Capabilities,
         NEW r,
         \/ r = Arrived(endpoint, agent, compartment, topic, cap)
         \/ r = [Arrived(endpoint, agent, compartment, topic, cap)
                   EXCEPT !.answer = "denied", !.step = 0]
  PROVE  RequestOK(r) /\ r.demands = {} /\ ~Past(r, "network")
<1>. DEFINE nothing == <<>>
            none == {}
            tool == cap[1]
            risk == cap[2]
            a == [endpoint |-> endpoint, agent |-> agent, compartment |-> compartment,
                  topic |-> topic, tool |-> tool, risk |-> risk,
                  answer |-> "none", step |-> 1, signals |-> nothing, demands |-> none,
                  newFragment |-> FALSE, critical |-> FALSE,
                  session |-> "none", fingerprint |-> "none", approvals |-> 0, result |-> "none"]
            b == [a EXCEPT !.answer = "denied", !.step = 0]
<1>1. tool \in Tools /\ risk \in Risk
  BY PipelineAssumption DEF PipelineAssumption, Tools
<1>2. nothing \in Seq(Signal) /\ ToSet(nothing) = {}
  BY DEF ToSet
<1>3. r = a \/ r = b
  BY Zenon DEF Arrived
<1>. HIDE DEF nothing, tool, risk
<1>4. /\ IsRequest(a)
      /\ a.signals = nothing /\ a.demands = {} /\ a.session = "none" /\ a.fingerprint = "none"
      /\ a.approvals = 0 /\ a.result = "none" /\ a.answer = "none" /\ a.step = 1
  <2>1. none \in SUBSET Reasons
    OBVIOUS
  <2>2. /\ a.signals = nothing /\ a.demands = {} /\ a.session = "none" /\ a.fingerprint = "none"
        /\ a.approvals = 0 /\ a.result = "none" /\ a.answer = "none" /\ a.step = 1
    OBVIOUS
  <2>. HIDE DEF none
  <2>. QED BY <1>1, <1>2, <2>1, <2>2 DEF IsRequest
<1>. HIDE DEF a
<1>5. /\ IsRequest(b)
      /\ b.signals = nothing /\ b.demands = {} /\ b.session = "none" /\ b.fingerprint = "none"
      /\ b.approvals = 0 /\ b.result = "none" /\ b.answer = "denied" /\ b.step = 0
  <2>1. IsRequest(b) /\ b.answer = "denied" /\ b.step = 0
    <3>. DEFINE d == [a EXCEPT !.answer = "denied"]
    <3>1. IsRequest(d) /\ d.answer = "denied"
      BY <1>4 DEF IsRequest
    <3>2. b = [d EXCEPT !.step = 0]
      BY Zenon
    <3>. HIDE DEF b, d
    <3>3. IsRequest([d EXCEPT !.step = 0]) /\ [d EXCEPT !.step = 0].answer = "denied"
          /\ [d EXCEPT !.step = 0].step = 0
      BY <3>1 DEF IsRequest
    <3>. QED BY <3>2, <3>3
  <2>2. /\ b.signals = a.signals /\ b.demands = a.demands /\ b.session = a.session
        /\ b.fingerprint = a.fingerprint /\ b.approvals = a.approvals /\ b.result = a.result
    BY <1>4 DEF IsRequest
  <2>. QED BY <1>4, <2>1, <2>2
<1>. HIDE DEF b
<1>6. /\ IsRequest(r)
      /\ r.signals = nothing /\ r.demands = {} /\ r.session = "none" /\ r.fingerprint = "none"
      /\ r.approvals = 0 /\ r.result = "none"
      /\ (r.answer = "none" /\ r.step = 1) \/ (r.answer = "denied" /\ r.step = 0)
  BY <1>3, <1>4, <1>5
<1>7. /\ ~Past(r, "firewall") /\ ~Past(r, "network") /\ ~Past(r, "boundary")
      /\ ~Past(r, "fingerprint") /\ ~Past(r, "session")
  BY <1>6, Places DEF IsRequest
<1>8. \A action : ~Signalled(r, action)
  BY <1>2, <1>6 DEF Signalled
<1>9. AnswerAccounted(r)
  BY <1>2, <1>6 DEF AnswerAccounted
<1>10. DemandsKept(r) /\ VerdictsHold(r) /\ IdentitiesTaken(r)
  BY <1>6, <1>7, <1>8 DEF DemandsKept, VerdictsHold, IdentitiesTaken
<1>. QED BY <1>6, <1>7, <1>9, <1>10 DEF RequestOK

\* A new request leaves the identities to what the last one made of them.
LEMMA ArrivalKeeps ==
  ASSUME PipelineInv, rq.answer # "none", UNCHANGED <<carried, route, owed>>,
         RequestOK(rq'), rq'.demands = {}, ~Past(rq', "network")
  PROVE  PipelineInv'
<1>1. \A c \in Compartments : ~Leaving(c)
  BY DEF Leaving
<1>2. TopicsMeetOnlyAfterRefusal'
  BY DEF PipelineInv, IdentitiesOK, TopicsMeetOnlyAfterRefusal
<1>3. (rq.answer = "none" /\ Past(rq, "network") => route[rq.compartment].scope = rq.topic)'
  BY DEF Past
<1>4. IdentitiesOK'
  BY <1>1, <1>2, <1>3 DEF PipelineInv, IdentitiesOK
<1>5. RequestOK(rq)'
  BY DEF RequestOK, IsRequest, AnswerAccounted,
         DemandsKept, VerdictsHold, IdentitiesTaken, BoundaryVerdict, Past, Signalled
<1>. QED BY <1>4, <1>5 DEF PipelineInv

-----------------------------------------------------------------------------
\* The invariant holds before the first request.
LEMMA PipelineInitial == Init => PipelineInv
<1>. SUFFICES ASSUME Init PROVE PipelineInv
  OBVIOUS
<1>1. rq = Idle /\ rq.answer = "idle"
  BY DEF Init, Idle
<1>2. /\ carried = [c \in Compartments |-> {}] /\ owed = [c \in Compartments |-> FALSE]
      /\ DOMAIN route = Compartments /\ \A c \in Compartments : route[c] = NoRoute
  BY DEF Init
<1>3. TopicsMeetOnlyAfterRefusal
  BY <1>2 DEF TopicsMeetOnlyAfterRefusal
<1>4. \A c \in Compartments :
        route[c] \in [scope: Topics \cup {NoTopic}, assigned: {route[c].assigned}]
  BY <1>2 DEF NoRoute
<1>. QED BY <1>1, <1>2, <1>3, <1>4 DEF PipelineInv, IdentitiesOK

\* Every action of the two handlers keeps it.
LEMMA PipelineStep == PipelineInv /\ [Next]_vars => PipelineInv'
<1>. SUFFICES ASSUME PipelineInv, [Next]_vars PROVE PipelineInv'
  OBVIOUS
<1>1. ASSUME NEW endpoint \in {"mock", "real"}, NEW a \in Agents, NEW c \in Compartments,
             NEW t \in Topics, NEW cap \in Capabilities, Start(endpoint, a, c, t, cap)
      PROVE  PipelineInv'
  <2>1. /\ rq.answer # "none" /\ rq' = Arrived(endpoint, a, c, t, cap)
        /\ UNCHANGED <<carried, route, owed>>
    BY <1>1 DEF Start
  <2>. QED BY <2>1, ArrivalOK, ArrivalKeeps
<1>2. ASSUME NEW a \in Agents, NEW c \in Compartments, NEW t \in Topics,
             NEW cap \in Capabilities, StartDisabled(a, c, t, cap)
      PROVE  PipelineInv'
  <2>1. /\ rq.answer # "none" /\ UNCHANGED <<carried, route, owed>>
        /\ rq' = [Arrived("mock", a, c, t, cap) EXCEPT !.answer = "denied", !.step = 0]
    BY <1>2 DEF StartDisabled
  <2>. QED BY <2>1, ArrivalOK, ArrivalKeeps
<1>3. CASE NetworkGate
  BY <1>3, NoRelayKeeps, RelayKeeps
<1>4. CASE UNCHANGED vars
  <2>1. UNCHANGED <<carried, route, owed, rq>>
    BY <1>4 DEF vars, engines
  <2>. QED BY <2>1 DEF PipelineInv, IdentitiesOK, TopicsMeetOnlyAfterRefusal, Leaving, RequestOK,
              IsRequest, AnswerAccounted, DemandsKept, VerdictsHold, IdentitiesTaken,
              BoundaryVerdict, Past, Signalled
<1>. QED
  BY <1>1, <1>2, <1>3, <1>4, GraphGateKeeps, AgentGateKeeps, TrustGateKeeps,
     BehaviouralRefusalKeeps, PrivacyGateKeeps, FingerprintGateKeeps, LimiterGateKeeps,
     DefenceGateKeeps, FirewallGateKeeps, RoutingGateKeeps, BoundaryGateKeeps,
     SessionGateKeeps, ExecuteKeeps
  DEF Next

\* All of it, in every state of every run of the two handlers.
THEOREM PipelineInvariance == Spec => []PipelineInv
BY PipelineInitial, PipelineStep, PTL DEF Spec

\* A session carries research on two topics only after a refusal has used up the
\* rotation that would have separated them.
THEOREM PipelineTopics == Spec => []TopicsMeetOnlyAfterRefusal
<1>1. PipelineInv => TopicsMeetOnlyAfterRefusal
  BY DEF PipelineInv, IdentitiesOK
<1>. QED BY <1>1, PipelineInvariance, PTL

\* The three properties of an answered request, in every state.
LEMMA AnswerFacts ==
  PipelineInv => CompositeExplainsAnswer /\ IdentityMovesForExecution /\ JudgedAtFinalRisk
<1>. SUFFICES ASSUME PipelineInv
              PROVE  CompositeExplainsAnswer /\ IdentityMovesForExecution /\ JudgedAtFinalRisk
  OBVIOUS
<1>1. CASE rq = Idle
  <2>1. ~Decided
    BY <1>1 DEF Decided, Idle
  <2>. QED BY <2>1 DEF CompositeExplainsAnswer, IdentityMovesForExecution, JudgedAtFinalRisk
<1>2. CASE RequestOK(rq)
  BY <1>2, RequestFacts
<1>. QED BY <1>1, <1>2 DEF PipelineInv

\* The composite policy of every answer accounts for it.
THEOREM PipelineAnswers == Spec => []CompositeExplainsAnswer
BY PipelineInvariance, AnswerFacts, PTL

\* Identities are taken by executions, and executions take every one asked for.
THEOREM PipelineIdentities == Spec => []IdentityMovesForExecution
BY PipelineInvariance, AnswerFacts, PTL

\* What executes was judged at the risk it executes at.
THEOREM PipelineJudged == Spec => []JudgedAtFinalRisk
BY PipelineInvariance, AnswerFacts, PTL
==============================================================================
