-------------------------------- MODULE Gateway --------------------------------
(***************************************************************************)
(* The capability gateway of apps/grl-server/src/local-api.ts: the handlers*)
(* of POST /v1/capabilities/execute-mock and /execute as interleaved       *)
(* requests.  JavaScript runs a handler without interruption between its   *)
(* awaits, so an action is the code from one await to the next: everything *)
(* up to the execution delay, the start of the transport call, and         *)
(* everything after the transport has answered.                            *)
(*                                                                         *)
(* The gateway shares one session manager and one capability graph among   *)
(* all requests; the server registers a single compartment.  The gates     *)
(* between the graph and the session (agents, trust, rate limits, defence, *)
(* firewall, routing, privacy) appear here only through their outcome.     *)
(***************************************************************************)
EXTENDS Integers, Sequences, FiniteSets

CONSTANTS
  Research,      \* the one compartment the server bootstraps
  Requests,      \* the requests clients send, each once
  MaxInFlight,   \* how many requests the clients let overlap
  Capabilities,  \* the [tool, risk] pairs clients ask for
  Escalations,   \* the risk levels adaptive defence raises a request to
  Reloadable,    \* bound: whether config reloads are part of the run
  GraphRules,    \* the transition rules of the active config
  GraphPolicy,   \* its isolation policy for the compartment
  ReusePolicy, Ttl, MaxRequests, MaxSessions, MaxUses, MaxTime

VARIABLES
  registered, sessions, handed, now,  \* the session manager and the clock
  path,     \* the executed path of the compartment: [tool, risk] entries
  request,  \* the handler of each request
  engine,   \* realSearXngEngine is not null
  up        \* the server process is running

gatewayVars == <<path, request, engine, up>>
vars == <<registered, sessions, handed, now, path, request, engine, up>>

Sessions == INSTANCE SessionManager WITH Compartments <- {Research}

Tools == {capability.tool : capability \in Capabilities}

\* The graph's decision over the executed path; refusals leave the path alone.
Graph == INSTANCE CapabilityGraph WITH
  Compartments <- {Research},
  CandidateRules <- {}, CandidatePolicies <- [c \in {Research} |-> {GraphPolicy}],
  MaxNodes <- 0,
  rules <- GraphRules,
  policies <- [c \in {Research} |-> GraphPolicy],
  paths <- [c \in {Research} |-> [k \in DOMAIN path |-> k]],
  judged <- [c \in {Research} |-> << >>],  \* a history nothing here asks for
  nodes <- path,
  edges <- {}

ASSUME GatewayAssumption ==
  /\ MaxInFlight \in Nat \ {0}
  /\ \A capability \in Capabilities : capability.risk \in Graph!RiskLevel
  /\ Escalations \subseteq Graph!RiskLevel
  /\ GraphPolicy \in Graph!Policy
  /\ ReusePolicy \in [{Research} -> {"reuse_active", "always_rotate"}]
  /\ Ttl \in [{Research} -> Nat \ {0}]
  /\ MaxRequests \in [{Research} -> Nat \ {0}]
  /\ MaxSessions \in Nat /\ MaxUses \in Nat /\ MaxTime \in Nat

Refused == {"denied", "pending"}
Concluded == {"succeeded", "failed", "blocked"}
Awaiting == {"delaying", "executing"}
Phase == {"idle", "lost"} \cup Awaiting \cup Refused \cup Concluded
NoSession == 0

\* `real`: the request came through /execute and needs the real engine.
Handler == [phase: Phase, session: Nat, real: BOOLEAN,
            tool: Tools \cup {"none"}, risk: {"low", "medium", "high", "none"}]
Idle == [phase |-> "idle", session |-> NoSession, real |-> FALSE, tool |-> "none", risk |-> "none"]

InFlight == {r \in Requests : request[r].phase \in Awaiting}

\* The handler responds; of its locals only the session matters afterwards.
Answer(r, phase) ==
  request' = [request EXCEPT ![r] =
                [Idle EXCEPT !.phase = phase, !.session = request[r].session]]

-----------------------------------------------------------------------------
Init ==
  /\ registered = {Research}
  /\ sessions = << >>
  /\ handed = NoSession
  /\ now = 0
  /\ path = << >>
  /\ request = [r \in Requests |-> Idle]
  /\ engine = TRUE
  /\ up = TRUE

\* The graph or a gate behind it refuses: the response is denied or pending.
Refuse(r, tool, risk) ==
  LET action == Graph!EvaluatePath(Research, tool, risk) IN
  /\ up /\ request[r].phase = "idle"
  /\ \E answer \in Refused :
       /\ action = "block" => answer = "denied"
       /\ action = "require_approval" => answer = "pending"
       /\ Answer(r, answer)
  /\ UNCHANGED <<registered, sessions, handed, now, path, engine, up>>

\* Every gate lets the request pass: pick the session, audit execution_started
\* and reach the first await.  `rotate`: routing, privacy or relay demand it.
\* `effective`: the risk left after adaptive defence, which runs behind the graph
\* gate and may raise it in place.
Start(r, tool, risk, effective, real, rotate) ==
  LET action == Graph!EvaluatePath(Research, tool, risk)
      mustRotate == rotate \/ action = "force_rotation" IN
  /\ up /\ request[r].phase = "idle"
  /\ Cardinality(InFlight) < MaxInFlight
  /\ Graph!Admits(action)
  /\ effective = risk \/ Graph!Rank[effective] > Graph!Rank[risk]
  /\ real => engine
  /\ IF mustRotate THEN Sessions!RotateSession(Research)
                   ELSE Sessions!GetOrCreateSession(Research)
  /\ request' = [request EXCEPT ![r] =
       [phase |-> "delaying", session |-> handed', real |-> real,
        tool |-> tool, risk |-> effective]]
  /\ UNCHANGED <<path, engine, up>>

\* An exception after an await rejects the handler's promise.  Nothing catches
\* it: the request is never answered and Node ends the process, which loses
\* every other request in flight too.
Throw ==
  /\ request' = [r \in Requests |->
       IF r \in InFlight THEN [request[r] EXCEPT !.phase = "lost"] ELSE request[r]]
  /\ up' = FALSE

\* The delay is over: take the engine and call the transport.
Execute(r) ==
  /\ up /\ request[r].phase = "delaying"
  /\ request[r].real => engine
  /\ request' = [request EXCEPT ![r].phase = "executing"]
  /\ UNCHANGED <<registered, sessions, handed, now, path, engine, up>>

\* Faulty variant of ExecuteWithoutEngine: mock requests need the engine too.
ExecuteAnyWithoutEngine(r) ==
  /\ up /\ request[r].phase = "delaying"
  /\ ~engine
  /\ Throw
  /\ UNCHANGED <<registered, sessions, handed, now, path, engine>>

\* The delay is over but the engine has gone: property access on null.
ExecuteWithoutEngine(r) ==
  /\ up /\ request[r].phase = "delaying"
  /\ request[r].real /\ ~engine
  /\ Throw
  /\ UNCHANGED <<registered, sessions, handed, now, path, engine>>

\* The sandbox blocked the call or no adapter ran: no use is recorded.
FinishBlocked(r) ==
  /\ up /\ request[r].phase = "executing"
  /\ Answer(r, "blocked")
  /\ UNCHANGED <<registered, sessions, handed, now, path, engine, up>>

\* Faulty variant of Finish: the use is charged to the newest session.
FinishOnNewest(r, result) ==
  /\ up /\ request[r].phase = "executing"
  /\ Sessions!RecordUse(Len(sessions))
  /\ Answer(r, result)
  /\ path' = path
  /\ UNCHANGED <<engine, up>>

\* The transport was invoked: record the use, audit the result, extend the
\* path when it succeeded, respond.
Finish(r, result) ==
  /\ up /\ request[r].phase = "executing"
  /\ Sessions!RecordUse(request[r].session)
  /\ Answer(r, result)
  /\ path' = IF result = "succeeded"
               THEN Append(path, [tool |-> request[r].tool, risk |-> request[r].risk])
               ELSE path
  /\ UNCHANGED <<engine, up>>

\* The transport was invoked but the session is no longer active: recordUse
\* throws before the result is audited.
FinishAfterSessionEnd(r) ==
  /\ up /\ request[r].phase = "executing"
  /\ Sessions!RecordUseRefused(request[r].session)
  /\ Throw
  /\ UNCHANGED <<path, engine>>

\* GET /v1/sessions expires old sessions lazily.
ListSessions ==
  /\ up
  /\ Sessions!ExpireOldSessions
  /\ UNCHANGED <<path, request, engine, up>>

\* A config reload rebuilds the graph engine, empty, and the SearXNG engine: a
\* valid config enables or disables it, a bad one keeps the previous engine.  A
\* profile switch keeps it.
Reload ==
  /\ up /\ Reloadable
  /\ path' = << >>
  /\ engine' \in BOOLEAN
  /\ UNCHANGED <<registered, sessions, handed, now, request, up>>

\* Nothing is persisted: a restarted process knows no session and no path.
Restart ==
  /\ ~up
  /\ sessions' = << >> /\ handed' = NoSession /\ path' = << >>
  /\ request' = [r \in Requests |-> [request[r] EXCEPT !.session = NoSession]]
  /\ engine' = TRUE /\ up' = TRUE
  /\ UNCHANGED <<registered, now>>

Tick ==
  /\ Sessions!Tick
  /\ UNCHANGED <<path, request, engine, up>>

Next ==
  \/ \E r \in Requests :
       \/ \E capability \in Capabilities :
            \/ Refuse(r, capability.tool, capability.risk)
            \/ \E real, rotate \in BOOLEAN :
               \E effective \in {capability.risk} \cup Escalations :
                 Start(r, capability.tool, capability.risk, effective, real, rotate)
       \/ Execute(r)
       \/ ExecuteWithoutEngine(r)
       \/ FinishBlocked(r)
       \/ \E result \in {"succeeded", "failed"} : Finish(r, result)
       \/ FinishAfterSessionEnd(r)
  \/ ListSessions
  \/ Reload
  \/ Restart
  \/ Tick

Spec == Init /\ [][Next]_vars

\* The delay is capped.  The adapter's timer ends a call that has no response yet;
\* it does not cover the body, whose end is SearXNG's doing and assumed here.  So a
\* handler that awaits is eventually resumed.
Resume(r) ==
  \/ Execute(r) \/ ExecuteWithoutEngine(r)
  \/ FinishBlocked(r)
  \/ \E result \in {"succeeded", "failed"} : Finish(r, result)
  \/ FinishAfterSessionEnd(r)

FairSpec == Spec /\ \A r \in Requests : WF_vars(Resume(r))

-----------------------------------------------------------------------------
\* Every variable holds a value of its type.
TypeOK ==
  /\ Sessions!TypeOK
  /\ path \in Seq([tool: Tools, risk: {"low", "medium", "high"}])
  /\ request \in [Requests -> Handler]
  /\ engine \in BOOLEAN /\ up \in BOOLEAN

\* The use count of a session is the number of requests that ran under it and
\* reached the transport: no use is lost, counted twice or charged to another
\* identity, whatever was rotated or expired in between.
UsesAreAccountedFor ==
  \A i \in DOMAIN sessions :
    sessions[i].requestCount =
      Cardinality({r \in Requests : /\ request[r].session = i
                                    /\ request[r].phase \in {"succeeded", "failed"}})

\* With at most MaxInFlight overlapping requests a session is used at most
\* MaxInFlight - 1 times beyond its ceiling; without overlap the ceiling is exact.
SessionOvershootIsBounded ==
  \A i \in DOMAIN sessions :
    sessions[i].requestCount <= MaxRequests[Research] + MaxInFlight - 1

\* Where the policy blocks high-risk paths, a high-risk capability ends the path,
\* also one that became high-risk by escalation after the graph gate had admitted
\* it: only requests already in flight can follow it.
HighRiskEndsPath ==
  GraphPolicy.blockOnHighRiskPath =>
    \A k \in DOMAIN path :
      path[k].risk = "high" => Len(path) - k <= MaxInFlight - 1

\* The executed path exceeds its ceiling by at most the other requests that were
\* in flight when the last one was admitted; without overlap the ceiling is exact.
PathOvershootIsBounded == Len(path) <= GraphPolicy.maxPathLength + MaxInFlight - 1

\* What overlapping requests overshoot is bounded by how many they are.
OvershootIsBounded == SessionOvershootIsBounded /\ PathOvershootIsBounded

\* The gateway only goes down because a session ended, or the real engine was
\* removed, while a request was waiting.
DownOnlyAfterInterference ==
  ~up => \E r \in Requests :
           /\ request[r].phase = "lost" /\ request[r].session # NoSession
           /\ \/ sessions[request[r].session].status # "active"
              \/ request[r].real /\ ~engine

\* Every execution that is started is concluded: execution_started is followed
\* by execution_succeeded, execution_failed or execution_blocked
\* (docs/audit-security-events.md, "Execution").
StartedIsConcluded ==
  \A r \in Requests :
    request[r].phase = "delaying" ~> request[r].phase \in Concluded

=============================================================================
