# Gyges Research Layer: TLA+ models and proofs

This directory holds the formal models of the *local API server*
(`apps/grl-server/src/local-api.ts`), of the core engines it is made of
(`packages/core/src`), of the clients that call it (`packages/agent-sdk`,
`apps/grl-cli`) and of the earlier server beside it (`apps/grl-server/src/index.ts`).
The server is a capability gateway: an AI agent asks for a
capability (`search`, `fetch_html`, `fetch_json`) at a risk level, a chain of gates
decides, and what is let through runs under the session identity of a *compartment*.

Contents: [1 the system](#1-the-system), [2 the modules](#2-the-modules),
[3 the runs](#3-what-the-runs-show), [4 the proofs](#4-what-is-proved),
[5 observations](#5-where-code-and-documentation-disagree), [6 the plan](#6-plan-and-what-is-not-modelled).

## 1 The system

One Node process, nothing persisted.  JavaScript runs a handler without interruption
between its `await`s, so requests interleave only there: at the execution delay
(`applyExecutionDelay`), at the transport call (`executionEngine.execute`) and at an
approval decision, which is another request.  Hazards come from what a handler reads
before an `await` and uses after it, from time passing, from engines replaced by a
config reload or a profile switch in between, from answers that do not reach the client,
and from the process ending with everything it knows.

| component | state it keeps | operations | interacts with |
|---|---|---|---|
| session manager | sessions with status, deadline, use count | get-or-create, rotate, revoke, record use, lazy expiry | gateway picks a session before the awaits and counts its use after them |
| approval queue | requests with a status and a deadline | create, approve, reject, list, expire | gateway enqueues; a second HTTP call decides |
| SDK and CLI clients | a timer per call | search, request a capability, approve, reject, lists | one HTTP request a call, never retried |
| capability graph | rules, isolation policies, nodes and edges, executed paths | evaluate a path, record a request, record a transition | gateway asks before the other gates and extends the path after the transport call |
| trust and reputation | score, recovery marks, decay mark per compartment | record event, decay, clear | fed by audit events and incidents; gates every request |
| rate limiter | blocks and a history of requests | evaluate, block, clear expired blocks | gates every request, records also what it refuses |
| adaptive defence | policies | evaluate anomalies | reads every anomaly ever raised; may raise a request's risk in place |
| heuristics, incident detector and store | event history, anomalies, incidents | ingest, process, close incident | fed by every audited event |
| runtime config and profiles | snapshot, active profile | load, reload, resolve, switch | rebuild the engines above |
| multi-agent runtime | registry, leases, quotas, violations | register, heartbeat, lease, restrict, evict, schedule, start and end executions | its registry gates every request |
| privacy pipeline | accesses, identity fragments, personas, cadence, bursts, budgets | behavioural, persona and temporal evaluation | delays, refuses or rotates a request before the other gates |
| privacy boundary, transport policy, firewall | none (rules) | evaluate, resolve | gates of the same chain |
| network isolation | relay of each compartment | assign, rotate | may force a session rotation |
| transport registry, execution engine, adapters | manifests, sandbox policies | sandbox, execute | the external effect |
| orchestrator | policies, signals of each request, a shared buffer, the last decision | record, merge, finalise | summarises the gates' signals, observes only |
| audit store | a bounded list of events | append, query | every gate |
| legacy server | identities with two timeouts, calls under way | bind, rotate, destroy, prune, tunnel, search | a transport per compartment, SOCKS endpoints |

What makes each of them correct, beyond types: one usable identity per compartment, a
retired one never used again (*sessions*); an authorisation that is unique, in time and
final, and a client that is told the truth about it (*approvals, clients*); every executed
path authorised as a whole and not only at its last
step (*graph*); a bounded recovery of trust, whatever the order of events and time
(*trust*); a bound on what is allowed in every window, not only in the window of the last
decision (*limiter, budgets*); a burst always reported, and reported once (*heuristics*); the
engines in force always those of one configuration (*control*); one lease an agent, a
standing that only worsens, a ceiling that counts what runs (*agents*); identities that
only move forward (*privacy*); a decision that is its own request's (*orchestrator*);
nothing shared across compartments (*legacy*).  The gateway must keep
these promises across its awaits, and the feedback loop from refusals to reputation and
back must contain a burst without locking a compartment out by its own bookkeeping.

## 2 The modules

Every module names the functions it translates; `PROJECT.json` ("map") gives the lines.
Definitions headed *Faulty variant of X* are not part of any specification: they are
forms of `X` with one plausible mistake, kept next to it to show that the
properties notice that mistake.

| module | code | state ↔ code |
|---|---|---|
| `SessionManager` | `session-manager/manager.ts`, `store.ts` | `sessions` is the creation-ordered store, a session is its position; `handed` is what the last call returned, `now` the injected clock |
| `CompartmentIdentity` | none: the abstract promise | `current` identity of each compartment, `retired` identities |
| `SessionIdentity` | none: the refinement mapping | a compartment's identity is its active session, terminal sessions are the retired ones |
| `SessionManagerProofs` | theorems on `SessionManager` and on the mapping | |
| `ApprovalQueue` | `approval-queue/queue.ts` and the approve/reject handlers | `requests` is the map, `audit` the decisions the handler audits |
| `AgentClient` | `agent-sdk/src/client.ts`, the CLI's `api-client.ts`, the handlers that create and decide approval requests, the process's exit and restart | `calls` are the calls ever made, each with its connection, the server's response and what the client has made of it; `forgotten` is how much of the queue restarts have lost |
| `AgentClientProofs` | theorems on the queue, and on clients, server and queue together | |
| `CapabilityGraph` | `capability-graph/engine.ts`, `graph.ts`; the handler's recording after an execution | `paths` are the executed paths, as node numbers; `nodes`, `edges` the graph; `judged` is a history variable, the risk at which each step was let through |
| `Gateway` | both capability handlers, from await to await | `request[r]` is the handler of request r, `path` the compartment's executed path, `engine` the nullable SearXNG engine, `up` the process |
| `GatewayProofs` | theorems on the overlapping handlers, resting on `SessionManagerProofs` | |
| `TrustReputation` | `trust-reputation/engine.ts` | `score`, recovery marks with their times, decay marks |
| `RateLimiter` | `adaptive-defense/rate-limiter.ts` | policies in registration order, blocks, the history of requests |
| `RuntimeSecurity` | `runtime-security/engine.ts`, `detector.ts`, `store.ts` | event history, anomalies, incidents |
| `SecurityLoop` | `observeSecurity`, the trust and defence gates, close-incident and approval handlers | one compartment's requests in flight and pending, its audit, and the three engines' state |
| `SecurityLoopProofs` | theorems on audit, bursts and restriction | |
| `PolicyEngines` | the firewall of `packages/policy-engine`, the transport policy, `privacy-boundary`, the sandbox check | none: pure decisions as operators over tables of rules |
| `IdentityEngines` | `persona-isolation`, `network-isolation`, `transport-fingerprint` | no variables: the records of a persona, a route and a fingerprint with their next values |
| `CompositePolicy` | `runtime-orchestrator`: merge strategies, conflicts, the decision's flags | none: operators over the list of a request's signals |
| `ExecutePipeline` | both capability handlers, from arrival to the execution delay | `rq` is the request and what its collector holds, `carried` the topics of a compartment's active session, `route`, `persona`, `fingerprint` the engines' entries |
| `ExecutePipelineProofs` | theorems on the gates, their answers and what requests leave behind | |
| `RuntimeOrchestrator` | the orchestrator's collector, buffer and policies, and the audit store, as requests share them | `collected` per request, `buffer`, `last`, `trail` and `evicted`, `answers` |
| `PrivacyPipeline` | `runPrivacyPipeline` with `behavioral-privacy`, `persona-isolation`, `temporal-obfuscation` | accesses, fragments, personas with the fragments they are bound to, cadence, burst, budget windows |
| `PrivacyPipelineProofs` | theorems on what the three engines keep about an agent | |
| `MultiAgent` | `multi-agent/*` and `evaluateMultiAgentGate` | `runtimes` is the registry, `leases` and `index` the lease store, `running` and `admitted` what is under way |
| `MultiAgentProofs` | theorems on registry, leases and executions | |
| `RuntimePolicies` | the config's policy sections, `runtime-config/validator.ts`, `runtime-factory.ts`, the shipped packs and profiles, core's own policy engine and firewall | none: validity, buildability and decisions as operators over configs |
| `RuntimeControl` | `runtime-config`, `runtime-profiles`, the server's rebuild functions | the file, the accepted snapshot, the active profile, the engines and where they came from |
| `LegacyServer` | `apps/grl-server/src/index.ts`, `identity-compartment`, `transport-router`, the SOCKS connection | `records` are the identities, `calls` the requests under way, `minted` counts sessions |
| `Engines` | the seven engines that call nobody: graph, trust, limiter, heuristics, runtime control, orchestrator, legacy server | `chosen` names the engine a behaviour is one of; every other variable is that engine's |
| `EnginesProofs` | theorems on the graph, trust, the limiter, the heuristics, runtime control, the orchestrator and the legacy server | |

*Composition.*  `Gateway` instantiates `SessionManager` over its own session variables
and uses `CapabilityGraph` for the graph's decision over its executed path; the two are
the shared state of all handlers.  `SecurityLoop` instantiates `RuntimeSecurity`
(heuristics and incidents) and `TrustReputation`'s scoring.
`ExecutePipeline` extends `PolicyEngines`, `IdentityEngines` and `CompositePolicy`, the engines no other
module needs, and leaves those with a module of their own (graph, trust, limits, defence)
to their outcomes.  `RuntimeOrchestrator` extends `CompositePolicy` with the state that requests share,
`RuntimeControl` extends `RuntimePolicies`, `AgentClient` extends `ApprovalQueue`: the server's steps on a
request are the queue's own actions.

*Refinements.*  `SessionManager` implements `CompartmentIdentity` under the mapping of `SessionIdentity`.
`PrivacyPipeline`'s personas, with their fragments and deadlines, implement the counting persona of
`IdentityEngines` that `ExecutePipeline` works with (`PersonasImplementCounts`, proved).  `AgentClient`
implements `ApprovalQueue` (proved).

*Abstraction.*  Ids (UUIDs) are positions in creation order.  Reasons, wording, headers,
query text and layouts are left out.  Time is a counter that only `Tick` advances; the
code compares timestamps and nothing else, and TTLs and windows are a few ticks.  A call
that throws without changing anything is a stuttering step and has no action.  A client's timer
may fire at any moment while it is set.

*Two modules for one handler.*  Everything between a request's arrival and its execution
delay runs without an `await`.  `ExecutePipeline` therefore decides one request at a time,
gate by gate, and says how the gates depend on each other; `Gateway` takes the
gates between graph and session by their outcome (`Refuse` with any of the two answers,
`Start` with any demand for rotation and any escalation of the risk) and says what overlapping
handlers do to each other.

*A caller that the server does not have.*  Quotas, scheduler and trust isolation of the multi-agent
runtime are library classes: the server constructs the registry and the leases only.  `MultiAgent` has
them called the way `docs/multi-agent-runtime.md` describes (isolation, quota, scheduler, then one
`recordExecutionStart` and one `recordExecutionEnd` for an execution), next to the gate that the
server does call.  What the properties say about executions is thus about that protocol.

## 3 What the runs show

Every constant that bounds a run begins with `Max` (or is named as a bound in its module).

| run | instance | question |
|---|---|---|
| `sessions` | a reusing and an always-rotating compartment, 3 sessions, 2 uses, 4 instants | does any order of calls leave two identities usable, hand out a dead one, or revive one?  Includes refinement of `CompartmentIdentity` |
| `gateway` | 3 requests, 2 overlapping, reloads, expiry, process exit | which promises of the engines survive the awaits, and by how much are ceilings overshot? |
| `gateway_alone` | 3 requests one after the other, fair | without overlap or expiry: does high risk end the path, is every started execution concluded? |
| `gateway_concluded` | 2 overlapping requests, fair | counterexample: a started execution that is never concluded (section 5) |
| `loop` | 2 requests in flight, 1 pending, 5 scored events | does a burst stop further refusals, does the score follow from the audit, what lifts a restriction? |
| `pipeline` | 3 requests in a row, 2 harmless topics and a sensitive one, 3 deployments, rules of every kind | does every answer follow from the signals behind it, is an execution judged at the risk it runs at, which request takes identities, when do two topics share a session? |
| `agents` | 2 agents, 1 compartment, both ceilings 3, lease TTL 1, 2 interventions, 2 instants, fair | do counts, leases and standing agree whatever comes in between, does what an evicted agent had under way drain, can a single rival keep a waiting agent from ever running? |
| `privacy` | 1 agent, a harmless and a sensitive topic, 9 requests, 7 instants | does identity only move forward, how dense can searches get around a window's edge, is a refusal for correlation final, do personas implement their counts? |
| `client` | 3 calls (1 a read), 2 approval requests, TTL 1, 1 exit and restart | is what a client is told what happened, is the audit exact, can a lost token's request be decided, does a call wait for ever? |
| `client_hangs` | 2 calls, 1 approval request | counterexample: a call that never settles (section 5) |
| `engines` | seven engines, one to a behaviour (see below) | each engine's own promise under every order of its operations |
| `control_reload` | the shipped profiles, 12 file contents | counterexample: a snapshot that is the new config and engines that are the old ones (section 5) |

*`engines`.*  Seven components keep state of their own and call nobody.  `Engines` extends the graph's module,
holds an instance of each of the others and a variable `chosen`, fixed at the start: a behaviour is one of the engine chosen, the others' variables
stay as they were.  The state space is the sum of the seven, not their product (1.6 million states).  Every constant of an
engine is a constant of `Engines` under a name of its own; `MCEngines` only gives them values, so that the theorems of section 4
are about the specification that the run checks.  The instances:

| chosen | instance | property |
|---|---|---|
| `reputation` | 1 compartment, 4 events, 5 instants, cap 3 in a window of 2 | `RecoveryBudgetIsExact`: the budget is never exceeded and never withheld |
| `limiter` | 2 agents, 1 tool, 3 policies (one that allows what it catches), 2 shapes of block, 3 requests | `AllowedWithinLimit` in every window; `QuietCallerIsAdmitted` |
| `graph` | 2 compartments, 2 tools, competing rules, permissive and disabled policies, 3 nodes | `PathsAreSound`: every executed path within its ceiling, authorised link by link at the risk it was judged at, one chain, no link after high risk, for risks raised after the judgement too |
| `heuristics` | 2 rules sharing an event type, 6 events | `DetectionIsExact`: every burst raises an anomaly, every anomaly is earned and becomes one incident |
| `control` | 6 profiles over 3 packs, 12 file contents | `EnginesAreOneGeneration`, `EveryProfileCanBeSwitchedTo`, `ServerIsNoLaxerThanCore` |
| `legacy` | 2 calls, 2 compartments, 2 user agents, 4 sessions | `NothingIsShared` across compartments and transports |
| `orchestrator` | 2 requests, 5 signals, 3 policies, a buffer of 2, an audit log of 5 | `DecisionsAreTheirOwn`: the answer is what its own signals call for, and audited |

*Why these bounds suffice.*  The engines are keyed by compartment, agent or tool, and two
keys never meet except through a shared list (sessions, nodes, history, buffer, registry): two keys
suffice to show interference, and one where the code has only one (the server registers one
compartment).  The exception is the slots of the runtime, which several agents can fill together: what two
agents show about waiting says nothing of three (see fairness below).  Three sessions give one retired, one rotated and one current; three nodes give a
path of length two, the shortest that has a chain to break, plus one beyond the
ceiling.  Each window or TTL is shorter than the clock's range, so that every event can fall before,
on and after a boundary; thresholds are two or three, so that a count can be below, at and above.
The use ceiling in `Gateway` is one, which makes every overlap an overshoot.  In
`gateway_alone` the TTL exceeds the clock on purpose: the run isolates what
overlap alone changes.  In `pipeline` the tables are chosen so that each risk a gate can raise a
request to meets its own verdict (allowed, to be confirmed, denied, unrouted, strictly isolated, for
approval); three requests are the least that show a refusal spending a rotation
(one to set the topic, one refused on another, one that reuses the session), and the ceilings of
searches, uses and assignments (2, 2, 3) are within their reach.  In `agents` three slots for two
agents make the share one of them may hold differ from the ceiling: one rival could fill all three, were it not
for the monopoly test.  In `privacy` the nine requests
reach the critical score (two accesses each, five points a close pair) and go on after it; budgets of one
search in a window of two have two windows and the edge between them within the clock.  In `client`
two approval requests are the least that give a client a token for another request, and the three calls are an
ask and two decisions, or two asks and a decision.

*What `gateway` says about overshoot.*  The code's ceilings (uses of a session, length of
a path) are tested before the awaits and moved after them.  They are therefore not exact
when requests overlap.  `OvershootIsBounded` gives
the bound that does hold, for both: the ceiling plus the other requests in flight.
`UsesAreAccountedFor` shows that, in spite of it, no use is lost or charged to
another identity, and `DownOnlyAfterInterference` that nothing else stops the process.

*Fairness.*  Three specifications assume weak fairness, each of single steps the code's environment
does take.  `Gateway`'s `FairSpec`: a waiting handler is resumed.  The delay is a `setTimeout` capped by
the server, and an adapter's timer covers the transport call until its headers arrive; that the body
ends is SearXNG's doing and an assumption.  `MultiAgent`'s `FairSpec`: executions end, admitted
requests are answered, and an agent that may start keeps asking.  That is all a caller can do: it does not
make the scheduler take it at a moment when a slot is free.  `OneRivalCannotStarve` therefore speaks of one rival, which the monopoly
test holds to half of the runtime while the waiting agent runs nothing.  Two rivals can each stay within their half and between
them take every slot that becomes free, for ever: with three agents and an even ceiling, or with five agents under the
shipped quota of 5 and ceiling of 20, nobody is promised a turn.  `AgentClient`'s `ClientSpec`: a
client's timer fires, and its runtime reports a broken connection; the *server* owes no answer and may
stop in the middle of a body, which is what separates `NoCallWaitsForEver` (holds) from
`EveryCallSettles` (fails).  Nothing is assumed of operators, reloads, restarts or time.
`QuietCallerIsAdmitted`, `LockoutIsForever` and the other temporal properties are action properties and need
no fairness.

*Deadlock.*  Checked in `sessions`, the `gateway` runs, `loop`, `agents` and `control_reload`, where
read-only calls and sweeps remain possible when the bounds (requests, clock, sessions) have been reached.
`pipeline`, `privacy`, `client` and `client_hangs` stop when their requests or calls have been used up, and
in `engines` so do several of the seven.

*Symmetry.*  `gateway` uses it on requests and `pipeline` on the two harmless topics, which no rule
tells apart; neither checks a liveness property.

## 4 What is proved

The eight proof modules hold for every value of the constants that the assumptions of their modules
(`SessionAssumption`, `QueueAssumption`, `ClientAssumption`, `GatewayAssumption`, `AgentsAssumption`,
`GraphAssumption`, the named assumptions of `Engines` such as `LimiterConstants`, for the loop `LoopAssumption`,
`DetectorConstants` and `TrustConstants`, for the handlers `PipelineAssumption`, `TablesAssumption`, `EnginesAssumption`, for the
privacy engines `PrivacyAssumption`) allow, and
from nothing else.  Those assumptions say what kind of value a constant is (a set of policies, a ceiling of at
least one); none of them bounds the number of requests, agents, compartments, rules or topics.
`PrivacyAssumption` says more in one place: the accesses kept hold enough pairs to reach the critical score (the
code keeps 100, each pair scores 5, critical is 80).  The
bounds that only TLC needs (`MaxTime`, `MaxSessions`, `MaxNodes`) are arbitrary in the proofs.

| theorem | module | statement |
|---|---|---|
| `TypeCorrect` | `SessionManagerProofs` | `Spec => []TypeOK` |
| `Invariance` | | the inductive invariant below |
| `NewestOnly` | | `Spec => []OnlyNewestIsActive` |
| `SingleActive` | | a compartment never has two active sessions |
| `HandedUsable` | | `Spec => []HandedSessionIsUsable` |
| `UsesInTime` | | no use is recorded at or after a session's deadline |
| `TerminalFinal` | | `Spec => TerminalSessionsAreFrozen` |
| `IdentityImplemented` | | `Spec => Identity!Spec`, the refinement of `CompartmentIdentity` |
| `AuditExact` | `AgentClientProofs` | `Spec => []AuditIsExact` (of the queue) |
| `QueueImplemented` | | `ClientSpec => Spec`: the composition implements the queue |
| `ClientAuditExact` | | `ClientSpec => []AuditIsExact` |
| `OrphansUndecided` | | `ClientSpec => []OrphansAreNeverDecided` |
| `OutcomesTrue` | | `ClientSpec => []OutcomesAreTrue` |
| `GatewayTypeCorrect` | `GatewayProofs` | `Spec => []TypeOK` |
| `GatewayInvariance` | | the inductive invariant `GatewayInv` below |
| `GatewayAccountsForUses` | | `Spec => []UsesAreAccountedFor` |
| `GatewayOvershootBounded` | | `Spec => []OvershootIsBounded` |
| `GatewayHighRiskEndsPath` | | `Spec => []HighRiskEndsPath` |
| `GatewayDownOnlyAfterInterference` | | `Spec => []DownOnlyAfterInterference` |
| `AgentsInvariance` | `MultiAgentProofs` | the inductive invariant `AgentsInv` below |
| `AgentsCeiling` | | `Spec => []CeilingCountsAllButEvicted` |
| `AgentsLeases` | | `Spec => []LeasesAgree` |
| `AgentsStanding` | | `Spec => StandingOnlyWorsens` |
| `PipelineInvariance` | `ExecutePipelineProofs` | the inductive invariant `PipelineInv` below |
| `PipelineAnswers` | | `Spec => []CompositeExplainsAnswer` |
| `PipelineJudged` | | `Spec => []JudgedAtFinalRisk` |
| `PipelineIdentities` | | `Spec => []IdentityMovesForExecution` |
| `PipelineTopics` | | `Spec => []TopicsMeetOnlyAfterRefusal` |
| `PrivacyInvariant` | `PrivacyPipelineProofs` | the inductive invariant `PrivacyInv` below |
| `PrivacyTypes` | | `Spec => []TypeOK` |
| `FragmentsMoveForward` | | `Spec => []IdentityMovesForward` |
| `DensityBounded` | | `ForceDelayOnExhaustion => (Spec => []DensityIsBounded)` |
| `LockedOut` | | `Spec => LockoutIsForever` |
| `PersonasAreCounts` | | `Spec => PersonasImplementCounts` |
| `LoopTypeOK` | `SecurityLoopProofs` | `Spec => []TypeOK` |
| `ReputationIsAccounted` | | `Spec => []ReputationFollowsAudit` |
| `BurstsAreContained` | | `Spec => []BurstIsContained` |
| `RestrictionIsATrap` | | `Spec => RestrictionLiftsOnlyByClosing` |
| `GraphPathsSound` | `EnginesProofs` | `Spec => []PathsAreSound` |
| `LimiterKeepsLimits` | | `EnginesSpec => []AllowedWithinLimit` |
| `QuietCallersPass` | | `EnginesSpec => QuietCallerIsAdmitted` |
| `HeuristicsDetectExactly` | | `EnginesSpec => []DetectionIsExact` |
| `RecoverySpendsItsBudget` | | `EnginesSpec => []RecoveryBudgetIsExact` |
| `DecisionsFollowSignals` | | `EnginesSpec => []DecisionsAreTheirOwn` |
| `LegacySharesNothing` | | `EnginesSpec => []NothingIsShared` |
| `EnginesBuiltTogether` | | the first half of `EnginesAreOneGeneration`: engines of one config or one profile |
| `FirewallsAgree` | | `NoLaxerThanCore` of every list of policies, of any length |

*Sessions.*  "At most one active session" is not inductive: `rotateSession` at the
ceiling retires only what `findActive` returns, the first active session.  It is the
stronger `OnlyNewestIsActive` that is preserved: a session is appended only once every
session of its compartment has been retired or expired, and no call makes a session
active again.  The invariant adds the types, that uses precede deadlines (a use needs an active
session, which `Expire` has just tested against the clock), and that the session last handed out is
usable.  Lemmas state once what the helpers do: `Expire` and the two maps over the
sessions keep length, owner, deadline and use count and change a status only from active
to a terminal one; `FindActive` returns an active session of the compartment; `Append`
leaves older sessions alone.  Each action is then one step of the proof.

*The refinement.*  Seen through the mapping a call is either *quiet* (no session is added or
becomes active, so that the abstract step is `Retire` of the compartments that
lost theirs, perhaps none) or it *mints* (one new active session in one compartment, nothing left
active beside it there, no other compartment touched).  Each action is shown to be one of the
two (`EveryCallIsMapped`), and each of the two to be an abstract step (`QuietRetires`,
`MintsMint`).  Both need the invariant: the mapping picks *the* active session of a compartment,
which is well defined only because there is never a second one.

*The approval queue.*  `AuditIsExact` has three parts (every audited decision stands, no request
is decided twice, every verdict is audited) and with the types they are inductive together: that an
audited request is not pending is what keeps a second decision and a late expiry off it.
`ExpireFacts` says what the lazy expiry may change, `NothingDecided` covers every call that writes
no verdict, and only `Decide` needs an argument of its own.

*Clients and queue.*  The invariant `ClientInv` relates three records of one decision: what the
queue has, what the response said, what the client made of it.  `Consistent` says that a response
which reports a verdict belongs to the call that decided, that an error belongs to one that did not, and
that an outcome repeats its response.  `RefersTo` says that a call's token was read by a client before
(`Known`).  One lemma for each way a call can change (`SendKeeps`, `RespondKeeps`, `SettleKeeps`,
`BeginKeeps`, `CrashKeeps`) shows that these are kept and that no token is ever taken back, whatever
the server has forgotten; so each audited decision carries a token some client has read.

*The gateway.*  Neither ceiling is inductive by itself: a session may be at its ceiling with requests
still on their way that will count in it.  `GatewayInv` therefore bounds what is counted *plus* what is in
flight (`SessionHasRoom`, `PathHasRoom`): admission, which tests the ceiling and finds at most
`MaxInFlight - 1` others under way, adds to the second term, and the conclusion of a request only moves
it from the second to the first.  `HighRiskHasRoom` does the same for what may still follow a high-risk
step.  That a request in flight holds a session of the list (`HandlersHoldSessions`) makes the terms
well-defined.  What a session call may do to use counts (`KeepsCounts`, `CountsOneUse`, `SweepStep`) is proved
in `SessionManagerProofs` and used through an instance of it, as is the whole session invariant; the
properties survive a session that is rotated, expires or is revoked while requests wait for it, and a
reload that takes their engine.

*The capability graph.*  A step is judged at the risk of the request, and recorded at the risk it has after the gates behind
the graph, which may have raised it.  The history variable `judged` keeps the former; with `JudgedFirst` (it is never above what is
on record) and the types, `PathsAreSound` is inductive: a step after which something follows was not high on record, hence not
judged high.  The delicate part is `PathIsAuthorised`, which refers to the rules registered *now*: a step once licensed must stay licensed when
rules are added.  It does, since the first enabled rule of a pair decides and registration appends
(`RuleStays`, on the least element of a set of positions, `FirstPosition`).  `AdmittedFacts` states what an
admitted step satisfies, `OffPathStep` covers every call that records beside the paths.

*The multi-agent runtime.*  `CountsAgree` ties each agent's own count to the executions that run, with the
exception of evicted agents, and `Total` to the number of slots taken, so that the sum needs no
argument by induction.  `LeasesAgree` is inductive only with its converse: the lease that the index names for an agent
is held by that agent (`LeasesMatch`); without it, dropping one
agent's lease could leave another's index entry pointing at nothing.  Most calls change one record in a way that leaves both alone (`Keeps`, `QuietStep`).

*The execute handlers.*  Most of the invariant speaks of the request under way alone (`RequestOK`): which
signals its answer must have and may not have, that a rotation once signalled has left a demand, that the
verdicts of the firewall and of the boundary hold for the risk the request has *now*, and that
identities are taken at their gates and not before.  It holds since no gate after the firewall raises the
risk and none after the session gate turns a request away.  `CompositeFacts` is what the merge
of a list of signals comes to under the bootstrapped policy, for lists of any length.  `IdentitiesOK` relates the
topics a session carries to the scope of the route: they agree unless a refusal has spent the rotation
(`owed`) or the request under way is about to leave that session (`Leaving`).  Looking for that
invariant showed that the model had left out one outcome of a gate, a delay signalled by behavioural privacy at
medium correlation risk (`local-api.ts:2523`); it is in the model now.

*The privacy engines.*  Four things are kept about an agent, and each has its part of `PrivacyInv`.
Accesses: each request records two at one instant, so the accesses kept are paired when counted from the latest
(`Paired`), also after the oldest have fallen out; the next request sees them with one more, every second of
which is a close neighbour (`PairsAreClose`).  While nothing falls out the score can only grow, and once
the list is full the pairs alone reach the critical score (`Hot`): so a refusal is for ever.
Fragments: only the newest is usable (`NewestOnly`), and what is bound to one is at most what it has counted and
one more, the request for which it was created when that was counted elsewhere (`BindingsOK`); `Moves` says what
rotation and recording have in common.  Personas: a topic has one active persona, and none that has been
searched less than once (`PersonasOK`).  Budgets: `DensityIsBounded` says nothing of where the windows lie, and
the invariant does (`BudgetOK`): the current window has let through no more than it has spent, the stretch of one
window before it no more than one budget, and nothing lies beyond its end; any stretch of one window that holds
the present falls within those two.  The theorem assumes `ForceDelayOnExhaustion`, the default
(`temporal-obfuscation/budget.ts:7`), which the server does not change: without it an exhausted budget holds
nothing back.

*The security loop.*  What one handler audits is applied to the stores event by event, and within an event incident by
incident: `Audit` is a recursion along the event types, `ObserveSecurity` one along the incidents that the event opens.  The
invariant is therefore stated of a *record* of the stores (`Accounted(s, owing)`, `Timely(s)`), with the incidents that have
been opened and not yet charged as a parameter, shown to be kept by one event (`AfterSound`) and carried along the recursion
by induction over its places (`RecursionExists`, `AuditCourse`).  Between two handlers nothing is owing, which is
`ReputationFollowsAudit`.  `BurstIsContained` is not inductive, since it does not say what may still come: `WithinBounds` does.
Either a burst is below its threshold, or it has raised its anomaly, and what it holds *and* the requests in flight that may
still add to it stay below the threshold and `MaxInFlight` together.  An anomaly stops admissions for good, so a finishing
request only moves one from the second term to the first; events that are audited at admission come to nothing once the
anomaly is there.  That one handler adds at most one event to a burst is needed for it, and is a property of the rules
(`OncePerRequest`): a rule for rejected approvals is outside, since operators may reject as many requests as are pending.
`RestrictionIsATrap` goes through the handlers: with nothing in flight none of them audits anything that gains points, but
the closing of an incident.

*The rate limiter.*  The limiter remembers one window and forgets the rest, while `AllowedWithinLimit` speaks of every
window there ever was.  `LimiterInv` therefore follows the log of all requests beside it.  `WindowsFollowLog` says that
since any instant of the current window the limiter has counted no fewer requests of a key than were allowed (it also
counts what it refuses), and nothing but requests of that key; `AllowedInTurn` says that the window that *ended* with
an allowed request was within the limit when it was allowed.  Any other window that holds too many allowed requests would
end at its last one (`LimiterInvSuffices`).  `SinceKeeps` and `WindowGrows` are what pruning and recording do to an
ordered list of timestamps.  The first version of the property was false: `DefenseAction` includes `allow`
(`adaptive-defense/types.ts:56`), so a policy may answer an excess with `allow`, and since the first policy
exceeded decides, it disarms every later one as well.  The property is now about the policies before the first of those
(`Enforced`).

*The trust engine.*  `RecoveryBudgetIsExact` adds points up, so sums come first: `TotalOf` is defined by recursion along a
sequence, and `SumsExist`, `SumsAgree` and `TotalIsLastSum` reach it through running sums, by an induction
(`PositionInduction`) that takes a *set* of positions and so needs no operator as a parameter.  The engine forgets the marks that
leave its window, while the property speaks of every window of the whole history.  The invariant (`TrustInv`, `Budgeted` for each
compartment) says that since any instant of the current window the marks account for exactly what was gained (`MarksAccount`),
and that this is within the budget (`WithinBudget`); then a recovery can exceed no window that ends later, and one that was
cut short has just filled the window it ends.  `MarksSinceKeeps` is what pruning does to marks in order.

*The heuristics.*  A rule fires when its window holds *exactly* its threshold, and never looks back; that this misses no
burst is not obvious, since a window can lose events and gain one at the same instant.  The invariant says that the
anomalies are the crossings of the history, no more and no fewer (`AnomaliesAreCrossings`), and that a crowded window
goes back, through crowded windows only, to a crossing (`BurstsCross`): from one watched event to the next the count rises by
at most one (`CrowdedBefore`).  Incidents are the anomalies one to one (`IncidentsFollow`).

*The orchestrator.*  An answered request has left its collector for good, and its answer is a decision of some policy that
was in force on exactly those signals (`AnswersAreDecisions`); what such a decision can be is a fact about the
merge of any list of signals (`MergedFacts`, `ConflictWinners`).  For the audit, `AccountOf` describes what a log whose oldest
entries are gone still tells of a request, in terms of neighbouring events only: one without a successor is the
last of its block, one without a predecessor is the first or stands at the cut.  In that form it survives both an append
(`BlockKeepsAccounts`) and an eviction of any length (`EvictionKeepsAccount`).

*Runtime control.*  `EnginesBuiltTogether` needs no more than that the file always holds something the operator wrote, or
the boot config.  `FirewallsAgree` rests on one observation: a store that refuses two policies of one agent and
compartment leaves at most one that concerns a request, so that the server's "first that matches" and core's "the one found"
are the same policy.

*The legacy server.*  Sessions and user agents carry a number when they are made up, so whatever is new differs from what
any identity or any call under way still holds (`Numbered`).  `Apart` then says that live identities differ, and that a
session, wherever it is still held, determines its compartment and its transport, also after its identity
was rotated, destroyed or has expired under the call.  `PickedIsFresh` covers the exhausted pool of user agents.

*Model-checked only.*

- Liveness under fairness (`StartedIsConcluded`, `OneRivalCannotStarve`, `EvictedDrains`, `NoCallWaitsForEver`), which is out
  of the prover's reach.
- What is a fold over a sequence: in `RuntimeControl` what a profile resolves to (a fold over its packs): the second half of `EnginesAreOneGeneration` and
  `EveryProfileCanBeSwitchedTo`, and with it that the list in force in `ServerIsNoLaxerThanCore` is one of those
  `FirewallsAgree` is about.
- The ranges of `MultiAgent`'s `TypeOK`.
- That the assumptions, and the strengthened invariants `GatewayInv`, `AgentsInv`, `GraphInv`, `PipelineInv`,
  `PrivacyInv`, `LoopInv`, `LimiterInv`, `TrustInv`, `HeuristicInv`, `OrchestratorInv` and `LegacyInv` (the last five without the clauses that quantify over
  all sets or all integers), hold on the instances of section 3 was checked by TLC.

## 5 Where code and documentation disagree

Shown by a run:

- **An execution can stay unconcluded** (`gateway_concluded`, `StartedIsConcluded`).  The
  handler picks its session before two awaits; if another request rotates that session
  meanwhile, `recordUse` throws (`local-api.ts:4011`), nothing catches the rejected
  promise, and neither the result is audited nor the client answered.
- **A reload can succeed by half** (`control_reload`, `ReloadIsAllOrNothing`).  The validator accepts
  configs that an engine cannot be built from (two isolation policies of one compartment).
  `applyReloadedSnapshot` replaces the snapshot first (`local-api.ts:1811`), the loader swallows what
  its listener throws, and the reload is answered as a success while the old engines decide.
  `EveryProfileCanBeSwitchedTo` shows the way out: any shipped profile still builds.
- **A call can hang** (`client_hangs`, `EveryCallSettles`).  The client clears its only timer when the
  response's head arrives (`agent-sdk/src/client.ts:355`) and reads the body without one.

Met while modelling, described here and not claimed by a run:

*Gateway and pipeline*

- A refused request uses up the rotation of the relay route that its change of topic earned, while
  the compartment's session stays.  A later request on the new topic then reuses that
  session, which `docs/behavioral-privacy.md:53` does not foresee.  `TopicsMeetOnlyAfterRefusal` states
  that this is the only way two topics meet.
- `docs/network-isolation.md:115` rotates "once a route has been used this many times".  The code
  counts assignments to the compartment and does not start again at a rotation.
- The mock handler refuses an unrouted request without a signal, so that its composite policy
  can read `allow`; the real handler signals the same refusal, and `docs/runtime-policy-orchestrator.md:345`
  allows the two to differ only in the transport.  `CompositeExplainsAnswer` names the exception.
- A temporal `temporary_block` is signalled while the request executes, and a sandbox block is
  part of an answer that says "allowed": the composite blocks, the handler does not.
- The mock handler rotates the agent's fingerprint before its verdict, the real one after it
  (`IdentityMovesForExecution`).
- Limits and defence raise `request.riskLevel` in place after the graph has judged the request, and the raised risk is what the
  path records.  A step above its rule's `maxAllowedRisk`, or a high-risk second step, can thus be on a path although the graph
  would have refused it; the next request is judged against it (`PathIsAuthorised`, `HighRiskEndsPath`).
- The graph's escalation rule and a transition rule's violation action are tested before
  `requireApprovalOnToolChange` (`capability-graph/engine.ts:357`), so a policy that asks
  for approval on every change of tool does not always get it.
- A reload during the delay can remove the engine of a waiting real request
  (`local-api.ts:4877`); the property access on null ends it.  `DownOnlyAfterInterference`
  includes that case.
- `resetAt` of a refused request is the end of the oldest entry's window, but refused
  requests are recorded too, so retrying exactly then can be refused again.
- A rate-limit policy may name `allow` as its action (`adaptive-defense/types.ts:56`, the config validator accepts it); once
  exceeded it lets everything through, past every policy registered after it (`Enforced`).
- Adaptive defence reads every anomaly ever raised.  Its "cooldown" therefore ends
  only with the process or when a stronger decision replaces it.

*Config and profiles*

- The boot profile is resolved and announced, but the engines have been built from the bare snapshot
  (about `local-api.ts:1902`) and stay so until an explicit switch, where `docs/runtime-profiles.md:368` has it
  "applied" (`RuntimeControl`'s `Init`).
- A reload rebuilds the engines from the file's snapshot and drops the active profile,
  which the profile endpoints keep reporting.
- Trust policies, sandbox policies and compartments of a config or profile are validated and build no engine.
- The server confirms whatever a policy with `requiresConfirmationAbove` allows, core only what is strictly
  above that level; `ServerIsNoLaxerThanCore` holds since it asks for more.  Core's policy store refuses
  the default config's policies as colliding.

*Privacy*

- `evaluateRequest` and `recordBehavior` (`local-api.ts` 2495–2499) each record the request, so every
  request counts as two accesses back to back.  With the shipped numbers an agent is locked out after some sixteen
  requests however slowly they come, and for ever (`LockoutIsForever`), since refusals count too.
- A persona is bound to the agent's one active identity fragment, so personas of different topics
  share it; `docs/persona-isolation.md:93` has "Bindings are never reused across personas".
- A spent temporal budget is meant to "force a delay instead of blocking"; the engine then reports
  `allowed: false`, which the server does not look at.  Budget windows are fixed, not rolling
  (`DensityIsBounded` gives the bound: two budgets), and reading the budgets opens and restarts windows.
- A request during a burst's cooldown extends it.  The execution delay is off unless configured.

*Orchestrator*

- Under `source_precedence` a conflict is recorded as resolved by `deny_wins`
  (`docs/runtime-policy-orchestrator.md:167`) although the decision can be weaker than a deny.
- A policy registered after the default has no effect until the default is disabled or cleared
  (document's line 431); the server registers none.

*Multi-agent runtime*

- "Leases prevent starvation by reserving runtime access for a bounded period"
  (`multi-agent/types.ts:50`, and `leases.ts:4`), but neither the scheduler nor the quotas read a lease: a slot that becomes
  free can go to another agent while the holder of one waits, and two rivals can make it wait for ever.
- `multi-agent/registry.ts:163` says that an evicted agent can no longer acquire leases, but the lease
  manager attaches one to it again, and an eviction does not release the manager's lease.
  `LeasesAgree` is stated with that exception.
- `restrictAgent` moves a quarantined agent to `restricted`, that is from denied to
  approval-required: the exception in `StandingOnlyWorsens`.
- Quotas, scheduler and isolation have no caller in the server, and an eviction resets the count of
  executions that go on (`CeilingCountsAllButEvicted`).

*Clients*

- The CLI shows no approval token for a search that is pending, so a person at the CLI cannot decide it.
- The SDK's search reports success for an answer without an execution.
- `--timeout abc` is not a number, and the timer then fires at once.
- When a handler's promise rejects (first item above) no response is sent, and the client
  learns of it from its own timer.

*Legacy server*

- The direct transport, like core's SearXNG adapter, clears its timer once the headers have arrived.
- `recordHistory` after the search writes to whatever identity the compartment has by then, and, like a rotation,
  revives an identity that had expired by idleness.
- With credentials configured the SOCKS client offers user name and password only, and still accepts a
  reply that chooses "no authentication".
- A compartment is bound to its transport only until its identity expires or is destroyed.
- As shipped the server sets neither timeout and rotates nothing; `LegacyServer` has the class's behaviour.

## 6 Plan, and what is not modelled

Next:

1. The validation of requests, which stands before every gate, once a property depends on it.

Not modelled, and why:

- *Sanitizer*: a pure transformation of text that core's own policy engine calls; no decision depends on its result.
- *Proxy package*: types only.
- *Request validation, the evaluate endpoints and queries*: they change no state a gate reads, except
  where noted (lists that expire what is due, budgets opened by reads), and those are actions.
- *What a fingerprint looks like* and the length of a delay: they decide nothing; when a fingerprint rotates is modelled.
- *Argument checks, flags and output of the clients*; cookies and history contents of the legacy server.
- *The syntax of a config file*, sections that build no engine, and profile overrides (no shipped profile has one).
- *Decay and clear* of the privacy engines, clearing of rules and anomalies: no caller in the server.
