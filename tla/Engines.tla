--------------------------------- MODULE Engines --------------------------------
(***************************************************************************)
(* The components that keep state of their own and call nobody.  A         *)
(* behaviour is one of `chosen`, named at the start; the others stand      *)
(* still.  They share nothing but the clock.                               *)
(*                                                                         *)
(* The graph is the module extended, so Init, Next and the variables       *)
(* without a comment below are the graph's; the others are instances,      *)
(* whose constants have names of their own here.                           *)
(***************************************************************************)
EXTENDS CapabilityGraph

CONSTANTS
  \* trust
  TrustCompartments, MaxScore, InitialScore, Restricted, Neutral, Penalty, Recovery,
  RecoveryCap, RecoveryWindow, DecayInterval, DecayDelta, DecayCeiling,
  MaxScored, MaxTrustTime,
  \* limiter
  Agents, LimitedTools, Limits, TemporaryBlocks, MaxRequests, MaxBlocks, MaxLimiterTime,
  \* heuristics
  HeuristicRules, MaxObserved, MaxHeuristicTime,
  \* control
  BootProfile, BootConfig, Contents,
  \* legacy
  Calls, LegacyCompartments, LegacyDecisions, Endpoints, UserAgents, Ttl, IdleTimeout,
  MaxSessions, MaxLegacyTime,
  \* orchestrator
  Requests, Signals, MergePolicies, MaxSignals, MaxAudited, MaxCollected, MaxPolicies

VARIABLES
  chosen, now,
  score, events, marks, lastDecay,                        \* trust
  limits, windows, blocks, log,                           \* limiter
  history, anomalies, incidents,                          \* heuristics
  file, snapshot, engines, searxng, profile, resolved,    \* control
  records, calls, minted,                                 \* legacy
  merging, collected, buffer, last, trail, evicted, answers \* orchestrator

-----------------------------------------------------------------------------
Reputation == INSTANCE TrustReputation WITH
  Compartments <- TrustCompartments, WindowMs <- RecoveryWindow,
  MaxEvents <- MaxScored, MaxTime <- MaxTrustTime

Limiter == INSTANCE RateLimiter WITH
  Tools <- LimitedTools, CandidatePolicies <- Limits, CandidateBlocks <- TemporaryBlocks,
  MaxTime <- MaxLimiterTime, policies <- limits

Heuristics == INSTANCE RuntimeSecurity WITH
  Rules <- HeuristicRules, MaxEvents <- MaxObserved, MaxTime <- MaxHeuristicTime

Control == INSTANCE RuntimeControl

Legacy == INSTANCE LegacyServer WITH
  Compartments <- LegacyCompartments, Decisions <- LegacyDecisions, MaxTime <- MaxLegacyTime,
  clock <- now

Orchestrator == INSTANCE RuntimeOrchestrator WITH
  CandidatePolicies <- MergePolicies, MaxEvents <- MaxAudited, policies <- merging

\* What the engines take for granted of their constants.
ASSUME TrustConstants == Reputation!TrustAssumption
ASSUME LimiterConstants == Limiter!LimiterAssumption
ASSUME HeuristicConstants == Heuristics!RulesAssumption
ASSUME ControlConstants == Control!ControlAssumption
ASSUME LegacyConstants == Legacy!LegacyAssumption
ASSUME OrchestratorConstants == Orchestrator!OrchestratorAssumption

-----------------------------------------------------------------------------
reputationVars == <<score, events, marks, lastDecay>>
limiterVars == <<limits, windows, blocks, log>>
heuristicsVars == <<history, anomalies, incidents>>
controlVars == <<file, snapshot, engines, searxng, profile, resolved>>
identityVars == <<records, calls, minted>>
orchestratorVars == <<merging, collected, buffer, last, trail, evicted, answers>>

enginesVars == <<chosen, now, reputationVars, limiterVars, vars,
                 heuristicsVars, controlVars, identityVars, orchestratorVars>>

EnginesInit ==
  /\ chosen \in {"reputation", "limiter", "graph", "heuristics", "control", "legacy",
                "orchestrator"}
  /\ Reputation!Init /\ Limiter!Init /\ Init
  /\ Heuristics!Init /\ Control!Init /\ Legacy!Init /\ Orchestrator!Init

\* The variables of the engines that are not the chosen one.
OthersIdle ==
  /\ chosen # "reputation" => UNCHANGED reputationVars
  /\ chosen # "limiter" => UNCHANGED limiterVars
  /\ chosen # "graph" => UNCHANGED vars
  /\ chosen # "heuristics" => UNCHANGED heuristicsVars
  /\ chosen # "control" => UNCHANGED controlVars
  /\ chosen # "legacy" => UNCHANGED identityVars
  /\ chosen # "orchestrator" => UNCHANGED orchestratorVars
  /\ UNCHANGED chosen

EnginesNext ==
  /\ \/ chosen = "reputation" /\ Reputation!Next
     \/ chosen = "limiter" /\ Limiter!Next
     \/ chosen = "graph" /\ Next /\ UNCHANGED now
     \/ chosen = "heuristics" /\ Heuristics!Next
     \/ chosen = "control" /\ Control!Next /\ UNCHANGED now
     \/ chosen = "legacy" /\ Legacy!Next
     \/ chosen = "orchestrator" /\ Orchestrator!Next /\ UNCHANGED now
  /\ OthersIdle

EnginesSpec == EnginesInit /\ [][EnginesNext]_enginesVars

-----------------------------------------------------------------------------
\* The properties of the engines, under the names they have there (PathsAreSound
\* is the graph's own).

\* The trust engine spends the recovery budget of a window exactly.
RecoveryBudgetIsExact ==
  chosen = "reputation" => Reputation!RecoveryBudgetIsExact

\* The rate limiter never lets more through than a policy allows in any window.
AllowedWithinLimit ==
  chosen = "limiter" => Limiter!AllowedWithinLimit

\* Nor does it refuse a caller that has been quiet for a whole window.
QuietCallerIsAdmitted == Limiter!QuietCallerIsAdmitted

\* The heuristics neither miss a burst nor invent one, and every anomaly becomes
\* one incident.
DetectionIsExact ==
  chosen = "heuristics" => Heuristics!DetectionIsExact

\* The policy engines in force are one config's or one profile's.
EnginesAreOneGeneration ==
  chosen = "control" => Control!EnginesAreOneGeneration

\* A shipped profile resolves and builds over every config that was accepted.
EveryProfileCanBeSwitchedTo ==
  chosen = "control" => Control!EveryProfileCanBeSwitchedTo

\* The server's firewall and core's agree, and the server's confirms no less.
ServerIsNoLaxerThanCore ==
  chosen = "control" => Control!ServerIsNoLaxerThanCore

\* The legacy server's identities share nothing across compartments.
NothingIsShared ==
  chosen = "legacy" => Legacy!NothingIsShared

\* A request's composite decision comes from its own signals and is audited.
DecisionsAreTheirOwn ==
  chosen = "orchestrator" => Orchestrator!DecisionsAreTheirOwn
=============================================================================
