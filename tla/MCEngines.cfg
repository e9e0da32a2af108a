SPECIFICATION EnginesSpec
CONSTANTS
  Compartments = {"research", "lab"}
  Tools = {"search", "fetch_html"}
  CandidateRules <- GraphRules
  CandidatePolicies <- GraphPolicies
  MaxNodes = 3

  TrustCompartments = {"research"}
  MaxScore = 8
  InitialScore = 6
  Restricted = 2
  Neutral = 4
  Penalty <- Penalties
  Recovery <- Recoveries
  RecoveryCap = 3
  RecoveryWindow = 2
  DecayInterval = 2
  DecayDelta = 1
  DecayCeiling = 6
  MaxScored = 4
  MaxTrustTime = 4

  Agents = {"a1", "a2"}
  LimitedTools = {"fetch_html"}
  Limits <- MCLimits
  TemporaryBlocks <- MCTemporaryBlocks
  MaxRequests = 3
  MaxBlocks = 1
  MaxLimiterTime = 3

  HeuristicRules <- MCHeuristicRules
  MaxObserved = 6
  MaxHeuristicTime = 3

  BootProfile = "research"
  BootConfig <- ShippedConfig
  Contents <- ConfigFiles

  Calls = {"k1", "k2"}
  LegacyCompartments = {"dark", "open"}
  LegacyDecisions <- MCDecisions
  Endpoints = {"tor", "proxy"}
  UserAgents <- Pool
  Ttl = 2
  IdleTimeout = 1
  MaxSessions = 4
  MaxLegacyTime = 2

  Requests = {"r1", "r2"}
  Signals <- MCSignals
  MergePolicies <- MCMergePolicies
  MaxSignals = 2
  MaxAudited = 5
  MaxCollected = 2
  MaxPolicies = 2
CHECK_DEADLOCK FALSE
INVARIANTS
  RecoveryBudgetIsExact
  AllowedWithinLimit
  PathsAreSound
  DetectionIsExact
  DecisionsAreTheirOwn
  EnginesAreOneGeneration
  EveryProfileCanBeSwitchedTo
  ServerIsNoLaxerThanCore
  NothingIsShared
PROPERTIES
  QuietCallerIsAdmitted
