SPECIFICATION Spec
CONSTANTS
  Agents = {"agent"}
  Topics = {"general", "health"}
  Sensitive = {"health"}
  MaxSearches = 2
  MaxAssignments = 1
  MaxUses = 1
  BurstGap = 1
  AccessLimit = 14
  PatternScore = 5
  MediumScore = 15
  HighScore = 25
  CriticalScore = 30
  MaxRequestsPerFragment = 2
  FragmentTtl = 2
  MinSpacing = 2
  RecentLimit = 4
  BurstThreshold = 3
  BurstWindow = 2
  Cooldown = 1
  MaxRequestsPerWindow = 1
  BudgetWindow = 2
  ForceDelayOnExhaustion = TRUE
  MaxRequests = 9
  MaxTime = 6
CHECK_DEADLOCK FALSE
INVARIANTS
  IdentityMovesForward
  DensityIsBounded
PROPERTIES
  LockoutIsForever
  PersonasImplementCounts
