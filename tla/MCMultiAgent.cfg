SPECIFICATION FairSpec
CONSTANTS
  Agents = {"a1", "a2"}
  Compartments = {"research"}
  MaxConcurrentExecutions = 3
  MaxSessions = 1
  MaxGlobalConcurrentExecutions = 3
  ViolationsBeforeRestriction = 2
  QuarantinedCompartmentThreshold = 1
  InitialTrust = 70
  QuarantinedThreshold = 20
  RestrictedThreshold = 40
  LeaseTtl = 1
  Scores <- MCScores
  Degradations <- MCDegradations
  MaxAdmitted = 1
  MaxInterventions = 2
  MaxTime = 1
INVARIANTS
  CeilingCountsAllButEvicted
  LeasesAgree
PROPERTIES
  StandingOnlyWorsens
  EvictedDrains
  OneRivalCannotStarve
