SPECIFICATION Spec
CONSTANTS
  Research = "research"
  Rules <- MCRules
  Defences <- MCDefences
  MaxScore = 10
  InitialScore = 9
  Restricted = 2
  Neutral = 5
  Penalty <- MCPenalty
  IncidentPenalty <- MCIncidentPenalty
  Recovery <- MCRecovery
  RecoveryCap = 4
  WindowMs = 2
  MaxInFlight = 2
  MaxPending = 1
  MaxEvents = 4
  MaxScored = 5
  MaxTime = 2
INVARIANTS
  ReputationFollowsAudit
  BurstIsContained
PROPERTIES
  RestrictionLiftsOnlyByClosing
