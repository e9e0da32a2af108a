SPECIFICATION FairSpec
CONSTANTS
  r1 = r1
  r2 = r2
  r3 = r3
  Research = "research"
  Requests = {r1, r2, r3}
  MaxInFlight = 1
  Capabilities <- MCCapabilities
  Escalations = {"high"}
  Reloadable = FALSE
  GraphRules <- MCRules
  GraphPolicy <- MCLongerPolicy
  ReusePolicy <- MCReuse
  Ttl <- MCLongTtl
  MaxRequests <- MCMaxRequests
  MaxSessions = 3
  MaxUses = 3
  MaxTime = 1
INVARIANTS
  HighRiskEndsPath
PROPERTIES
  StartedIsConcluded
