SPECIFICATION FairSpec
CONSTANTS
  r1 = r1
  r2 = r2
  r3 = r3
  Research = "research"
  Requests = {r1, r2}
  MaxInFlight = 2
  Capabilities <- MCSearchOnly
  Escalations = {}
  Reloadable = FALSE
  GraphRules <- MCRules
  GraphPolicy <- MCLongerPolicy
  ReusePolicy <- MCReuse
  Ttl <- MCLongTtl
  MaxRequests <- MCMaxRequests
  MaxSessions = 2
  MaxUses = 3
  MaxTime = 0
PROPERTIES
  StartedIsConcluded
