SPECIFICATION Spec
CONSTANTS
  r1 = r1
  r2 = r2
  r3 = r3
  Research = "research"
  Requests = {r1, r2, r3}
  MaxInFlight = 2
  Capabilities <- MCCapabilities
  Escalations = {"high"}
  Reloadable = TRUE
  GraphRules <- MCRules
  GraphPolicy <- MCPolicy
  ReusePolicy <- MCReuse
  Ttl <- MCTtl
  MaxRequests <- MCMaxRequests
  MaxSessions = 3
  MaxUses = 3
  MaxTime = 1
SYMMETRY Symmetry
INVARIANTS
  UsesAreAccountedFor
  OvershootIsBounded
  DownOnlyAfterInterference
