SPECIFICATION ClientSpec
CONSTANTS
  Ttl = 1
  MaxRequests = 2
  MaxTime = 1
  MaxCalls = 3
  MaxReads = 1
  MaxCrashes = 1
CHECK_DEADLOCK FALSE
INVARIANTS
  AuditIsExact
  OutcomesAreTrue
  OrphansAreNeverDecided
PROPERTIES
  NoCallWaitsForEver
