SPECIFICATION ClientSpec
CONSTANTS
  Ttl = 1
  MaxRequests = 1
  MaxTime = 1
  MaxCalls = 2
  MaxReads = 1
  MaxCrashes = 1
CHECK_DEADLOCK FALSE
PROPERTIES
  EveryCallSettles
