SPECIFICATION FairSpec
CONSTANTS
  t1 = t1
  t2 = t2
  Thread = {t1, t2}
  Endpoint = {e1}
  Registry = registry
  None = None
  Sum <- Sums
  MaxConnections = 2
  Retries = 2
  Ttl = 1
  MaxCalls <- Calls
  MaxChanges = 2
  MaxFaults = 1
INVARIANTS OnlyDiscoveryLeaks ExecutedForAttempts OwnAnswer FreshEndpoints
PROPERTIES CallsEnd
CHECK_DEADLOCK FALSE
