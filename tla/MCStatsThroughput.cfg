SPECIFICATION StoreSpec
CONSTANTS
  s1 = s1
  s2 = s2
  m1 = m1
  m2 = m2
  m3 = m3
  ServerOf <- NoServers
  Content <- NoServers
  RateBurst = 1
  MaxRefills = 1
  Snapshots = {}
  Servers = {s1}
  Domains <- MCDomains
  Observations <- MCObservations
  TTL = 1
  RawTTL = 0
  MaxTime = 3
  MaxSnapshots = 2
  MaxCalls = 1
  InFlight = 1
INVARIANT ThroughputIsVolume
CHECK_DEADLOCK FALSE
