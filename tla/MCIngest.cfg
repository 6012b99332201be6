SPECIFICATION IngestSpec
CONSTANTS
  s1 = s1
  s2 = s2
  m1 = m1
  m2 = m2
  m3 = m3
  Servers <- MCServers
  Snapshots <- MCSnapshots
  ServerOf <- MCServerOf
  Content <- MCContent
  RateBurst = 1
  MaxRefills = 1
  Domains = {}
  Observations <- NoObservations
  TTL = 1
  RawTTL = 0
  MaxTime = 1
  MaxSnapshots = 0
  MaxCalls = 0
  InFlight = 0
INVARIANTS
  AckOrPark
  RateBounded
PROPERTIES
  SendReturns
  ImplementsDelivery
CHECK_DEADLOCK FALSE
