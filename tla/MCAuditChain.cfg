SPECIFICATION MCSpec
CONSTANTS
  c1 = c1
  c2 = c2
  e1 = e1
  e2 = e2
  NoClient = NoClient
  Clients <- MCClients
  Entries <- MCEntries
  Times <- MCTimes
  MaxId = 3
  Filters <- MCFilters
  MaxShown = 2
  MaxRows = 3
INVARIANTS
  ChainLinked
  VerifyExact
  HarmSeen
PROPERTIES
  AppendEnds
  ImplementsAuditLog
CHECK_DEADLOCK FALSE
