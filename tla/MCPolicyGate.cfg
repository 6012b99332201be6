SPECIFICATION MCSpec
CONSTANTS
  Declared <- MCDeclared
  Extensions = {"pg_stat_statements"}
  Watched = {"pg_stat_statements"}
  Listed <- MCListed
  Databases = {"", "x"}
  ServerLevel = ""
  Facts0 <- MCFacts0
  MaxChanges = 2
  MaxFailures = 1
  MaxPasses = 1
  Order <- MCOrder
  Nodes = {"n1", "n2", "n3"}
  Servers = {"app", "colon"}
  ClusterName <- MCClusterName
  ClusterOf <- MCClusterOf
  NodeName <- MCNodeName
  DatabaseName <- MCDatabaseName
  FirstHome <- MCFirstHome
  Verticals = {"cache"}
  Addresses <- MCAddresses
  MaxMoves = 3
INVARIANTS
  GateFollowsPolicy
  DiscoveryHonest
  PlaceKept
PROPERTY KillSwitchStops
