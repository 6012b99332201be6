SPECIFICATION DecisionsSpec
CONSTANTS
  Nobody = Nobody
  Ghost = Ghost
  Replicas = {}
  Alerts = {}
  NumServers = 1
  MaxRounds = 0
  Readings <- MCReadings
  Nodes <- MCNodes
  Tables <- MCTables
  ScopedPolicies <- MCPolicies
  Graph <- MCGraph
  MaxPlans = 2
  MaxPolicies = 3
INVARIANTS
  OneDiagnosis
  FilterAdvised
  FourTiers
PROPERTIES
  WorseNeverWeaker
CHECK_DEADLOCK FALSE
