SPECIFICATION ChecksSpec
CONSTANTS
  Nobody = Nobody
  Ghost = Ghost
  Replicas = {r1, r2}
  Alerts = {a1}
  NumServers = 2
  MaxRounds = 2
  Readings <- NoReadings
  Nodes = {}
  Tables = {}
  ScopedPolicies = {}
  Graph <- NoGraph
  MaxPlans = 0
  MaxPolicies = 0
PROPERTY ScreenAccurate
