SPECIFICATION MCSpec
CONSTANTS
  Replicas = {r1, r2}
  Migrators = {m1, m2}
  Statements <- MCStatements
  Provisions <- MCProvisions
  ConfigFiles = 2
  MaxDeaths = 2
  Servers = {s1, s2}
  Named = {s1}
  Backfills = {b1, b2}
  Severities <- MCSeverities
  TopInsights = 1
  MaxClusters = 2
  MaxChanges = 2
PROPERTY LinkedOnce
CHECK_DEADLOCK FALSE
