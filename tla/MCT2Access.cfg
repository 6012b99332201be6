SPECIFICATION MCSpec
CONSTANTS
  c1 = c1
  c2 = c2
  s1 = s1
  s2 = s2
  u1 = u1
  u2 = u2
  a1 = a1
  Actors = {a1}
  Clusters <- MCClusters
  Streams <- MCStreams
  ClusterOf <- MCClusterOf
  Scripts <- MCScripts
  Asks <- MCAsks
  Moving <- MCMoving
  Tabs <- MCTabs
  Capacity = 1
  MaxAudit = 2
  Plans <- MCPlans
  Members <- MCMembers
  Depths <- MCDepths
  MonthWindow = 3
  DayWindow = 1
  MaxKeys = 2
  MaxNow = 4
  MaxCopies = 2
  MaxRows = 3
INVARIANTS
  EgressAudited
  EgressGated
  PagesCurrent
