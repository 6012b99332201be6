SPECIFICATION Spec
CONSTANTS
  c1 = c1
  c2 = c2
  c3 = c3
  p1 = p1
  p2 = p2
  owner = owner
  admin = admin
  NoCall = NoCall
  NoUser = NoUser
  Calls <- MCCalls
  PolicyKeys <- MCPolicies
  MaxScripts = 2
  Values <- MCValues
  Shared <- MCShared
  Users <- MCUsers
  Admins <- MCAdmins
  Requests <- MCRequests
SYMMETRY Symmetry
INVARIANTS
  OwnerOrAdmin
  ReplayMatches
PROPERTIES
  AuditedChange
  GoneForGood
CHECK_DEADLOCK FALSE
