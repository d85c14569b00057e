SPECIFICATION Spec
CONSTANTS
  t1 = t1
  ua = ua
  ub = ub
  uc = uc
  a1 = a1
  a2 = a2
  f1 = f1
  f2 = f2
  p1 = p1
  p2 = p2
  th1 = th1
  th2 = th2
  None = None
  Torn = Torn
  Tenants <- MCTenants
  Users <- MCUsers
  Members <- MCMembers
  Admins <- MCAdmins
  Writers <- MCUsers
  Known <- MCKnown
  Apps <- MCApps
  Flows <- MCFlows
  Pats <- MCPats
  Threads <- MCThreads
  MayCrash = TRUE
  MaxRequests = 4
SYMMETRY Symmetry
CHECK_DEADLOCK FALSE
INVARIANTS
  TypeOK
  ConnectionIsConsented
  AuditTellsTheFiles
  ShownTokenLasts
PROPERTIES
  ReloadDoesNotReconnect
