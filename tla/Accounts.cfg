SPECIFICATION Spec
CONSTANTS
  u1 = u1
  u2 = u2
  o1 = o1
  o2 = o2
  th1 = th1
  th2 = th2
  NoUser = NoUser
  None = None
  Users <- MCUsers
  Orgs <- MCOrgs
  Threads <- MCThreads
  MayCrash = TRUE
  MaxRequests = 5
SYMMETRY Symmetry
CHECK_DEADLOCK FALSE
INVARIANTS
  TypeOK
  MembershipsAreBacked
  SessionsAreBacked
  InvitationsAreKeptInPeace
