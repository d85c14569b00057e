SPECIFICATION Spec
CONSTANTS
  n1 = n1
  n2 = n2
  r1 = r1
  r2 = r2
  r3 = r3
  a1 = a1
  a2 = a2
  br1 = br1
  u1 = u1
  u2 = u2
  th1 = th1
  th2 = th2
  NoLink = NoLink
  NoBranch = NoBranch
  Tenants <- MCTenants
  Repos <- MCRepos
  Names <- MCNames
  NameOf <- MCNameOf
  Branches <- MCBranches
  Users <- MCUsers
  AdminOf <- MCAdminOf
  Threads <- MCThreads
  MaxRequests = 4
SYMMETRY Symmetry
CHECK_DEADLOCK FALSE
INVARIANTS
  ReleaseWasLinked
  OneClaimUnlessStale
PROPERTIES
  ClaimsAreKept
