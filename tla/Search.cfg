SPECIFICATION SearchSpec
CONSTANTS
  q1 = q1
  w1 = w1
  s1 = s1
  s2 = s2
  ta = ta
  tb = tb
  ua = ua
  ub = ub
  Anonymous = Anonymous
  None = None
  Searchers <- MCOneSearcher
  Writers <- MCWriters
  Skills <- MCSkills
  Versions <- MCVersions
  Prerelease <- MCPrerelease
  Restricted <- MCRestricted
  Tenants <- MCTenants
  OwnerOf <- MCOwnerOf
  Users <- MCUsers
  TenantOf <- MCTenantOf
  Constraints <- MCConstraints
  MaxChanges = 4
CHECK_DEADLOCK FALSE
INVARIANTS
  SearchTypeOK
  SearchIsExact
  ResultsWereShared
