SPECIFICATION DraftsSpec
CONSTANTS
  d1 = d1
  d2 = d2
  th1 = th1
  th2 = th2
  s1 = s1
  s2 = s2
  v1 = v1
  f1 = f1
  f2 = f2
  c1 = c1
  c2 = c2
  Nothing = Nothing
  Drafts <- MCDraftIds
  Workers <- MCWorkers
  Skills <- MCSkills
  Versions <- MCVersions
  Root = Root
  Legacy <- MCLegacy
  Seeds <- MCSeeds
  Files <- MCFiles
  Contents <- MCContents
  MaxDraftRequests = 4
  MaxOverlapping = 3
SYMMETRY Symmetry
CHECK_DEADLOCK FALSE
INVARIANTS
  DraftsTypeOK
  BranchMirrorsDraft
  ReleaseMatchesPublication
PROPERTIES
  DraftsAreKept
