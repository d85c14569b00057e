SPECIFICATION Spec
CONSTANTS
  c1 = c1
  c2 = c2
  s1 = s1
  th1 = th1
  th2 = th2
  Checks <- MCChecks
  Slugs <- MCSlugs
  Catalogs <- MCCatalogs
  Threads <- MCThreads
  MaxRequests = 3
  MaxIds = 2
  MaxDeploys = 1
SYMMETRY Symmetry
CHECK_DEADLOCK FALSE
INVARIANTS
  TypeOK
  CertificationIsEarned
  ScanCoversBaseline
