SPECIFICATION Spec
CONSTANTS
  m1 = m1
  m2 = m2
  r1 = r1
  r2 = r2
  v1 = v1
  v2 = v2
  fa = fa
  fb = fb
  None = None
  Torn = Torn
  Sigstore = Sigstore
  Makers <- MCMakers
  Replicas <- MCReplicas
  Releases <- MCReleases
  Files <- MCFiles
  FilesOf <- MCFilesOf
  Budgets <- MCBudgets
  MayCrash = TRUE
  MaxRetries = 2
  MaxRedeliveries = 1
  MaxIssued = 3
SYMMETRY Symmetry
CHECK_DEADLOCK FALSE
INVARIANTS
  TypeOK
  SignaturesHold
  EventsAreAccounted
  UsageIsHonest
  InstallIsTheRelease
