SPECIFICATION Spec
CONSTANTS
  s1 = s1
  s2 = s2
  s3 = s3
  b1 = b1
  b2 = b2
  blank = blank
  d1 = d1
  th1 = th1
  th2 = th2
  NoSlug = NoSlug
  NoRule = NoRule
  NoBody = NoBody
  NoDraft = NoDraft
  Slugs <- MCSlugs
  Bodies <- MCBodies
  ValidBodies <- MCValidBodies
  Unexplained <- MCUnexplained
  BlankBody = blank
  DraftIds <- MCDraftIds
  Threads <- MCThreads
  MaxVersion = 2
  MaxRules = 1
  MaxRequests = 4
SYMMETRY Symmetry
CHECK_DEADLOCK FALSE
INVARIANTS
  TypeOK
  RulesWereValidated
  RuleLimitHolds
  HistoryAndAuditAgree
