SPECIFICATION Spec
CONSTANTS
  r1 = r1
  r2 = r2
  th1 = th1
  th2 = th2
  s1 = s1
  v1 = v1
  v2 = v2
  p1 = p1
  p2 = p2
  g1 = g1
  NoPackage = NoPackage
  NoEntry = NoEntry
  NoGovernance = NoGovernance
  NoTag = NoTag
  Replicas <- MCOneReplica
  Threads <- MCOneThread
  Skills <- MCSkills
  Tags <- MCOneTag
  SkillOf <- MCOneSkillOf
  Packages <- MCTwoPackages
  TagOf <- MCRivalTagOf
  Governance <- MCGovernance
  Operations <- RetryOps
  MaxRequests = 4
  MaxRestarts = 0
CHECK_DEADLOCK FALSE
PROPERTIES
  YankIsNotForgotten
