SPECIFICATION FairSpec
CONSTANTS
  r1 = r1
  r2 = r2
  th1 = th1
  th2 = th2
  s1 = s1
  v1 = v1
  v2 = v2
  p1 = p1
  p2 = p2
  g1 = g1
  NoPackage = NoPackage
  NoEntry = NoEntry
  NoGovernance = NoGovernance
  NoTag = NoTag
  Replicas <- MCOneReplica
  Threads <- MCTwoThreads
  Skills <- MCSkills
  Tags <- MCTwoTags
  SkillOf <- MCTwoSkillOf
  Packages <- MCTwoPackages
  TagOf <- MCTwoTagOf
  Governance <- MCGovernance
  Operations <- AllOps
  MaxRequests = 3
  MaxRestarts = 2
CHECK_DEADLOCK FALSE
PROPERTIES
  Converges
