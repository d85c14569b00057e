SPECIFICATION Spec
CONSTANTS
  w1 = w1
  w2 = w2
  t1 = t1
  t2 = t2
  p1 = p1
  p2 = p2
  q1 = q1
  NoPackage = NoPackage
  Torn = Torn
  Workers <- MCWorkers
  Tags <- MCTags
  Packages <- MCPackages
  TagOf <- MCTagOf
  Backends <- MCBackends
  MayAbort = TRUE
SYMMETRY Symmetry
INVARIANTS
  OneWinner
  AuditIsTruthful
  TaggedArchiveIsWhole
  RetrySucceeds
PROPERTIES
  ImplementsCatalog
