SPECIFICATION Spec
CONSTANTS
  k1 = k1
  k2 = k2
  s1 = s1
  NoKey = NoKey
  Keys = {k1, k2}
  ByRef = {k1}
  Secrets = {s1}
  SecretName <- SharedSecret
  Bounds <- Mixed
INVARIANTS
  TypeOK
  FinalizerBeforeMint
  RecordedKeyInSecret
  LeaksBounded
PROPERTIES
  DeletesOnlyOwnKey
  DeletionCompletes
  StatusConverges
CHECK_DEADLOCK FALSE
