SPECIFICATION Spec
CONSTANTS
  s1 = s1
  s2 = s2
  Specs <- Variety
  Secrets = {s1, s2}
  MaxLag = 1
  Bounds <- EditAndFault
INVARIANTS
  TypeOK
  RunsHashedConfig
  StatusAfterChildren
  SecretDeleted
CHECK_DEADLOCK FALSE
PROPERTIES
  DeletesOnlyManagedSecret
  ChildrenConverge
  StatusConverges
  RunsLastConfig
