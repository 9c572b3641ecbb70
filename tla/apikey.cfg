SPECIFICATION Spec
CONSTANTS
  m1 = m1
  m2 = m2
  Managers = {m1, m2}
  Expiration = 9
  Buffer = 7
  RetryDelay = 1
  PrefixNames = {TRUE, FALSE}
  Bounds <- OneOrTwo
INVARIANTS
  TypeOK
  PublishedKeyNotRevoked
  KeyNeverLapses
  MintsPaced
PROPERTIES
  KeepsPromise
CHECK_DEADLOCK FALSE
SYMMETRY Sidecars
