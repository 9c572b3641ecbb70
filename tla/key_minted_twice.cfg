SPECIFICATION Spec
CONSTANTS
  k1 = k1
  k2 = k2
  s1 = s1
  NoKey = NoKey
  Keys = {k1}
  ByRef = {k1}
  Secrets = {s1}
  SecretName <- OneSecret
  Bounds <- OneBehind
INVARIANTS
  ReadyKeyInSecret
CHECK_DEADLOCK FALSE
