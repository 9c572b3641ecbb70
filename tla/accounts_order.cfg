SPECIFICATION Spec
CONSTANTS
  k1 = k1
  s1 = s1
  Owner = Owner
  NoUser = NoUser
  Keys = {k1}
  NoKey = NoKey
  Secrets = {s1}
  SecretName <- OneSecret
  MaxLag = 0
  Bounds <- Calm
PROPERTIES
  FinalizerRunsFirst
CHECK_DEADLOCK FALSE
