SPECIFICATION Spec
CONSTANTS
  k1 = k1
  s1 = s1
  Owner = Owner
  NoUser = NoUser
  Keys = {k1}
  NoKey = NoKey
  Secrets = {s1}
  SecretName <- OneSecret
  MaxLag = 0
  Bounds <- One
INVARIANTS
  KeyBelongsToOwner
  KeyGoneWithObject
PROPERTIES
  CascadeCompletes
CHECK_DEADLOCK FALSE
