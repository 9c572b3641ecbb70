SPECIFICATION Spec
CONSTANTS
  m1 = m1
  m2 = m2
  Managers = {m1}
  Expiration = 9
  Buffer = 7
  RetryDelay = 1
  PrefixNames = {FALSE}
  Bounds <- Undisturbed
INVARIANTS
  OldKeysExpired
CHECK_DEADLOCK FALSE
