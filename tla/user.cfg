SPECIFICATION Spec
CONSTANTS
  u1 = u1
  u2 = u2
  n1 = n1
  NoUser = NoUser
  Users = {u1, u2}
  Names = {n1}
  Username <- SameName
  MaxLag = 1
  Bounds <- OneOrTwo
INVARIANTS
  TypeOK
  FinalizerBeforeCreate
  RecordedIdOwned
  UnsettledHasWork
  LeftBehindPaidFor
PROPERTIES
  DeletesOnlyOwnUser
  ClearedOnlyIfMissing
  Converges
  ReadyWhenUndisturbed
CHECK_DEADLOCK FALSE
