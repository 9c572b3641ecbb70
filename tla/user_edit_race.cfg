SPECIFICATION Spec
CONSTANTS
  u1 = u1
  u2 = u2
  n1 = n1
  NoUser = NoUser
  Users = {u1}
  Names = {n1}
  Username <- OneName
  MaxLag = 2
  Bounds <- OneEdit
PROPERTIES
  EventuallyReady
CHECK_DEADLOCK FALSE
