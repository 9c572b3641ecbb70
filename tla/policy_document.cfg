SPECIFICATION Spec
CONSTANTS
  c1 = c1
  c2 = c2
  Cidrs = {c1, c2}
  Tags = {1, 2}
  MaxEntries = 2
  MaxTags = 2
INVARIANTS
  Merged
  OrderIndependent
CHECK_DEADLOCK FALSE
