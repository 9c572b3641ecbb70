SPECIFICATION Spec
CONSTANTS
  a1 = a1
  a2 = a2
  h1 = h1
  h2 = h2
  Approvers = {a1}
  NoApprover = NoApprover
  Headscales = {h1}
  NoHeadscale = NoHeadscale
  MaxLag = 1
  Bounds <- OneStale
PROPERTIES
  StatusConverges
CHECK_DEADLOCK FALSE
