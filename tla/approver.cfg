SPECIFICATION Spec
CONSTANTS
  a1 = a1
  a2 = a2
  h1 = h1
  h2 = h2
  Approvers = {a1, a2}
  NoApprover = NoApprover
  Headscales = {h1, h2}
  NoHeadscale = NoHeadscale
  MaxLag = 0
  Bounds <- Mixed
INVARIANTS
  TypeOK
  ReadyMeansApplied
  FinalizedLeavesNoEntries
PROPERTIES
  DeletionCompletes
  PolicyConverges
  StatusConverges
CHECK_DEADLOCK FALSE
