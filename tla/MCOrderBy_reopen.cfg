\* Two open() calls (re-execution) on the same operator object.
CONSTANTS
  K = 2
  KeyDomain <- MCKeyDomain
  MaxRows = 3
  MaxOpens = 2
  ChildMayFail = FALSE
  EvalMayFail = FALSE
  DebugBuild = FALSE
  LeafExprs <- MCLeafExprs
  Depth = 1
SPECIFICATION FairSpec
PROPERTY ImplementsAbstractOrderBy
