\* One open() of the operator over every child of up to three rows, with
\* child-open and expression-evaluation failures.
CONSTANTS
  K = 2
  KeyDomain <- MCKeyDomain
  MaxRows = 3
  MaxOpens = 1
  ChildMayFail = FALSE
  EvalMayFail = TRUE
  DebugBuild = FALSE
  LeafExprs <- MCLeafExprs
  Depth = 2
SPECIFICATION FairSpec
INVARIANT ProjectionReadsBack
PROPERTY ImplementsAbstractOrderBy
