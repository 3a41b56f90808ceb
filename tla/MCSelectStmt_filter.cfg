\* FilterStmt::create of the WHERE filter may fail (a condition naming an
\* unknown column or comparing incompatible types).
CONSTANTS
  Shapes <- MCShapes
  MaxExprs = 1
  MaxFails = 1
  WhereFilterMayFail = TRUE
SPECIFICATION Spec
INVARIANT CreateContract
