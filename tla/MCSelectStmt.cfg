\* Every SELECT shape with up to one expression per clause and up to two
\* failing environment calls; the WHERE filter is always built.
CONSTANTS
  Shapes <- MCShapes
  MaxExprs = 1
  MaxFails = 2
  WhereFilterMayFail = FALSE
SPECIFICATION Spec
INVARIANT CreateContract
