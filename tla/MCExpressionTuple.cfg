\* Two nested expression tuples over a one-column record, with literals,
\* field references and failing expressions of up to two expressions each.
CONSTANTS
  Depth = 2
  Names = {a, b}
  RowNames = {a}
  Vals = {1, 2}
  MaxExprs = 2
  ExprMayFail = TRUE
SPECIFICATION Spec
INVARIANT FindCellResolves
