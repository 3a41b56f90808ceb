----------------------------- MODULE MCSelectStmt -----------------------------
(***************************************************************************)
(* Model-checking instance of SelectStmt: a FROM clause of one table, of  *)
(* two joined tables, or of two join groups of one table each.             *)
(***************************************************************************)
EXTENDS SelectStmt

MCShapes == {<<1>>, <<2>>, <<1, 1>>}
=============================================================================
