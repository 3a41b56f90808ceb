------------------------------ MODULE MCOrderBy ------------------------------
(***************************************************************************)
(* Model-checking instance of OrderBy: two keys, a FLOATS key and a DATES  *)
(* key, each NULL or one of two values, so that NULLs, ties on the first   *)
(* key decided by the second, and full ties meet in rows of up to three.   *)
(***************************************************************************)
EXTENDS OrderBy

MCKeyDomain ==
  << {NullValue, [tag |-> "FLOATS", v |-> 1], [tag |-> "FLOATS", v |-> 2]},
     {NullValue, [tag |-> "DATES", v |-> 20240101], [tag |-> "DATES", v |-> 20240229]} >>
\* Two fields of the same name in two tables, an aggregate and a literal.
MCLeafExprs ==
  {Field("t", "a"), Field("u", "a"), Aggregate("sum(a)"), ValueExpr(1)}
=============================================================================
