----------------------------- MODULE MCTypedValue -----------------------------
(***************************************************************************)
(* Model-checking instance of TypedValue: the literal's year, month and    *)
(* day at each limit of the calendar (the leap-year exceptions 1900 and    *)
(* 2000, month and day 0, one past the end), compared with two dates, an   *)
(* integer equal to a date's encoding, a small integer and float, a number *)
(* text and a word.  The arithmetic: every operation of FloatType, and    *)
(* VectorType's except cosine_distance (which does not snap; see the      *)
(* README), over vectors of one and two elements, one whose norm is not a *)
(* square, and the vector text "[1,1]".                                   *)
(***************************************************************************)
EXTENDS TypedValue

MCOperands ==
  {[tag |-> "DATES", v |-> 20240101], [tag |-> "DATES", v |-> 20240229],
   [tag |-> "INTS", v |-> 20240229], [tag |-> "INTS", v |-> 12],
   [tag |-> "FLOATS", v |-> 12],
   [tag |-> "CHARS", v |-> <<49, 50>>], [tag |-> "CHARS", v |-> <<LetterX>>]}

MCArithOps ==
  {<<"FLOATS", o>> : o \in ScalarOps \cup VectorOps}
    \cup {<<"VECTORS", o>> : o \in {"add", "subtract", "multiply", "inner_product", "l2_distance"}}

MCFloatOperands == {Float(0), Float(2)}

\* "[1,1]" in ASCII: '[' 91, '1' 49, ',' 44, ']' 93.
MCVectorOperands ==
  {Vector(<<1, 1>>), Vector(<<1, 2>>), Vector(<<2>>),
   [tag |-> "CHARS", v |-> <<91, 49, 44, 49, 93>>]}
=============================================================================
