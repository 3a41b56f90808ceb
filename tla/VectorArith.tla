----------------------------- MODULE VectorArith -----------------------------
(***************************************************************************)
(* Arithmetic of the FLOATS and VECTORS behaviour objects                  *)
(* (common/type/float_type.cpp, common/type/vector_type.cpp).  Each        *)
(* operation is an operator returning the SET of outcomes [rc, out] the    *)
(* build can produce: out is <<>> when the result Value is left untouched  *)
(* and <<value>> when the operation set it.                                *)
(*                                                                         *)
(* Data abstraction.  Operands hold small integers, which float represents *)
(* exactly, and so do their sums and products: add, subtract, multiply,    *)
(* inner products and sums of squares are exact integers.  sqrt is kept    *)
(* symbolic: l2_distance is [sq |-> s] for sqrt(s).  A quotient is the     *)
(* pair <<l, r>> for l / r.  cosine_distance is 1 - ip / (sqrt(ln) *       *)
(* sqrt(rn)), kept as [ip, nn |-> ln * rn, noise]: sqrt of a number that  *)
(* is not a square is rounded, and the product of two rounded roots may   *)
(* miss ln * rn by an ulp, so the float result may be off the exact value *)
(* by a rounding error far below EPSILON (noise -1 or 1); with integer     *)
(* operands an exact value other than 0 is far above EPSILON.              *)
(***************************************************************************)
EXTENDS Values, SequencesExt

Fail(rc) == [rc |-> rc, out |-> <<>>]
Ok(val) == [rc |-> "SUCCESS", out |-> <<val>>]
Float(x) == [tag |-> "FLOATS", v |-> x]
Vector(s) == [tag |-> "VECTORS", v |-> s]

\* The scalar operator of an element-wise operation.
Combine(op, a, b) ==
  CASE op = "add" -> a + b [] op = "subtract" -> a - b [] op = "multiply" -> a * b

\* The loop `for i < l.size(): res.push_back(l[i] op r[i])`.
ElementWise(l, r, op) == [i \in 1..Len(l) |-> Combine(op, l[i], r[i])]

\* The loop `res += l[i] * r[i]` from res = 0.
Dot(l, r) == FoldSeq(+, 0, ElementWise(l, r, "multiply"))

IsSquare(n) == \E k \in 0..n : k * k = n

\* The rounding error of sqrt(ln) * sqrt(rn) in float.
Noise(ln, rn) == IF IsSquare(ln) /\ IsSquare(rn) THEN {0} ELSE {-1, 0, 1}

\* The exact value of a cosine result is 0 (1 = ip / sqrt(nn)).
CosineExactZero(c) == c.ip > 0 /\ c.ip * c.ip = c.nn

-----------------------------------------------------------------------------
\* VectorType::add / subtract / multiply.
vt_elementwise(left, right, op) ==
  IF Len(left.v) # Len(right.v) THEN {Fail("INTERNAL")}
  ELSE {Ok(Vector(ElementWise(left.v, right.v, op)))}

\* VectorType::inner_product.
vt_inner_product(left, right) ==
  IF Len(left.v) # Len(right.v) THEN {Fail("INTERNAL")}
  ELSE {Ok(Float(Dot(left.v, right.v)))}

\* VectorType::cosine_distance: no snapping of the rounding error.
vt_cosine_distance(left, right) ==
  IF Len(left.v) # Len(right.v) THEN {Fail("INTERNAL")}
  ELSE LET ln == Dot(left.v, left.v)
           rn == Dot(right.v, right.v)
       IN {Ok(Float([ip |-> Dot(left.v, right.v), nn |-> ln * rn, noise |-> e])) :
             e \in Noise(ln, rn)}

\* VectorType::l2_distance.
vt_l2_distance(left, right) ==
  IF Len(left.v) # Len(right.v) THEN {Fail("INTERNAL")}
  ELSE LET diff == ElementWise(left.v, right.v, "subtract")
       IN {Ok(Float([sq |-> Dot(diff, diff)]))}

-----------------------------------------------------------------------------
\* FloatType::add / subtract / multiply on FLOATS operands.
ft_scalar(left, right, op) == {Ok(Float(Combine(op, left.v, right.v)))}

\* FloatType::negative.
ft_negative(val) == {Ok(Float(-val.v))}

\* FloatType::divide: a divisor within EPSILON of 0 gives NULL.
ft_divide(left, right) ==
  IF right.v = 0 THEN {Ok(NullValue)} ELSE {Ok(Float(<<left.v, right.v>>))}

\* The casts at the head of FloatType's vector operations: a CHARS operand
\* is cast to VECTORS, the left one first; a failure is returned as is.
AsVector(val) ==
  IF val.tag = "CHARS" THEN CastChars(val, "VECTORS") ELSE [rc |-> "SUCCESS", value |-> val]

\* op names the VectorType loop applied to the cast operands.
WithVectors(left, right, op) ==
  LET l == AsVector(left)
      r == AsVector(right)
  IN IF l.rc # "SUCCESS" THEN {Fail(l.rc)}
     ELSE IF r.rc # "SUCCESS" THEN {Fail(r.rc)}
     ELSE CASE op = "inner_product"   -> vt_inner_product(l.value, r.value)
            [] op = "cosine_distance" -> vt_cosine_distance(l.value, r.value)
            [] op = "l2_distance"     -> vt_l2_distance(l.value, r.value)

\* FloatType::inner_product and l2_distance: the casts, then the loops of
\* VectorType's.
ft_inner_product(left, right) == WithVectors(left, right, "inner_product")
ft_l2_distance(left, right) == WithVectors(left, right, "l2_distance")

\* A result within EPSILON of 0 becomes 0.
Snap(o) ==
  IF o.rc = "SUCCESS" /\ CosineExactZero(o.out[1].v)
    THEN Ok(Float([o.out[1].v EXCEPT !.noise = 0]))
    ELSE o

\* Mutant: the snapping of FloatType::cosine_distance left out.
ft_cosine_distance_unsnapped(left, right) ==
  WithVectors(left, right, "cosine_distance")

\* FloatType::cosine_distance: the casts, the loop, and the snap to 0.
ft_cosine_distance(left, right) ==
  {Snap(o) : o \in WithVectors(left, right, "cosine_distance")}

-----------------------------------------------------------------------------
\* The operations by behaviour object and name.
VectorOps == {"inner_product", "cosine_distance", "l2_distance"}
ScalarOps == {"add", "subtract", "multiply", "divide", "negative"}

Apply(type, op, left, right) ==
  CASE type = "VECTORS" /\ op \in {"add", "subtract", "multiply"} -> vt_elementwise(left, right, op)
    [] type = "VECTORS" /\ op = "inner_product"   -> vt_inner_product(left, right)
    [] type = "VECTORS" /\ op = "cosine_distance" -> vt_cosine_distance(left, right)
    [] type = "VECTORS" /\ op = "l2_distance"     -> vt_l2_distance(left, right)
    [] type = "FLOATS" /\ op \in {"add", "subtract", "multiply"} -> ft_scalar(left, right, op)
    [] type = "FLOATS" /\ op = "divide"   -> ft_divide(left, right)
    [] type = "FLOATS" /\ op = "negative" -> ft_negative(left)
    [] type = "FLOATS" /\ op = "inner_product"   -> ft_inner_product(left, right)
    [] type = "FLOATS" /\ op = "cosine_distance" -> ft_cosine_distance(left, right)
    [] type = "FLOATS" /\ op = "l2_distance"     -> ft_l2_distance(left, right)
=============================================================================
