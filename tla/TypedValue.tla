------------------------------ MODULE TypedValue ------------------------------
(***************************************************************************)
(* The date literal and the comparisons it meets (common/type/*_type.cpp): *)
(* a text y-m-d, rendered with or without zero padding, is cast to DATES  *)
(* by CharType::cast_to (sscanf "%d-%d-%d" and my_check_date), the stored *)
(* value is rendered by DateType::to_string, and the text is compared, as *)
(* a WHERE condition or an index bound does, with operands of every tag.   *)
(* The calendar below is written independently of the code.               *)
(*                                                                         *)
(* The other evaluations a behaviour may make are the arithmetic of the    *)
(* FLOATS and VECTORS behaviour objects (VectorArith): op names the object *)
(* and the operation, and the operands are FLOATS values for the scalar    *)
(* operations and VECTORS or vector texts for the vector ones.            *)
(***************************************************************************)
EXTENDS VectorArith

CONSTANTS
  Years, Months, Days, \* the dates the literal names
  Operands,     \* the other operands: INTS, FLOATS, DATES and CHARS values
  ArithOps,     \* the <<behaviour object, operation>> pairs evaluated
  FloatOperands,  \* FLOATS operands of the scalar operations
  VectorOperands  \* VECTORS and CHARS operands of the vector operations

VARIABLES
  y, m, d,      \* the date the text names
  padded,       \* whether month and day are written with two digits
  parsed,       \* the [rc, value] cast_to returned, NoCast before
  left, right,  \* the operands of one compare, the literal among them
  result,       \* <<>> before the call, then <<what compare returned>>
  op,           \* "compare", or the arithmetic operation of ArithOps
  outcome       \* <<>> before the operation, then <<its [rc, out]>>

vars == <<y, m, d, padded, parsed, left, right, result, op, outcome>>

NoCast == [rc |-> "NONE", value |-> NullValue]

\* The text of the literal.
Text(yr, mo, dy, pad) ==
  PadDigits(yr, 4) \o <<Minus>> \o PadDigits(mo, IF pad THEN 2 ELSE 1)
    \o <<Minus>> \o PadDigits(dy, IF pad THEN 2 ELSE 1)

Literal == [tag |-> "CHARS", v |-> Text(y, m, d, padded)]

IsVectorOp(o) == o[1] = "VECTORS" \/ o[2] \in VectorOps

\* Either a date literal, cast and compared, or one arithmetic operation;
\* an arithmetic evaluation has no literal (y, m and d are 0).
Init ==
  /\ parsed = NoCast /\ result = <<>> /\ outcome = <<>>
  /\ \/ /\ op = "compare"
        /\ y \in Years /\ m \in Months /\ d \in Days
        /\ padded \in BOOLEAN
        /\ left \in Operands \cup {Literal} /\ right \in Operands \cup {Literal}
     \/ /\ op \in ArithOps
        /\ y = 0 /\ m = 0 /\ d = 0 /\ padded = FALSE
        /\ LET Ops == IF IsVectorOp(op) THEN VectorOperands ELSE FloatOperands
           IN left \in Ops /\ right \in Ops

\* cast_to(CHARS value, DATES).
Cast ==
  /\ op = "compare" /\ parsed = NoCast
  /\ parsed' = CastChars(Literal, "DATES")
  /\ UNCHANGED <<y, m, d, padded, left, right, result, op, outcome>>

\* left.compare(right).
Evaluate ==
  /\ op = "compare" /\ result = <<>>
  /\ result' = <<Compare(left, right)>>
  /\ UNCHANGED <<y, m, d, padded, parsed, left, right, op, outcome>>

\* The arithmetic operation, by the behaviour object op[1].
Arithmetic ==
  /\ op # "compare" /\ outcome = <<>>
  /\ \E o \in Apply(op[1], op[2], left, right) : outcome' = <<o>>
  /\ UNCHANGED <<y, m, d, padded, parsed, left, right, result, op>>

Done ==
  /\ op = "compare" => parsed # NoCast /\ result # <<>>
  /\ op # "compare" => outcome # <<>>
  /\ UNCHANGED vars

Next == Cast \/ Evaluate \/ Arithmetic \/ Done

Spec == Init /\ [][Next]_vars

-----------------------------------------------------------------------------
\* The Gregorian calendar, for reference: thirty days hath September, April,
\* June and November; February has 29 days in years divisible by 4 and not
\* by 100, or divisible by 400.
LeapYear(yr) == (yr % 4 = 0 /\ yr % 100 # 0) \/ yr % 400 = 0
DaysIn(yr, mo) == CASE mo \in {4, 6, 9, 11} -> 30
                    [] mo = 2 -> IF LeapYear(yr) THEN 29 ELSE 28
                    [] OTHER -> 31
IsCalendarDate(yr, mo, dy) == yr \in 1..9999 /\ mo \in 1..12 /\ dy \in 1..DaysIn(yr, mo)

(***************************************************************************)
(* A date literal is accepted exactly when it names a day of the calendar  *)
(* (spec 4.1: validity enforced at cast time), it is stored as            *)
(* y*10000+m*100+d, and DateType::to_string of the stored value gives the  *)
(* zero-padded text back, whichever padding the literal used.              *)
(***************************************************************************)
DateCastCorrect ==
  parsed # NoCast =>
    /\ (parsed.rc = "SUCCESS") = IsCalendarDate(y, m, d)
    /\ parsed.rc = "SUCCESS" =>
         /\ parsed.value = [tag |-> "DATES", v |-> y * 10000 + m * 100 + d]
         /\ DateToString(parsed.value) = Text(y, m, d, TRUE)

(***************************************************************************)
(* DateType::compare and CharType::compare agree: a date compared with a   *)
(* text, or a text with a date, gives the opposite sign when the operands *)
(* are swapped, each side casting the text with CharType::cast_to and a    *)
(* failed cast comparing its temporary's zero payload; every result is    *)
(* -1, 0 or 1.  INTS and FLOATS operands are left out: their side of the   *)
(* comparison (IntegerType::compare, Value::get_float) is not under src/. *)
(***************************************************************************)
CompareAntisymmetric ==
  result # <<>> /\ {left.tag, right.tag} \subseteq {"DATES", "CHARS"} =>
    /\ result[1] \in {-1, 0, 1}
    /\ Compare(right, left) = -result[1]

(***************************************************************************)
(* The vector contract of spec section 8: an operation that fails leaves   *)
(* the result Value untouched; operands of different lengths fail with    *)
(* INTERNAL; inner_product and l2_distance give the same value with the   *)
(* operands swapped; and cosine_distance of a non-zero vector with itself *)
(* is exactly 0, the rounding error of the norms being snapped away.      *)
(***************************************************************************)
VectorOpContract ==
  op # "compare" /\ IsVectorOp(op) /\ outcome # <<>> =>
    LET o == outcome[1] IN
    /\ o.rc # "SUCCESS" => o.out = <<>>
    /\ left.tag = "VECTORS" /\ right.tag = "VECTORS" /\ Len(left.v) # Len(right.v)
         => o.rc = "INTERNAL"
    /\ op[2] \in {"inner_product", "l2_distance"} /\ o.rc = "SUCCESS"
         => Apply(op[1], op[2], right, left) = {o}
    /\ op[2] = "cosine_distance" /\ left = right /\ left.tag = "VECTORS"
         /\ Dot(left.v, left.v) > 0
         => o.rc = "SUCCESS" /\ CosineExactZero(o.out[1].v) /\ o.out[1].v.noise = 0
=============================================================================
