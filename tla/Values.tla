------------------------------- MODULE Values -------------------------------
(***************************************************************************)
(* The typed value of the observer (common/value.h) and the per-tag        *)
(* behaviours of common/type/*.cpp that the operators rely on: compare,    *)
(* the CHARS -> DATES / INTS casts, cast_cost and DATES rendering.          *)
(*                                                                         *)
(* Data abstraction.  A value is a record [tag, v].  FLOATS carry an       *)
(* integer payload (the properties only need the sign of a difference).    *)
(* CHARS carry the sequence of their bytes (ASCII codes); the models use   *)
(* digits, '-', '+', ' ', '/' and 'x', enough for sscanf's %d and the byte *)
(* order of compare_string.  VECTORS carry a sequence of FLOATS            *)
(* payloads.  DATES carry the integer y*10000+m*100+d.                     *)
(***************************************************************************)
EXTENDS Integers, Sequences

Tags == {"INTS", "FLOATS", "DATES", "CHARS", "VECTORS", "NULLS"}

NullValue == [tag |-> "NULLS", v |-> 0]
IsNull(x) == x.tag = "NULLS"

\* The sentinel VectorType::compare returns for vectors of different length.
INT32_MAX == 2147483647

\* ASCII codes of the characters the models use.
Blank == 32
Plus  == 43
Minus == 45
Slash == 47
Digits == 48..57
LetterX == 120

Sign(n) == IF n < 0 THEN -1 ELSE IF n > 0 THEN 1 ELSE 0

\* common::compare_int / compare_float: the sign of left - right.
compare_int(a, b) == Sign(a - b)

\* common::compare_string: strncmp over the shorter length, then the longer
\* string is greater.
RECURSIVE compare_string(_, _)
compare_string(s, t) ==
  IF s = <<>> \/ t = <<>> THEN Sign(Len(s) - Len(t))
  ELSE IF Head(s) # Head(t) THEN Sign(Head(s) - Head(t))
  ELSE compare_string(Tail(s), Tail(t))

-----------------------------------------------------------------------------
(***************************************************************************)
(* sscanf's %d: skip blanks, an optional sign, at least one digit.         *)
(* ScanInt(s) is [ok, val, rest].                                          *)
(***************************************************************************)
RECURSIVE DigitRun(_, _)
DigitRun(s, acc) ==
  IF s # <<>> /\ Head(s) \in Digits THEN DigitRun(Tail(s), acc * 10 + Head(s) - 48)
  ELSE [val |-> acc, rest |-> s]

\* The digits after the optional sign of a %d conversion.
ScanBody(s, neg, body) ==
  IF body = <<>> \/ Head(body) \notin Digits
    THEN [ok |-> FALSE, val |-> 0, rest |-> s]
    ELSE LET run == DigitRun(body, 0) IN
         [ok |-> TRUE, val |-> IF neg THEN -run.val ELSE run.val, rest |-> run.rest]

RECURSIVE ScanInt(_)
ScanInt(s) ==
  IF s # <<>> /\ Head(s) = Blank THEN ScanInt(Tail(s))
  ELSE IF s # <<>> /\ Head(s) \in {Minus, Plus} THEN ScanBody(s, Head(s) = Minus, Tail(s))
  ELSE ScanBody(s, FALSE, s)

\* sscanf(text, "%d-%d-%d", &y, &m, &d) == 3; trailing text is ignored.
\* Each conversion starts after the '-' that ends the previous one.
NoDate == [ok |-> FALSE, y |-> 0, m |-> 0, d |-> 0]
FollowedByMinus(f) == f.ok /\ f.rest # <<>> /\ Head(f.rest) = Minus

ScanDay(y, m, d) ==
  IF d.ok THEN [ok |-> TRUE, y |-> y.val, m |-> m.val, d |-> d.val] ELSE NoDate

ScanMonth(y, m) ==
  IF FollowedByMinus(m) THEN ScanDay(y, m, ScanInt(Tail(m.rest))) ELSE NoDate

ScanYear(y) ==
  IF FollowedByMinus(y) THEN ScanMonth(y, ScanInt(Tail(y.rest))) ELSE NoDate

ScanDate(s) == ScanYear(ScanInt(s))

MonthDays == <<31, 28, 31, 30, 31, 30, 31, 31, 30, 31, 30, 31>>

\* Mutant: every fourth year taken for a leap year.
my_check_date_every4(y, m, d) ==
  LET leap == y % 4 = 0
  IN /\ y > 0 /\ y <= 9999 /\ m > 0 /\ m < 13 /\ d > 0
     /\ d <= MonthDays[m] + (IF m = 2 /\ leap THEN 1 ELSE 0)

\* my_check_date (char_type.cpp); my2_check_date (index_scan) is the same
\* test applied to the decoded integer.
my_check_date(y, m, d) ==
  LET leap == y % 400 = 0 \/ (y % 100 # 0 /\ y % 4 = 0)
  IN /\ y > 0 /\ y <= 9999 /\ m > 0 /\ m < 13 /\ d > 0
     /\ d <= MonthDays[m] + (IF m = 2 /\ leap THEN 1 ELSE 0)

\* C++ '/' and '%' truncate toward zero.
CDiv(a, b) == IF a >= 0 THEN a \div b ELSE -((-a) \div b)
CMod(a, b) == a - b * CDiv(a, b)

my2_check_date(x) ==
  my_check_date(CDiv(x, 10000), CDiv(CMod(x, 10000), 100), CMod(x, 100))

\* CharType::cast_to: [rc, value].  p is the result of the scan.
DateCastOf(p) ==
  IF p.ok /\ my_check_date(p.y, p.m, p.d)
    THEN [rc |-> "SUCCESS", value |-> [tag |-> "DATES", v |-> p.y * 10000 + p.m * 100 + p.d]]
    ELSE [rc |-> "INVALID_ARGUMENT", value |-> NullValue]

IntCastOf(p) == [rc |-> "SUCCESS", value |-> [tag |-> "INTS", v |-> IF p.ok THEN p.val ELSE 0]]

CastChars(val, type) ==
  CASE type = "DATES" -> DateCastOf(ScanDate(val.v))
    [] type = "INTS"  -> IntCastOf(ScanInt(val.v))
    [] OTHER          -> [rc |-> "UNIMPLEMENTED", value |-> NullValue]

\* CharType::cast_cost; INT32_MAX marks "not castable".
CastCost(type) ==
  CASE type = "CHARS" -> 0 [] type \in {"DATES", "INTS"} -> 1 [] OTHER -> INT32_MAX

\* Zero-padded decimal rendering of n >= 0 to at least w digits (setw/setfill).
RECURSIVE PadDigits(_, _)
PadDigits(n, w) ==
  IF n < 10 /\ w <= 1 THEN <<48 + n>>
  ELSE PadDigits(n \div 10, w - 1) \o <<48 + (n % 10)>>

\* DateType::to_string.
DateToString(val) ==
  PadDigits(val.v \div 10000, 4) \o <<Minus>> \o PadDigits((val.v % 10000) \div 100, 2)
    \o <<Minus>> \o PadDigits(val.v % 100, 2)

-----------------------------------------------------------------------------
(***************************************************************************)
(* compare(left, right), dispatched on the left tag.  A CHARS -> DATES     *)
(* cast that fails inside compare leaves the temporary's payload as it was *)
(* constructed (value.h zero-initialises it); DateGarbage is that payload. *)
(***************************************************************************)
DateGarbage == 0

DatePayload(c) == IF c.rc = "SUCCESS" THEN c.value.v ELSE DateGarbage
AsDate(val) == DatePayload(CastChars(val, "DATES"))

\* Value::get_int / get_float of a CHARS value parse it like %d.  Of any
\* other tag they give the number itself (value.cpp, not under src/; spec
\* 4.1: INT widens to FLOAT).
NumericOf(val) == IF val.tag = "CHARS" THEN CastChars(val, "INTS").value.v
                  ELSE val.v

CompareFloat(left, right) == compare_int(left.v, NumericOf(right))

\* The exponent of the highest set bit of n > 0.
RECURSIVE Log2(_)
Log2(n) == IF n < 2 THEN 0 ELSE 1 + Log2(n \div 2)

\* value_.int_value_ of a FLOATS value: the IEEE-754 single-precision bit
\* pattern of its (integral, |n| < 2^24) number read as a signed int32.
FloatBits(n) ==
  LET a == IF n < 0 THEN -n ELSE n
      e == Log2(a)
      bits == IF a = 0 THEN 0 ELSE (127 + e) * 2^23 + (a - 2^e) * 2^(23 - e)
  IN IF n < 0 THEN bits - 2147483647 - 1 ELSE bits

\* The int_value_ DateType::compare reads of its right operand.
IntPayload(val) == IF val.tag = "FLOATS" THEN FloatBits(val.v) ELSE val.v

\* Mutant: the operands of the CHARS branch swapped.
CompareDateCharsSwapped(left, right) ==
  IF right.tag = "CHARS" THEN compare_int(AsDate(right), left.v)
  ELSE compare_int(left.v, IntPayload(right))

\* DateType::compare: a CHARS right operand is cast to DATES; any other is
\* compared by the raw int_value_ of its payload union.
CompareDate(left, right) ==
  IF right.tag = "CHARS" THEN compare_int(left.v, AsDate(right))
  ELSE compare_int(left.v, IntPayload(right))

CompareChars(left, right) ==
  CASE right.tag = "DATES"              -> compare_int(AsDate(left), right.v)
    [] right.tag \in {"INTS", "FLOATS"} -> compare_int(NumericOf(left), right.v)
    [] OTHER                            -> compare_string(left.v, right.v)

RECURSIVE CompareElements(_, _)
CompareElements(l, r) ==
  IF l = <<>> THEN 0
  ELSE IF Head(l) < Head(r) THEN -1
  ELSE IF Head(l) > Head(r) THEN 1
  ELSE CompareElements(Tail(l), Tail(r))

CompareVector(left, right) ==
  IF Len(left.v) # Len(right.v) THEN INT32_MAX ELSE CompareElements(left.v, right.v)

Compare(left, right) ==
  CASE left.tag = "FLOATS"  -> CompareFloat(left, right)
    [] left.tag = "DATES"   -> CompareDate(left, right)
    [] left.tag = "CHARS"   -> CompareChars(left, right)
    [] left.tag = "VECTORS" -> CompareVector(left, right)
    [] left.tag = "INTS"    -> compare_int(left.v, NumericOf(right))  \* IntegerType (not under src/)
=============================================================================
