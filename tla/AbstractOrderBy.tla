--------------------------- MODULE AbstractOrderBy ---------------------------
(***************************************************************************)
(* What an ORDER BY operator promises its parent (spec 4.3, 7 and 8):      *)
(* open() either fails with an error, or succeeds and then next() yields   *)
(* every row of the child exactly once, ordered by the keys (NULL first    *)
(* for an ascending key and last for a descending one), rows with equal    *)
(* keys in the order the child produced them.  If two key values are      *)
(* incomparable (the compare sentinel) open() must fail.                   *)
(*                                                                         *)
(* Rows are named by their position 1..Len(rows) in the child's output;    *)
(* rows[i] is the tuple of the row's K key values, asc[k] the direction    *)
(* flag of key k.                                                          *)
(***************************************************************************)
EXTENDS Values, FiniteSets

CONSTANT K
VARIABLES rows, asc, aState, result, emitted

\* Order of two values of one key column, before the direction is applied:
\* NULL is the least value, then the typed compare.
ColumnOrder(x, y) ==
  CASE IsNull(x) /\ IsNull(y) -> 0
    [] IsNull(x)              -> -1
    [] IsNull(y)              -> 1
    [] OTHER                  -> Compare(x, y)

RECURSIVE KeyOrder(_, _, _)
KeyOrder(x, y, k) ==
  IF k > K THEN 0
  ELSE LET c == IF asc[k] THEN ColumnOrder(x[k], y[k]) ELSE -ColumnOrder(x[k], y[k])
       IN IF c # 0 THEN c ELSE KeyOrder(x, y, k + 1)

\* Row j precedes row i in the ordered output.
Precedes(j, i) ==
  LET c == KeyOrder(rows[j], rows[i], 1) IN c < 0 \/ (c = 0 /\ j < i)

\* The ordered output: the row with p-1 predecessors is at position p.
Ordered ==
  LET n == Len(rows)
      rank(i) == 1 + Cardinality({j \in 1..n : Precedes(j, i)})
  IN [p \in 1..n |-> CHOOSE i \in 1..n : rank(i) = p]

Comparable ==
  \A i, j \in 1..Len(rows) : \A k \in 1..K :
    ~IsNull(rows[i][k]) /\ ~IsNull(rows[j][k]) => Compare(rows[i][k], rows[j][k]) \in {-1, 0, 1}

vars == <<rows, asc, aState, result, emitted>>

Init ==
  /\ aState = "closed"
  /\ result = <<>>
  /\ emitted = <<>>

Open ==
  /\ aState = "closed"
  /\ emitted' = <<>>
  /\ \/ /\ aState' = "failed"
        /\ result' = <<>>
     \/ /\ Comparable
        /\ aState' = "open"
        /\ result' = Ordered
  /\ UNCHANGED <<rows, asc>>

Next1 ==
  /\ aState = "open"
  /\ Len(emitted) < Len(result)
  /\ emitted' = Append(emitted, result[Len(emitted) + 1])
  /\ UNCHANGED <<rows, asc, aState, result>>

Exhausted ==
  /\ aState = "open"
  /\ Len(emitted) = Len(result)
  /\ aState' = "eof"
  /\ UNCHANGED <<rows, asc, result, emitted>>

Close ==
  /\ aState # "closed"
  /\ aState' = "closed"
  /\ result' = <<>>
  /\ UNCHANGED <<rows, asc, emitted>>

Next == Open \/ Next1 \/ Exhausted \/ Close

Spec == Init /\ [][Next]_vars

\* A parent that keeps calling next() on an open operator gets every row
\* and then the end of the rows, unless it closes the operator first.
LiveSpec == Spec /\ WF_vars(Next1) /\ WF_vars(Exhausted)
=============================================================================
