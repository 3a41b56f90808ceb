------------------------------- MODULE OrderBy -------------------------------
(***************************************************************************)
(* OrderByPhysicalOperator (sql/operator/order_by_physical_operator.cpp)   *)
(* driven by its parent through open / next / close, over a child         *)
(* operator that yields a fixed sequence of rows.                          *)
(*                                                                         *)
(* open() opens the child, then work(): now_index := 0, answer and         *)
(* key_values are cleared (ans_values is not), get_key_values() drains the *)
(* child evaluating the key and projection expressions of every row, and   *)
(* std::sort orders answer with the multi-key comparator.  All of open()   *)
(* runs to completion before it returns, so it is one action.              *)
(*                                                                         *)
(* A child row is named by its position i in the child's output; the       *)
(* projected values of row i (ans_values) are represented by i itself.     *)
(* std::sort with a comparator that is not a strict weak ordering, or one  *)
(* that reads key_values out of bounds, is undefined behaviour: the model  *)
(* lets it produce any permutation of answer.                              *)
(***************************************************************************)
EXTENDS Values, OrderByNames, FiniteSets, TLC
LOCAL INSTANCE Relation

CONSTANTS
  K,            \* number of ORDER BY keys
  KeyDomain,    \* KeyDomain[k]: the values key k takes in the child's rows
  MaxRows,      \* most rows the child yields
  MaxOpens,     \* most open() calls the parent makes on this operator
  ChildMayFail, \* whether the child's next() may return an error
  EvalMayFail,  \* whether evaluating an expression on a row may fail
  DebugBuild    \* whether ASSERT is compiled in

ASSUME K \in Nat \ {0} /\ MaxRows \in Nat /\ MaxOpens \in Nat \ {0}
ASSUME ChildMayFail \in BOOLEAN /\ EvalMayFail \in BOOLEAN /\ DebugBuild \in BOOLEAN

VARIABLES
  \* The child and the statement (fixed for a behaviour).
  rows,         \* rows[i]: the key values of the i-th row the child yields
  childFailAt,  \* the child's next() fails at this call (0: never)
  evalFail,     \* [row, in]: expression evaluation fails on this row (row 0: never)
  asc,          \* order_by_expressions_[k].first
  \* The operator.
  key_values, ans_values, answer, now_index,
  \* The parent's view.
  opState,      \* "closed", "open", "eof" (next() returned RECORD_EOF), "failed"
                \* or "aborted" (an ASSERT stopped the process)
  opens,        \* open() calls so far
  out           \* history: rows next() has returned since the last open()

vars == <<rows, childFailAt, evalFail, asc, key_values, ans_values, answer,
          now_index, opState, opens, out>>

KeyTuples == {t \in [1..K -> UNION {KeyDomain[k] : k \in 1..K}] :
                \A k \in 1..K : t[k] \in KeyDomain[k]}

-----------------------------------------------------------------------------
(***************************************************************************)
(* The comparator passed to std::sort in work(); a and b index key_values  *)
(* from 0, as in the code.                                                 *)
(***************************************************************************)
InBounds(kv, a) == a + 1 \in 1..Len(kv)

\* Mutant: NULL placed as if it were the greatest value.
RECURSIVE KeyLessNullsLast(_, _, _, _, _)
KeyLessNullsLast(a_vec, b_vec, a, b, i) ==
  IF i > K THEN a < b
  ELSE IF IsNull(a_vec[i])
         THEN IF IsNull(b_vec[i]) THEN KeyLessNullsLast(a_vec, b_vec, a, b, i + 1) ELSE ~asc[i]
  ELSE IF IsNull(b_vec[i]) THEN asc[i]
  ELSE LET result == Compare(a_vec[i], b_vec[i]) IN
       IF result # 0 THEN IF asc[i] THEN result < 0 ELSE result > 0
       ELSE KeyLessNullsLast(a_vec, b_vec, a, b, i + 1)

RECURSIVE KeyLess(_, _, _, _, _)
KeyLess(a_vec, b_vec, a, b, i) ==
  IF i > K THEN a < b
  ELSE IF IsNull(a_vec[i])
         THEN IF IsNull(b_vec[i]) THEN KeyLess(a_vec, b_vec, a, b, i + 1) ELSE asc[i]
  ELSE IF IsNull(b_vec[i]) THEN ~asc[i]
  ELSE LET result == Compare(a_vec[i], b_vec[i]) IN
       IF result # 0 THEN IF asc[i] THEN result < 0 ELSE result > 0
       ELSE KeyLess(a_vec, b_vec, a, b, i + 1)

Less(kv, a, b) == KeyLess(kv[a + 1], kv[b + 1], a, b, 1)

Incomparable(kv, a, b) == ~Less(kv, a, b) /\ ~Less(kv, b, a)

IsStrictWeakOrder(kv, S) ==
  LET lt(a, b) == Less(kv, a, b)
      eq(a, b) == Incomparable(kv, a, b)
  IN IsIrreflexiveUnder(lt, S) /\ IsTransitiveUnder(lt, S) /\ IsTransitiveUnder(eq, S)

Arrangements(s) == {[i \in 1..Len(s) |-> s[f[i]]] : f \in Permutations(1..Len(s))}

\* The orders std::sort can leave answer in.
SortOutcomes(kv, s) ==
  LET S == {s[i] : i \in 1..Len(s)} IN
  IF Len(s) < 2 THEN {s}
  ELSE IF (\A a \in S : InBounds(kv, a)) /\ IsStrictWeakOrder(kv, S)
    THEN {p \in Arrangements(s) : \A i, j \in 1..Len(p) : i < j => ~Less(kv, p[j], p[i])}
    ELSE Arrangements(s)

-----------------------------------------------------------------------------
Init ==
  /\ rows \in UNION {[1..n -> KeyTuples] : n \in 0..MaxRows}
  /\ childFailAt \in IF ChildMayFail THEN 0..Len(rows) + 1 ELSE {0}
  /\ evalFail \in [row : IF EvalMayFail THEN 0..Len(rows) ELSE {0}, in : {"key", "proj"}]
  /\ asc \in [1..K -> BOOLEAN]
  /\ key_values = <<>>
  /\ ans_values = <<>>
  /\ answer = <<>>
  /\ now_index = 0
  /\ opState = "closed"
  /\ opens = 0
  /\ out = <<>>

\* Rows the child's next() returns with SUCCESS before the loop stops.
Pulled == IF childFailAt = 0 THEN Len(rows) ELSE childFailAt - 1

\* open(): children_[0]->open(trx) fails; open returns RC::INTERNAL.
OpenChildFails ==
  /\ opState = "closed" /\ opens < MaxOpens
  /\ opens' = opens + 1
  /\ opState' = "failed"
  /\ out' = <<>>
  /\ UNCHANGED <<rows, childFailAt, evalFail, asc, key_values, ans_values,
                 answer, now_index>>

\* open() with the child open: work() and get_key_values().  A row whose
\* key expression fails pushes nothing; one whose projection fails has its
\* keys pushed but not its projected values.  Either returns the error,
\* unless the failed get_value left the Value UNDEFINED: in a debug build
\* the ASSERT that precedes the rc check then aborts.  The loop ends
\* quietly on the child's first non-SUCCESS next().
Open ==
  /\ opState = "closed" /\ opens < MaxOpens
  /\ opens' = opens + 1
  /\ out' = <<>>
  /\ now_index' = 0
  /\ LET failed == evalFail.row \in 1..Pulled
         done   == IF failed THEN evalFail.row - 1 ELSE Pulled
         keyed  == IF failed /\ evalFail.in = "proj" THEN done + 1 ELSE done
         base   == Len(ans_values)
         filled == [j \in 1..done |-> base + j - 1]
     IN /\ key_values' = [j \in 1..keyed |-> rows[j]]
        /\ ans_values' = ans_values \o [j \in 1..done |-> j]
        /\ IF failed
             THEN /\ answer' = filled
                  /\ opState' \in IF DebugBuild THEN {"failed", "aborted"} ELSE {"failed"}
             ELSE /\ answer' \in SortOutcomes(key_values', filled)
                  /\ opState' = "open"
  /\ UNCHANGED <<rows, childFailAt, evalFail, asc>>

\* next(): the row at now_index.
NextRow ==
  /\ opState = "open"
  /\ now_index < Len(answer)
  /\ out' = Append(out, ans_values[answer[now_index + 1] + 1])
  /\ now_index' = now_index + 1
  /\ UNCHANGED <<rows, childFailAt, evalFail, asc, key_values, ans_values,
                 answer, opState, opens>>

\* Mutant: past the last row next() returns without RECORD_EOF.
NextEofMissing ==
  /\ opState = "open"
  /\ now_index >= Len(answer)
  /\ UNCHANGED vars

\* next(): RECORD_EOF.
NextEof ==
  /\ opState = "open"
  /\ now_index >= Len(answer)
  /\ opState' = "eof"
  /\ UNCHANGED <<rows, childFailAt, evalFail, asc, key_values, ans_values,
                 answer, now_index, opens, out>>

\* close(): closes the child; the buffers are kept.  The parent may close
\* early (before RECORD_EOF) or after a failed open.
Close ==
  /\ opState \notin {"closed", "aborted"}
  /\ opState' = "closed"
  /\ UNCHANGED <<rows, childFailAt, evalFail, asc, key_values, ans_values,
                 answer, now_index, opens, out>>

\* The statement is over: no more open() calls.
Finished ==
  /\ opState = "closed" /\ opens = MaxOpens
  /\ UNCHANGED vars

Next == OpenChildFails \/ Open \/ NextRow \/ NextEof \/ Close \/ Finished

Spec == Init /\ [][Next]_vars

\* The parent's executor loop calls next() while it returns SUCCESS, so a
\* next() call that is possible is eventually made (it may instead close).
FairSpec == Spec /\ WF_vars(NextRow) /\ WF_vars(NextEof)

-----------------------------------------------------------------------------
TypeOK ==
  /\ rows \in Seq(KeyTuples) /\ Len(rows) <= MaxRows
  /\ childFailAt \in 0..MaxRows + 1
  /\ asc \in [1..K -> BOOLEAN]
  /\ key_values \in Seq(KeyTuples)
  /\ ans_values \in Seq(1..MaxRows)
  /\ answer \in Seq(Nat)
  /\ now_index \in 0..MaxRows
  /\ opState \in {"closed", "open", "eof", "failed", "aborted"}
  /\ opens \in 0..MaxOpens
  /\ out \in Seq(1..MaxRows)

(***************************************************************************)
(* Once next() has handed out a row, the parent reads it back through the *)
(* names the constructor gave cur_tuple: each projection expression gives *)
(* over cur_tuple what it gives over the child's row.  It needs set_names *)
(* to reach every field and aggregate leaf through casts, comparisons,    *)
(* conjunctions and (unary or binary) arithmetic, and the names to stay   *)
(* aligned with the values get_key_values computes from name_exprs.       *)
(***************************************************************************)
ProjectionReadsBack == out # <<>> => EveryProjectionReadsBack

(***************************************************************************)
(* Refinement: under the mapping below, every behaviour of the operator is *)
(* a behaviour of AbstractOrderBy, i.e. a successful open() followed by    *)
(* next() calls yields all the child's rows, once each, in ORDER BY order  *)
(* with NULL placement by direction and ties in child order; an error of   *)
(* the child or an incomparable key makes open() fail.  With the parent's *)
(* fairness, the abstract liveness too: an open operator the parent does  *)
(* not close yields all its rows and then RECORD_EOF.                     *)
(***************************************************************************)
SortedResult == [i \in 1..Len(answer) |-> ans_values[answer[i] + 1]]

AOB == INSTANCE AbstractOrderBy WITH
         aState  <- opState,
         result  <- IF opState \in {"open", "eof"} THEN SortedResult ELSE <<>>,
         emitted <- out

ImplementsAbstractOrderBy == AOB!LiveSpec
=============================================================================
