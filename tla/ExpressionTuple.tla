--------------------------- MODULE ExpressionTuple ---------------------------
(***************************************************************************)
(* ExpressionTuple (sql/expr/expression_tuple.h): a tuple whose cells are  *)
(* expressions evaluated lazily against an optional child tuple.  Tuples   *)
(* nest: level k (1..Depth) is an ExpressionTuple whose child_tuple_,      *)
(* once set_tuple() was called, is level k-1; level 0 is the row-backed    *)
(* tuple of the current record, whose columns are RowNames.               *)
(*                                                                         *)
(* An expression is a record [name, kind, arg]: a "value" (a literal, arg  *)
(* its value), a "field" reference (arg the name it looks up with          *)
(* find_cell in the tuple it is evaluated on), or an expression whose      *)
(* evaluation fails ("error", e.g. a failed cast).  Expressions with no    *)
(* tuple are evaluated by try_get_value, which only literals implement.    *)
(* The lists are fixed when the operators are built; set_tuple and the    *)
(* child's next() are the steps that change what the tuples read.         *)
(***************************************************************************)
EXTENDS Integers, Sequences, SequencesExt

CONSTANTS
  Depth,        \* number of nested ExpressionTuples
  Names,        \* names of cells (aliases and column names)
  RowNames,     \* the columns of the row-backed tuple at level 0
  Vals,         \* values of columns and literals
  MaxExprs,     \* most expressions of one tuple
  ExprMayFail   \* whether evaluating an expression may fail

ASSUME Depth \in Nat \ {0} /\ RowNames \subseteq Names

VARIABLES
  exprs,        \* exprs[k]: expressions_ of level k
  child,        \* child[k]: whether child_tuple_ of level k is set
  row           \* the record the level-0 tuple reads: column -> value

vars == <<exprs, child, row>>

Exprs == [name : Names, kind : {"value"}, arg : Vals]
         \cup [name : Names, kind : {"field"}, arg : Names]
         \cup (IF ExprMayFail THEN [name : Names, kind : {"error"}, arg : {0}] ELSE {})

ExprLists == UNION {[1..n -> Exprs] : n \in 0..MaxExprs}

NOTFOUND == [rc |-> "NOTFOUND", v |-> 0]

-----------------------------------------------------------------------------
\* RowTuple::find_cell at level 0.
RowFind(n) == IF n \in RowNames THEN [rc |-> "SUCCESS", v |-> row[n]] ELSE NOTFOUND

(***************************************************************************)
(* find_cell at level k: the child first; on anything but SUCCESS the own *)
(* expressions are searched by name and the first match is evaluated by  *)
(* get_value, which evaluates a field reference by find_cell on the child *)
(* tuple, or, with no child, by try_get_value (UNIMPLEMENTED for fields).  *)
(***************************************************************************)
RECURSIVE find_cell(_, _)
RECURSIVE get_value(_, _)
get_value(k, e) ==
  CASE e.kind = "value" -> [rc |-> "SUCCESS", v |-> e.arg]
    [] e.kind = "error" -> [rc |-> "INTERNAL", v |-> 0]
    [] child[k]         -> find_cell(k - 1, e.arg)
    [] OTHER            -> [rc |-> "UNIMPLEMENTED", v |-> 0]

find_cell(k, n) ==
  IF k = 0 THEN RowFind(n)
  ELSE LET inner == IF child[k] THEN find_cell(k - 1, n) ELSE NOTFOUND
           own   == SelectInSeq(exprs[k], LAMBDA x : x.name = n)
       IN CASE inner.rc = "SUCCESS" -> inner
            [] own = 0              -> NOTFOUND
            [] OTHER                -> get_value(k, exprs[k][own])

cell_num(k) == Len(exprs[k])

\* cell_at and spec_at, with the 0-based index of the code.
cell_at(k, index) ==
  IF index < 0 \/ index >= cell_num(k) THEN [rc |-> "INVALID_ARGUMENT", v |-> 0]
  ELSE get_value(k, exprs[k][index + 1])

spec_at(k, index) ==
  IF index < 0 \/ index >= cell_num(k) THEN [rc |-> "INVALID_ARGUMENT", name |-> "none"]
  ELSE [rc |-> "SUCCESS", name |-> exprs[k][index + 1].name]

-----------------------------------------------------------------------------
Init ==
  /\ exprs \in [1..Depth -> ExprLists]
  /\ child = [k \in 1..Depth |-> FALSE]
  /\ row \in [RowNames -> Vals]

\* set_tuple: an operator hands level k the tuple of level k-1, which is
\* the record itself for k = 1 and otherwise a tuple already attached.
SetTuple(k) ==
  /\ ~child[k]
  /\ k > 1 => child[k - 1]
  /\ child' = [child EXCEPT ![k] = TRUE]
  /\ UNCHANGED <<exprs, row>>

\* The scan below moves to its next record; the tuples keep their pointers.
NextRecord ==
  /\ child[1]
  /\ \E r \in [RowNames -> Vals] : r # row /\ row' = r
  /\ UNCHANGED <<exprs, child>>

Next == (\E k \in 1..Depth : SetTuple(k)) \/ NextRecord

Spec == Init /\ [][Next]_vars

-----------------------------------------------------------------------------
(***************************************************************************)
(* Name resolution as spec 4.2 states it: a nested tuple asks its inner   *)
(* tuple first and falls back to its own expressions, by name, only when  *)
(* the inner lookup reports not-found; an expression evaluated with no    *)
(* inner tuple succeeds only if it is a literal.                           *)
(***************************************************************************)
RECURSIVE Resolve(_, _)
Evaluate(k, e) ==
  CASE e.kind = "value" -> [rc |-> "SUCCESS", v |-> e.arg]
    [] e.kind = "field" /\ child[k] -> Resolve(k - 1, e.arg)
    [] OTHER -> [rc |-> "ERROR", v |-> 0]

Resolve(k, n) ==
  IF k = 0 THEN RowFind(n)
  ELSE LET inner == IF child[k] THEN Resolve(k - 1, n) ELSE NOTFOUND
           own   == SelectInSeq(exprs[k], LAMBDA e : e.name = n)
       IN IF inner.rc # "NOTFOUND" THEN inner
          ELSE IF own = 0 THEN NOTFOUND
          ELSE Evaluate(k, exprs[k][own])

Outcome(r) == IF r.rc \in {"SUCCESS", "NOTFOUND"} THEN r ELSE [rc |-> "ERROR", v |-> 0]

(***************************************************************************)
(* find_cell of every tuple of the nest gives, for every name, what the   *)
(* resolution rule above gives: the same value, not-found exactly when it *)
(* says not-found, and an error exactly when it says error.  An error of  *)
(* an inner tuple must reach the caller, not be replaced by an outer      *)
(* binding or by not-found.  With ExprMayFail TRUE, TLC finds find_cell   *)
(* turning an inner error into the outer tuple's own binding.              *)
(***************************************************************************)
FindCellResolves ==
  \A k \in 1..Depth, n \in Names : Outcome(find_cell(k, n)) = Outcome(Resolve(k, n))
=============================================================================
