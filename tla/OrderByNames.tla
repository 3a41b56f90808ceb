---------------------------- MODULE OrderByNames ----------------------------
(***************************************************************************)
(* How the ORDER BY operators name their output cells, and how the parent  *)
(* reads a sorted row back through those names.                           *)
(*                                                                         *)
(* OrderByLogicalOperator (order_by_logical_operator.cpp/.h) carries the   *)
(* ORDER BY keys and the statement's projection expressions to the        *)
(* physical plan.  The OrderByPhysicalOperator constructor walks each      *)
(* projection expression with set_names, collecting for every field and   *)
(* aggregate leaf a TupleCellSpec (names) and the leaf itself              *)
(* (name_exprs).  get_key_values evaluates name_exprs on every child row  *)
(* (ans_values), and next() hands that list out as cur_tuple, a           *)
(* ValueListTuple whose names were set at construction.  The parent then  *)
(* evaluates the projection expressions over cur_tuple.                   *)
(*                                                                         *)
(* Expression nodes are records with the field `type` of ExprType; a       *)
(* missing child (nullptr) is NoExpr.  Values are abstracted to terms: a  *)
(* leaf read from the child row yields the leaf's own cell spec, and an    *)
(* inner node yields its type applied to its children's terms, so two      *)
(* evaluations agree exactly when they read the same cells.                *)
(***************************************************************************)
EXTENDS Sequences, SequencesExt

CONSTANTS
  LeafExprs,  \* the FIELD, AGGREGATION and VALUE expressions of a statement
  Depth       \* most levels of inner nodes above a leaf

NoExpr == [type |-> "NONE"]

Field(t, f) == [type |-> "FIELD", table |-> t, field |-> f]
Aggregate(n) == [type |-> "AGGREGATION", name |-> n]
ValueExpr(v) == [type |-> "VALUE", value |-> v]
Cast(c) == [type |-> "CAST", child |-> c]
Comparison(l, r) == [type |-> "COMPARISON", left |-> l, right |-> r]
Conjunction(cs) == [type |-> "CONJUNCTION", children |-> cs]
Arithmetic(l, r) == [type |-> "ARITHMETIC", left |-> l, right |-> r]

\* Every expression tree of at most d levels over LeafExprs; an arithmetic
\* node with no right child is a unary negation.
RECURSIVE Trees(_)
Trees(d) ==
  IF d = 0 THEN LeafExprs
  ELSE LET S == Trees(d - 1) IN
       S \cup {Cast(c) : c \in S} \cup {Arithmetic(l, NoExpr) : l \in S}
         \cup {Comparison(l, r) : l, r \in S} \cup {Arithmetic(l, r) : l, r \in S}
         \cup {Conjunction(<<l>>) : l \in S} \cup {Conjunction(<<l, r>>) : l, r \in S}

\* TupleCellSpec(table, field) and TupleCellSpec(alias).
FieldSpec(e) == [table |-> e.table, field |-> e.field, alias |-> ""]
AliasSpec(n) == [table |-> "", field |-> "", alias |-> n]

-----------------------------------------------------------------------------
(***************************************************************************)
(* The operators.                                                          *)
(***************************************************************************)
\* The OrderByLogicalOperator constructor: it takes the keys and keeps a
\* copy of the projection list.
OrderByLogicalOperator(order_by, query) ==
  [order_by_expressions |-> order_by, query_exprressions |-> query]

\* Mutant: a comparison contributes the names of its left operand only.
RECURSIVE set_names_left_only(_, _)
set_names_left_only(acc, expr) ==
  CASE expr = NoExpr -> acc
    [] expr.type = "FIELD" ->
         [names |-> Append(acc.names, FieldSpec(expr)),
          name_exprs |-> Append(acc.name_exprs, expr)]
    [] expr.type = "AGGREGATION" ->
         [names |-> Append(acc.names, AliasSpec(expr.name)),
          name_exprs |-> Append(acc.name_exprs, expr)]
    [] expr.type = "CAST" -> set_names_left_only(acc, expr.child)
    [] expr.type = "COMPARISON" -> set_names_left_only(acc, expr.left)
    [] expr.type = "CONJUNCTION" -> FoldLeft(set_names_left_only, acc, expr.children)
    [] expr.type = "ARITHMETIC" ->
         set_names_left_only(set_names_left_only(acc, expr.left), expr.right)
    [] OTHER -> acc

\* OrderByPhysicalOperator::set_names: acc holds names and name_exprs,
\* which every leaf extends together.  VALUE, and any type the walk does
\* not list, adds nothing.
RECURSIVE set_names(_, _)
set_names(acc, expr) ==
  CASE expr = NoExpr -> acc
    [] expr.type = "FIELD" ->
         [names |-> Append(acc.names, FieldSpec(expr)),
          name_exprs |-> Append(acc.name_exprs, expr)]
    [] expr.type = "AGGREGATION" ->
         [names |-> Append(acc.names, AliasSpec(expr.name)),
          name_exprs |-> Append(acc.name_exprs, expr)]
    [] expr.type = "CAST" -> set_names(acc, expr.child)
    [] expr.type = "COMPARISON" -> set_names(set_names(acc, expr.left), expr.right)
    [] expr.type = "CONJUNCTION" -> FoldLeft(set_names, acc, expr.children)
    [] expr.type = "ARITHMETIC" -> set_names(set_names(acc, expr.left), expr.right)
    [] OTHER -> acc

\* The OrderByPhysicalOperator constructor: set_names over every
\* projection expression, in order, then cur_tuple.set_names(names).
OrderByPhysicalOperator(order_by, query) ==
  LET walked == FoldLeft(set_names, [names |-> <<>>, name_exprs |-> <<>>], query)
  IN [order_by_expressions |-> order_by, query_exprressions |-> query,
      name_exprs |-> walked.name_exprs, names |-> walked.names]

\* The physical plan reads the logical operator's two lists.
PhysicalFromLogical(lop) ==
  OrderByPhysicalOperator(lop.order_by_expressions, lop.query_exprressions)

-----------------------------------------------------------------------------
(***************************************************************************)
(* Tuples and evaluation.  A tuple is [specs, cells]; find_cell returns   *)
(* the first cell whose name is the one asked for (<<v>>), or NOTFOUND    *)
(* (<<>>).  get_value fails when a leaf's cell is not found and passes    *)
(* a child's failure up.                                                  *)
(***************************************************************************)
FindCell(tuple, spec) ==
  LET hits == {i \in 1..Len(tuple.specs) : tuple.specs[i] = spec}
  IN IF hits = {} THEN <<>> ELSE <<tuple.cells[Min(hits)]>>

RECURSIVE get_value(_, _)
get_value(e, tuple) ==
  LET Node(args) ==
        IF \E i \in 1..Len(args) : args[i] = <<>> THEN <<>>
        ELSE <<[op |-> e.type, args |-> [i \in 1..Len(args) |-> args[i][1]]]>>
  IN CASE e.type = "FIELD" -> FindCell(tuple, FieldSpec(e))
       [] e.type = "AGGREGATION" -> FindCell(tuple, AliasSpec(e.name))
       [] e.type = "VALUE" -> <<e.value>>
       [] e.type = "CAST" -> Node(<<get_value(e.child, tuple)>>)
       [] e.type = "CONJUNCTION" ->
            Node([i \in 1..Len(e.children) |-> get_value(e.children[i], tuple)])
       [] e.type \in {"COMPARISON", "ARITHMETIC"} /\ e.right = NoExpr ->
            Node(<<get_value(e.left, tuple)>>)
       [] e.type \in {"COMPARISON", "ARITHMETIC"} ->
            Node(<<get_value(e.left, tuple), get_value(e.right, tuple)>>)

\* The child's current tuple: a cell for every field and aggregate, holding
\* the term that stands for its value.
ChildRow ==
  LET leaves == SetToSeq({e \in LeafExprs : e.type \in {"FIELD", "AGGREGATION"}})
      spec(e) == IF e.type = "FIELD" THEN FieldSpec(e) ELSE AliasSpec(e.name)
  IN [specs |-> [i \in 1..Len(leaves) |-> spec(leaves[i])],
      cells |-> [i \in 1..Len(leaves) |-> spec(leaves[i])]]

\* get_key_values: all_values, name_exprs evaluated on the child's tuple.
ProjectedValues(op, row) ==
  [i \in 1..Len(op.name_exprs) |-> get_value(op.name_exprs[i], row)[1]]

\* next() and current_tuple(): cur_tuple holds the row's ans_values under
\* the names given at construction.
CurrentTuple(op, row) == [specs |-> op.names, cells |-> ProjectedValues(op, row)]

\* The projection lists checked: one expression of up to Depth levels, or
\* two of one level.
QueryLists == {<<e>> : e \in Trees(Depth)} \cup {<<e, f>> : e, f \in Trees(1)}

-----------------------------------------------------------------------------
(***************************************************************************)
(* The parent's read-back of a row, for every projection list checked:    *)
(* evaluating each projection expression over cur_tuple gives what it     *)
(* gives over the child's row.                                            *)
(***************************************************************************)
EveryProjectionReadsBack ==
  \A q \in QueryLists :
    LET op == PhysicalFromLogical(OrderByLogicalOperator(<<>>, q))
        cur == CurrentTuple(op, ChildRow)
    IN \A i \in 1..Len(q) : get_value(q[i], cur) = get_value(q[i], ChildRow)
=============================================================================
