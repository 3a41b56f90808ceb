------------------------------ MODULE SelectStmt ------------------------------
(***************************************************************************)
(* SelectStmt::create (sql/stmt/select_stmt.cpp): binding a parsed SELECT  *)
(* into a statement, beside UpdateStmt::create and DeleteStmt::create      *)
(* (update_stmt.cpp, delete_stmt.cpp) which bind one table, the SET       *)
(* fields and the WHERE filter.  The FROM clause is a list of inner-join groups, each *)
(* a list of tables joined ON one condition per table after the first     *)
(* (shamama / my_get_relation); then the select list, the WHERE condition, *)
(* GROUP BY, ORDER BY and HAVING are bound, and the WHERE filter is built. *)
(*                                                                         *)
(* The catalogue lookup, the expression binder and FilterStmt::create are  *)
(* outside this code: each call is named by a tuple and the set fail says  *)
(* which of them fail.  create() runs to completion, so it is one action.  *)
(***************************************************************************)
EXTENDS Integers, Sequences, FiniteSets

CONSTANTS
  Shapes,       \* FROM clauses: sequences of join-group sizes
  MaxExprs,     \* most select / GROUP BY / ORDER BY expressions
  MaxFails,     \* most failing calls in one create()
  WhereFilterMayFail \* whether FilterStmt::create of a SELECT's WHERE may fail

VARIABLES
  kind,         \* "select", "update" or "delete"
  shape,        \* the FROM clause (one table for update / delete)
  nSelect, nGroup, nOrder, \* numbers of expressions (nSelect: SET fields of an update)
  hasWhere, hasHaving,
  dbNull,       \* db == nullptr
  fail,         \* the environment calls that fail
  rc,           \* what create() returned ("NONE" before)
  stmt          \* "null" or "set"

vars == <<kind, shape, nSelect, nGroup, nOrder, hasWhere, hasHaving, dbNull, fail, rc, stmt>>

\* The (group, table) positions of the FROM clause in the order they are bound.
Positions(s) == UNION {{<<i, j>> : j \in 1..s[i]} : i \in 1..Len(s)}

PosSeq(s) == LET n == Cardinality(Positions(s))
                 before(p, q) == p[1] < q[1] \/ (p[1] = q[1] /\ p[2] < q[2])
                 rank(p) == Cardinality({q \in Positions(s) : before(q, p)}) + 1
             IN [k \in 1..n |-> CHOOSE p \in Positions(s) : rank(p) = k]

\* Every environment call create() may make for the inputs.
Calls(k, s, ns, ng, no, w, h) ==
  IF k # "select"
  THEN {<<"find", 1, 1>>, <<"filterWhere", 0, 0>>}
       \cup (IF k = "update" THEN {<<"field", e, 0>> : e \in 1..ns} ELSE {})
       \cup (IF w THEN {<<"bindWhere", 0, 0>>} ELSE {})
  ELSE
     {<<"find", p[1], p[2]>> : p \in Positions(s)}
  \cup {<<"bindJoin", p[1], p[2]>> : p \in {q \in Positions(s) : q[2] > 1}}
  \cup {<<"filterJoin", p[1], p[2]>> : p \in {q \in Positions(s) : q[2] > 1}}
  \cup {<<"bindSelect", e, 0>> : e \in 1..ns}
  \cup (IF w THEN {<<"bindWhere", 0, 0>>} ELSE {})
  \cup {<<"bindGroup", e, 0>> : e \in 1..ng}
  \cup {<<"bindOrder", e, 0>> : e \in 1..no}
  \cup (IF h THEN {<<"bindHaving", 0, 0>>} ELSE {})
  \cup (IF WhereFilterMayFail THEN {<<"filterWhere", 0, 0>>} ELSE {})

Fails(c) == c \in fail

-----------------------------------------------------------------------------
\* find_table_by_name.
find_table_by_name(i, j) ==
  IF Fails(<<"find", i, j>>) THEN "SCHEMA_TABLE_NOT_EXIST" ELSE "SUCCESS"

\* bound_conditions: a null condition binds to one nullptr; a failed bind
\* returns its rc with nothing bound.  Its result is whether bound_condition
\* is non-empty.
bound_conditions(hasCondition, call) == ~hasCondition \/ ~Fails(call)

\* my_get_relation: the table of position (i, j) and its ON condition (the
\* first table of a group has none).  bound_conditions' rc is ignored; an
\* empty bound_condition is INVALID_ARGUMENT.
my_get_relation(i, j) ==
  LET found == find_table_by_name(i, j) IN
  CASE found # "SUCCESS"                                -> found
    [] ~bound_conditions(j > 1, <<"bindJoin", i, j>>)   -> "INVALID_ARGUMENT"
    [] j > 1 /\ Fails(<<"filterJoin", i, j>>)           -> "FILTER_FAILED"
    [] OTHER                                            -> "SUCCESS"

\* Mutant: the loop goes on after a relation failed.
RECURSIVE ShamamaIgnoringErrors(_, _)
ShamamaIgnoringErrors(ps, k) ==
  IF k > Len(ps) THEN "SUCCESS"
  ELSE ShamamaIgnoringErrors(ps, k + 1)

\* shamama: my_get_relation for every position, stopping at the first error.
RECURSIVE ShamamaFrom(_, _)
ShamamaFrom(ps, k) ==
  IF k > Len(ps) THEN "SUCCESS"
  ELSE LET r == my_get_relation(ps[k][1], ps[k][2]) IN
       IF r # "SUCCESS" THEN r ELSE ShamamaFrom(ps, k + 1)

shamama(s) == ShamamaFrom(PosSeq(s), 1)

AnyBindFails(clause, n) == \E e \in 1..n : Fails(<<clause, e, 0>>)

\* SelectStmt::create: [rc, stmt].  The rc returned when the WHERE filter
\* cannot be built is the variable rc of the enclosing scope, which holds
\* shamama's SUCCESS.
Create ==
  LET rcFrom == shamama(shape)
      whereBound == bound_conditions(hasWhere, <<"bindWhere", 0, 0>>)
  IN CASE dbNull                                -> [rc |-> "INVALID_ARGUMENT", stmt |-> "null"]
       [] rcFrom # "SUCCESS"                    -> [rc |-> rcFrom, stmt |-> "null"]
       [] AnyBindFails("bindSelect", nSelect)   -> [rc |-> "BIND_FAILED", stmt |-> "null"]
       [] AnyBindFails("bindGroup", nGroup)     -> [rc |-> "BIND_FAILED", stmt |-> "null"]
       [] AnyBindFails("bindOrder", nOrder)     -> [rc |-> "BIND_FAILED", stmt |-> "null"]
       [] hasHaving /\ Fails(<<"bindHaving", 0, 0>>) -> [rc |-> "BIND_FAILED", stmt |-> "null"]
       [] ~whereBound                           -> [rc |-> "INVALID_ARGUMENT", stmt |-> "null"]
       [] Fails(<<"filterWhere", 0, 0>>)        -> [rc |-> rcFrom, stmt |-> "null"]
       [] OTHER                                 -> [rc |-> "SUCCESS", stmt |-> "set"]

Init ==
  /\ kind \in {"select", "update", "delete"}
  /\ shape \in IF kind = "select" THEN Shapes ELSE {<<1>>}
  /\ nSelect \in 1..MaxExprs /\ nGroup \in 0..MaxExprs /\ nOrder \in 0..MaxExprs
  /\ hasWhere \in BOOLEAN /\ hasHaving \in BOOLEAN
  /\ dbNull \in BOOLEAN
  /\ fail \in {f \in SUBSET Calls(kind, shape, nSelect, nGroup, nOrder, hasWhere, hasHaving) :
                 Cardinality(f) <= MaxFails}
  /\ rc = "NONE"
  /\ stmt = "null"

\* UpdateStmt::create and DeleteStmt::create: [rc, stmt].
UpdateDeleteCreate ==
  CASE dbNull                                    -> [rc |-> "INVALID_ARGUMENT", stmt |-> "null"]
    [] Fails(<<"find", 1, 1>>)                   -> [rc |-> "SCHEMA_TABLE_NOT_EXIST", stmt |-> "null"]
    [] kind = "update" /\ \E e \in 1..nSelect : Fails(<<"field", e, 0>>)
                                                 -> [rc |-> "SCHEMA_FIELD_NOT_EXIST", stmt |-> "null"]
    [] ~bound_conditions(hasWhere, <<"bindWhere", 0, 0>>)
                                                 -> [rc |-> "BIND_FAILED", stmt |-> "null"]
    [] Fails(<<"filterWhere", 0, 0>>)            -> [rc |-> "FILTER_FAILED", stmt |-> "null"]
    [] OTHER                                     -> [rc |-> "SUCCESS", stmt |-> "set"]

\* SelectStmt::create runs.
SelectCreate ==
  /\ kind = "select"
  /\ rc = "NONE"
  /\ rc' = Create.rc
  /\ stmt' = Create.stmt
  /\ UNCHANGED <<kind, shape, nSelect, nGroup, nOrder, hasWhere, hasHaving, dbNull, fail>>

\* UpdateStmt::create or DeleteStmt::create runs.
UpdateDeleteStmtCreate ==
  /\ kind \in {"update", "delete"}
  /\ rc = "NONE"
  /\ rc' = UpdateDeleteCreate.rc
  /\ stmt' = UpdateDeleteCreate.stmt
  /\ UNCHANGED <<kind, shape, nSelect, nGroup, nOrder, hasWhere, hasHaving, dbNull, fail>>

\* The statement has been bound (or refused).
Finished ==
  /\ rc # "NONE"
  /\ UNCHANGED vars

Next == SelectCreate \/ UpdateDeleteStmtCreate \/ Finished

Spec == Init /\ [][Next]_vars

-----------------------------------------------------------------------------
TypeOK ==
  /\ shape \in Shapes
  /\ fail \subseteq Calls(kind, shape, nSelect, nGroup, nOrder, hasWhere, hasHaving)
  /\ stmt \in {"null", "set"}

(***************************************************************************)
(* The contract of Stmt creation its callers rely on: create() returns     *)
(* SUCCESS exactly when db is valid and no lookup, bind or filter call     *)
(* failed, and it hands back a statement exactly when it returns SUCCESS   *)
(* (the caller dereferences stmt after SUCCESS and never after an error).  *)
(***************************************************************************)
CreateContract ==
  rc # "NONE" =>
    /\ (rc = "SUCCESS") = (~dbNull /\ fail = {})
    /\ (rc = "SUCCESS") = (stmt = "set")
=============================================================================
