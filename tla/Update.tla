------------------------------- MODULE Update -------------------------------
(***************************************************************************)
(* UpdatePhysicalOperator::open (sql/operator/update_physical_operator.cpp)*)
(* for UPDATE t SET c = value WHERE ...: drain the child scan collecting   *)
(* the matched records, close it, coerce the value to c's type, then for   *)
(* every collected record delete it, set c, and insert it again through    *)
(* the transaction.  open() is one handler that runs to completion, so it  *)
(* is one action; next() always answers RECORD_EOF and close() does        *)
(* nothing, so the statement is over once open() returns.                  *)
(*                                                                         *)
(* A record is abstracted to the value of c (a DATES value) and whether it *)
(* satisfies the WHERE condition (a column the update does not touch).     *)
(* The transaction is the no-concurrency-control one the code comment      *)
(* names (VacuousTrx): delete_record removes the record and its index      *)
(* entry, insert_record stores it under a fresh rid and fails on a         *)
(* duplicate key of a unique index on c.  Any of the three calls, and the  *)
(* child's next(), may also fail for reasons of the environment.           *)
(***************************************************************************)
EXTENDS Values, FiniteSets

CONSTANTS
  Rids,         \* rids of the table's records at the start
  RidSpace,     \* rids insert_record may hand out (a superset of Rids)
  KeyDomain,    \* DATES values c takes at the start
  ValueDomain,  \* values the SET clause may carry (DATES or CHARS)
  UniqueIndex,  \* whether c has a unique index
  ChildMayFail, \* whether the child's next() may return an error
  EnvMayFail    \* whether delete_record / update_record / insert_record may fail

ASSUME Rids \subseteq RidSpace /\ RidSpace \subseteq Nat
ASSUME UniqueIndex \in BOOLEAN /\ ChildMayFail \in BOOLEAN /\ EnvMayFail \in BOOLEAN

VARIABLES
  table,        \* rid -> [c, match] for the records the table holds
  value,        \* the SET value (values_[0])
  openFails,    \* whether the child's open() fails
  childFailAt,  \* the child's next() fails at this call (0: never)
  fails,        \* fails[i]: the trx call that fails for the i-th record, or "none"
  phase,        \* "ready", then "done" once open() returned
  rc,           \* what open() returned
  original      \* history: the table before open()

vars == <<table, value, openFails, childFailAt, fails, phase, rc, original>>

Records == [c : KeyDomain, match : BOOLEAN]
TrxFailures == {"none", "delete", "update", "insert"}

Matched(tbl) == {r \in DOMAIN tbl : tbl[r].match}

\* Rids in a fixed order, the order the child yields the matched records.
RECURSIVE SetToRidSeq(_)
SetToRidSeq(S) == IF S = {} THEN <<>>
                  ELSE LET r == CHOOSE x \in S : \A y \in S : x <= y
                       IN <<r>> \o SetToRidSeq(S \ {r})

Remove(tbl, r) == [x \in DOMAIN tbl \ {r} |-> tbl[x]]
Store(tbl, r, rec) == [x \in DOMAIN tbl \cup {r} |-> IF x = r THEN rec ELSE tbl[x]]
FreshRid(tbl) == CHOOSE x \in RidSpace \ DOMAIN tbl : \A y \in RidSpace \ DOMAIN tbl : x <= y

DuplicateKey(tbl, rec) == UniqueIndex /\ \E x \in DOMAIN tbl : tbl[x].c = rec.c

(***************************************************************************)
(* The loop over records_: delete, table update_record, insert, stopping   *)
(* at the first call that fails.  recs are the collected records.          *)
(***************************************************************************)
\* Mutant: the updated record is inserted before the old one is deleted.
RECURSIVE ApplyInsertFirst(_, _, _, _)
ApplyInsertFirst(tbl, recs, i, v) ==
  IF i > Len(recs) THEN [rc |-> "SUCCESS", tbl |-> tbl]
  ELSE LET r       == recs[i].rid
           deleted == Remove(tbl, r)
           rec     == [recs[i].rec EXCEPT !.c = v]
       IN CASE fails[i] = "delete" -> [rc |-> "DELETE_FAILED", tbl |-> tbl]
            [] fails[i] = "update" -> [rc |-> "UPDATE_FAILED", tbl |-> deleted]
            [] fails[i] = "insert" \/ DuplicateKey(tbl, rec) ->
                                      [rc |-> "INSERT_FAILED", tbl |-> deleted]
            [] OTHER -> ApplyInsertFirst(Store(deleted, FreshRid(deleted), rec), recs, i + 1, v)

RECURSIVE Apply(_, _, _, _)
Apply(tbl, recs, i, v) ==
  IF i > Len(recs) THEN [rc |-> "SUCCESS", tbl |-> tbl]
  ELSE LET r       == recs[i].rid
           deleted == Remove(tbl, r)
           rec     == [recs[i].rec EXCEPT !.c = v]  \* update_record
       IN CASE fails[i] = "delete" -> [rc |-> "DELETE_FAILED", tbl |-> tbl]
            [] fails[i] = "update" -> [rc |-> "UPDATE_FAILED", tbl |-> deleted]
            [] fails[i] = "insert" \/ DuplicateKey(deleted, rec) ->
                                      [rc |-> "INSERT_FAILED", tbl |-> deleted]
            [] OTHER -> Apply(Store(deleted, FreshRid(deleted), rec), recs, i + 1, v)

\* The value coerced to c's type: cast_to of the value's own type.
Coerce(v) == IF v.tag = "DATES" THEN [rc |-> "SUCCESS", value |-> v]
             ELSE CastChars(v, "DATES")

Init ==
  /\ table \in UNION {[S -> Records] : S \in SUBSET Rids}
  /\ UniqueIndex => \A x, y \in DOMAIN table : x # y => table[x].c # table[y].c
  /\ value \in ValueDomain
  /\ openFails \in IF EnvMayFail THEN BOOLEAN ELSE {FALSE}
  /\ childFailAt \in IF ChildMayFail THEN 0..Cardinality(Matched(table)) + 1 ELSE {0}
  /\ fails \in [1..Cardinality(Matched(table)) -> IF EnvMayFail THEN TrxFailures ELSE {"none"}]
  /\ phase = "ready"
  /\ rc = "NONE"
  /\ original = table

\* open(): a failure of the child's open() is returned at once; otherwise
\* the child's rows are collected until its next() stops returning
\* SUCCESS, whatever it returned instead; the coercion is checked after the
\* child is closed and before any record is touched.
Open ==
  /\ phase = "ready"
  /\ phase' = "done"
  /\ openFails
  /\ rc' = "INTERNAL"
  /\ UNCHANGED <<table, value, openFails, childFailAt, fails, original>>

\* open() once the child is open.
OpenCollect ==
  /\ phase = "ready"
  /\ phase' = "done"
  /\ ~openFails
  /\ LET all     == SetToRidSeq(Matched(table))
         pulled  == IF childFailAt = 0 THEN Len(all) ELSE childFailAt - 1
         records_ == [i \in 1..pulled |-> [rid |-> all[i], rec |-> table[all[i]]]]
         cast    == Coerce(value)
     IN IF cast.rc # "SUCCESS"
          THEN /\ rc' = cast.rc
               /\ UNCHANGED table
          ELSE LET res == Apply(table, records_, 1, cast.value)
               IN /\ rc' = res.rc
                  /\ table' = res.tbl
  /\ UNCHANGED <<value, openFails, childFailAt, fails, original>>

\* The statement is over.
Finished ==
  /\ phase = "done"
  /\ UNCHANGED vars

Next == Open \/ OpenCollect \/ Finished

Spec == Init /\ [][Next]_vars

-----------------------------------------------------------------------------
TypeOK ==
  /\ DOMAIN table \subseteq RidSpace
  /\ \A r \in DOMAIN table : table[r] \in Records
  /\ value \in ValueDomain
  /\ phase \in {"ready", "done"}

(***************************************************************************)
(* What open() must do (spec 4.3, 7, 8): it returns SUCCESS exactly when   *)
(* no call failed, the value could be coerced and the updated table keeps *)
(* a unique index unique; then the table holds the same rows as before     *)
(* with c replaced in every matched row and nothing else changed, however  *)
(* old and new keys collide; a failed coercion changes nothing.            *)
(***************************************************************************)
Cast == Coerce(value)

EnvFailed == openFails \/ childFailAt # 0 \/ \E i \in DOMAIN fails : fails[i] # "none"

Expected == [r \in DOMAIN original |->
               IF original[r].match THEN [original[r] EXCEPT !.c = Cast.value]
               ELSE original[r]]

UniqueOk(tbl) == UniqueIndex => \A x, y \in DOMAIN tbl : x # y => tbl[x].c # tbl[y].c

RowsOf(tbl) == {tbl[r] : r \in DOMAIN tbl}
SameRows(t1, t2) ==
  \A rec \in RowsOf(t1) \cup RowsOf(t2) :
    Cardinality({r \in DOMAIN t1 : t1[r] = rec}) = Cardinality({r \in DOMAIN t2 : t2[r] = rec})

UpdateOutcome ==
  phase = "done" =>
    /\ (rc = "SUCCESS") = (~EnvFailed /\ Cast.rc = "SUCCESS" /\ UniqueOk(Expected))
    /\ rc = "SUCCESS" => SameRows(table, Expected)
    /\ Cast.rc # "SUCCESS" \/ openFails => table = original
=============================================================================
