------------------------------ MODULE IndexScan ------------------------------
(***************************************************************************)
(* IndexScanPhysicalOperator (sql/operator/index_scan_physical_operator.cpp)*)
(* over a DATES-typed index, driven by a parent that opens, pulls and      *)
(* closes it, possibly several times (the inner side of a nested-loop      *)
(* join re-opens its child for every outer row).                           *)
(*                                                                         *)
(* A record is named by its rid (1..N, rid order = storage order) and      *)
(* abstracted to its indexed key (a DATES value) and the value its         *)
(* residual predicates evaluate to ("true", "false" or "error").  The      *)
(* record handler's get_record is an environment call whose answer is     *)
(* chosen at every call.  The transaction's visit_record answer for a     *)
(* record is fixed for the statement: the visibility of a record version  *)
(* to one transaction does not change while it runs.  The B+tree scanner  *)
(* (storage, not in this code) yields the entries whose key lies between  *)
(* the bounds, in (key, rid) order.                                        *)
(***************************************************************************)
EXTENDS Values, FiniteSets, SequencesExt

CONSTANTS
  Rids,         \* record ids, a set of positive integers
  KeyDomain,    \* DATES values the indexed column takes
  BoundDomain,  \* bound values the statement may carry (DATES or CHARS), or NoBound
  NoBound,      \* model value: the bound is absent
  MaxOpens,     \* most open() calls of the parent
  EnvMayFail,   \* create_scanner / record_handler / get_record may fail
  CloseAfterFailedOpen \* the parent calls close() after open() failed

ASSUME Rids \subseteq Nat \ {0} /\ MaxOpens \in Nat \ {0}

VARIABLES
  table,        \* table[rid] = [key, pred]
  left_value_, right_value_, left_inclusive_, right_inclusive_,
  index_scanner_, \* "null" or the entries the live cursor yields
  cursor,       \* entries of index_scanner_ consumed so far
  liveScanners, \* scanners created and not yet destroyed
  opState,      \* "closed", "open", "eof", "error", "failed" or "crashed"
  opens,        \* open() calls so far
  visibility,   \* visibility[rid]: what visit_record answers for the record
  emitted,      \* history: rids next() returned since the last open()
  checked       \* history: rids passed to visit_record since the last open()

vars == <<table, left_value_, right_value_, left_inclusive_, right_inclusive_,
          index_scanner_, cursor, liveScanners, opState, opens, visibility, emitted, checked>>

Records == [key : KeyDomain, pred : {"true", "false", "error"}]

\* Answers of Trx::visit_record: visible, invisible (skip the row), or an
\* error such as a lock conflict.
VisitAnswers == {"SUCCESS", "RECORD_INVISIBLE", "LOCKED"}

-----------------------------------------------------------------------------
\* IndexScanner over the entries of the table: key compared as an integer
\* with each present bound.
AboveLow(key, lo, incl)  == lo = NoBound \/ key > lo.v \/ (incl /\ key = lo.v)
BelowHigh(key, hi, incl) == hi = NoBound \/ key < hi.v \/ (incl /\ key = hi.v)

EntryLess(r, s) == table[r].key.v < table[s].key.v
                   \/ (table[r].key.v = table[s].key.v /\ r < s)

create_scanner(lo, lo_incl, hi, hi_incl) ==
  SetToSortSeq({r \in Rids : AboveLow(table[r].key.v, lo, lo_incl)
                             /\ BelowHigh(table[r].key.v, hi, hi_incl)}, EntryLess)

\* open(): a CHARS bound of a DATES index is cast with CharType::cast_to.
CastBound(b) == IF b # NoBound /\ b.tag = "CHARS" THEN CastChars(b, "DATES")
                ELSE [rc |-> "SUCCESS", value |-> b]

Init ==
  /\ table \in [Rids -> Records]
  /\ left_value_ \in BoundDomain
  /\ right_value_ \in BoundDomain
  /\ left_inclusive_ \in BOOLEAN
  /\ right_inclusive_ \in BOOLEAN
  /\ index_scanner_ = "null"
  /\ cursor = 0
  /\ liveScanners = 0
  /\ opState = "closed"
  /\ opens = 0
  /\ visibility \in [Rids -> VisitAnswers]
  /\ emitted = <<>> /\ checked = {}

OpenGuard ==
  /\ opState = "closed" /\ opens < MaxOpens
  /\ opens' = opens + 1
  /\ emitted' = <<>> /\ checked' = {}

\* open(): the left bound's cast fails.
OpenLeftCastFails ==
  /\ OpenGuard
  /\ CastBound(left_value_).rc # "SUCCESS"
  /\ opState' = "failed"
  /\ UNCHANGED <<visibility, table, left_value_, right_value_, left_inclusive_, right_inclusive_,
                 index_scanner_, cursor, liveScanners>>

\* open(): the left bound is replaced by its cast, then the right one fails.
OpenRightCastFails ==
  /\ OpenGuard
  /\ CastBound(left_value_).rc = "SUCCESS"
  /\ CastBound(right_value_).rc # "SUCCESS"
  /\ left_value_' = CastBound(left_value_).value
  /\ opState' = "failed"
  /\ UNCHANGED <<visibility, table, right_value_, left_inclusive_, right_inclusive_,
                 index_scanner_, cursor, liveScanners>>

\* open(): both bounds cast; create_scanner returns nullptr (RC::INTERNAL),
\* or the scan is set up.
OpenWithBounds ==
  /\ OpenGuard
  /\ CastBound(left_value_).rc = "SUCCESS"
  /\ CastBound(right_value_).rc = "SUCCESS"
  /\ left_value_' = CastBound(left_value_).value
  /\ right_value_' = CastBound(right_value_).value
  /\ \/ /\ EnvMayFail
        /\ opState' = "failed"
        /\ UNCHANGED <<index_scanner_, liveScanners>>
     \/ /\ index_scanner_' = create_scanner(left_value_', left_inclusive_,
                                            right_value_', right_inclusive_)
        /\ opState' = "open"
        /\ liveScanners' = liveScanners + 1
  /\ cursor' = 0
  /\ UNCHANGED <<table, left_inclusive_, right_inclusive_, visibility>>

\* Mutant: the early return forgets index_scanner->destroy().
OpenNoRecordHandlerLeaks ==
  /\ OpenGuard
  /\ EnvMayFail
  /\ CastBound(left_value_).rc = "SUCCESS"
  /\ CastBound(right_value_).rc = "SUCCESS"
  /\ left_value_' = CastBound(left_value_).value
  /\ right_value_' = CastBound(right_value_).value
  /\ opState' = "failed"
  /\ liveScanners' = liveScanners + 1
  /\ UNCHANGED <<visibility, table, left_inclusive_, right_inclusive_, index_scanner_, cursor>>

\* open(): the scanner is created, the table has no record handler, the
\* scanner is destroyed and open() returns RC::INTERNAL.
OpenNoRecordHandler ==
  /\ OpenGuard
  /\ EnvMayFail
  /\ CastBound(left_value_).rc = "SUCCESS"
  /\ CastBound(right_value_).rc = "SUCCESS"
  /\ left_value_' = CastBound(left_value_).value
  /\ right_value_' = CastBound(right_value_).value
  /\ opState' = "failed"
  /\ UNCHANGED <<visibility, table, left_inclusive_, right_inclusive_, index_scanner_,
                 cursor, liveScanners>>

-----------------------------------------------------------------------------
(***************************************************************************)
(* next(): the while loop over next_entry.  got[i] is whether get_record  *)
(* of the i-th entry succeeds.  Scan(i, ...) is [rc, pos, chk]: where the *)
(* loop stops and the rids passed to visit_record on the way.              *)
(***************************************************************************)
\* Mutant: visit_record is called before the residual predicates.
RECURSIVE ScanVisitFirst(_, _, _)
ScanVisitFirst(i, got, chk) ==
  IF i > Len(index_scanner_) THEN [rc |-> "RECORD_EOF", pos |-> i - 1, chk |-> chk]
  ELSE LET r == index_scanner_[i] IN
  CASE ~got[i]                     -> [rc |-> "GET_RECORD_FAILED", pos |-> i, chk |-> chk]
    [] visibility[r] = "RECORD_INVISIBLE" -> ScanVisitFirst(i + 1, got, chk \cup {r})
    [] visibility[r] # "SUCCESS"          -> [rc |-> visibility[r], pos |-> i, chk |-> chk \cup {r}]
    [] table[r].pred = "error"     -> [rc |-> "FILTER_FAILED", pos |-> i, chk |-> chk \cup {r}]
    [] table[r].pred = "false"     -> ScanVisitFirst(i + 1, got, chk \cup {r})
    [] OTHER                       -> [rc |-> "SUCCESS", pos |-> i, chk |-> chk \cup {r}]

\* Mutant: a row visit_record calls invisible is returned as if visible.
RECURSIVE ScanInvisibleReturned(_, _, _)
ScanInvisibleReturned(i, got, chk) ==
  IF i > Len(index_scanner_) THEN [rc |-> "RECORD_EOF", pos |-> i - 1, chk |-> chk]
  ELSE LET r == index_scanner_[i] IN
  CASE ~got[i]                     -> [rc |-> "GET_RECORD_FAILED", pos |-> i, chk |-> chk]
    [] table[r].pred = "error"     -> [rc |-> "FILTER_FAILED", pos |-> i, chk |-> chk]
    [] table[r].pred = "false"     -> ScanInvisibleReturned(i + 1, got, chk)
    [] visibility[r] = "LOCKED"           -> [rc |-> "LOCKED", pos |-> i, chk |-> chk \cup {r}]
    [] OTHER                       -> [rc |-> "SUCCESS", pos |-> i, chk |-> chk \cup {r}]

\* Mutant: the end of the index counted as one more entry consumed.
RECURSIVE ScanEofPastEnd(_, _, _)
ScanEofPastEnd(i, got, chk) ==
  IF i > Len(index_scanner_) THEN [rc |-> "RECORD_EOF", pos |-> i, chk |-> chk]
  ELSE LET r == index_scanner_[i] IN
  CASE ~got[i]                    -> [rc |-> "GET_RECORD_FAILED", pos |-> i, chk |-> chk]
    [] table[r].pred = "error"    -> [rc |-> "FILTER_FAILED", pos |-> i, chk |-> chk]
    [] table[r].pred = "false"    -> ScanEofPastEnd(i + 1, got, chk)
    [] visibility[r] = "RECORD_INVISIBLE" -> ScanEofPastEnd(i + 1, got, chk \cup {r})
    [] OTHER                      -> [rc |-> visibility[r], pos |-> i, chk |-> chk \cup {r}]

RECURSIVE Scan(_, _, _)
Scan(i, got, chk) ==
  IF i > Len(index_scanner_) THEN [rc |-> "RECORD_EOF", pos |-> i - 1, chk |-> chk]
  ELSE LET r == index_scanner_[i] IN
  CASE ~got[i]                    -> [rc |-> "GET_RECORD_FAILED", pos |-> i, chk |-> chk]
    [] table[r].pred = "error"    -> [rc |-> "FILTER_FAILED", pos |-> i, chk |-> chk]
    [] table[r].pred = "false"    -> Scan(i + 1, got, chk)
    [] visibility[r] = "RECORD_INVISIBLE" -> Scan(i + 1, got, chk \cup {r})
    [] OTHER                      -> [rc |-> visibility[r], pos |-> i, chk |-> chk \cup {r}]

Next1 ==
  /\ opState = "open"
  /\ LET n == Len(index_scanner_) IN
     \E got \in IF EnvMayFail THEN [1..n -> BOOLEAN] ELSE {[i \in 1..n |-> TRUE]} :
       LET s == Scan(cursor + 1, got, checked) IN
       /\ cursor' = s.pos
       /\ checked' = s.chk
       /\ CASE s.rc = "SUCCESS"    -> /\ emitted' = Append(emitted, index_scanner_[s.pos])
                                      /\ UNCHANGED opState
            [] s.rc = "RECORD_EOF" -> /\ opState' = "eof"
                                      /\ UNCHANGED emitted
            [] OTHER               -> /\ opState' = "error"
                                      /\ UNCHANGED emitted
  /\ UNCHANGED <<table, left_value_, right_value_, left_inclusive_, right_inclusive_,
                 index_scanner_, liveScanners, opens, visibility>>

\* close(): index_scanner_->destroy() with no null check.
Close ==
  /\ \/ opState \in {"open", "eof", "error"}
     \/ opState = "failed" /\ CloseAfterFailedOpen
  /\ IF index_scanner_ = "null"
       THEN /\ opState' = "crashed"
            /\ UNCHANGED liveScanners
       ELSE /\ opState' = "closed"
            /\ liveScanners' = liveScanners - 1
  /\ index_scanner_' = "null"
  /\ UNCHANGED <<table, left_value_, right_value_, left_inclusive_, right_inclusive_,
                 cursor, opens, visibility, emitted, checked>>

\* The parent abandons an operator whose open() failed, or the statement
\* is over.
Abandon ==
  /\ opState = "failed" /\ ~CloseAfterFailedOpen
  /\ opState' = "closed"
  /\ UNCHANGED <<table, left_value_, right_value_, left_inclusive_, right_inclusive_,
                 index_scanner_, cursor, liveScanners, opens, visibility, emitted, checked>>

Finished ==
  /\ \/ opState = "closed" /\ opens = MaxOpens
     \/ opState = "crashed"
  /\ UNCHANGED vars

Next == \/ OpenLeftCastFails \/ OpenRightCastFails \/ OpenWithBounds
        \/ OpenNoRecordHandler \/ Next1 \/ Close \/ Abandon \/ Finished

Spec == Init /\ [][Next]_vars

-----------------------------------------------------------------------------
TypeOK ==
  /\ table \in [Rids -> Records]
  /\ left_inclusive_ \in BOOLEAN /\ right_inclusive_ \in BOOLEAN
  /\ index_scanner_ = "null" \/ index_scanner_ \in Seq(Rids)
  /\ cursor \in 0..Cardinality(Rids)
  /\ liveScanners \in Nat
  /\ opState \in {"closed", "open", "eof", "error", "failed", "crashed"}
  /\ opens \in 0..MaxOpens
  /\ emitted \in Seq(Rids) /\ checked \subseteq Rids

(***************************************************************************)
(* The rows of the range as a table scan with the condition                *)
(* "left op key op right" would see them: DateType::compare of the key     *)
(* with each bound, in index order.                                        *)
(***************************************************************************)
LowOk(r)  == \/ left_value_ = NoBound
             \/ Compare(table[r].key, left_value_) > 0
             \/ left_inclusive_ /\ Compare(table[r].key, left_value_) = 0
HighOk(r) == \/ right_value_ = NoBound
             \/ Compare(table[r].key, right_value_) < 0
             \/ right_inclusive_ /\ Compare(table[r].key, right_value_) = 0

InRange == SetToSortSeq({r \in Rids : LowOk(r) /\ HighOk(r)}, EntryLess)

(***************************************************************************)
(* Since open() succeeded, next() has returned exactly the rows, in index  *)
(* order, of the part of the range the cursor has passed that satisfy the  *)
(* residual predicates and were not reported invisible; RECORD_EOF only    *)
(* once the whole range was passed.  Catches a wrong bound cast or         *)
(* inclusivity, an invisible row returned or ending the scan, a filtered   *)
(* row returned.                                                           *)
(***************************************************************************)
Admitted(r) == table[r].pred = "true" /\ visibility[r] = "SUCCESS"

ScanMatchesRange ==
  opState \in {"open", "eof"} =>
    /\ cursor <= Len(InRange)
    /\ emitted = SelectSeq(SubSeq(InRange, 1, cursor), Admitted)
    /\ opState = "eof" => cursor = Len(InRange)

(***************************************************************************)
(* visit_record is only asked about rows that passed every residual        *)
(* predicate (spec 8): a filtered-out row never takes part in the          *)
(* transaction's visibility / locking.                                     *)
(***************************************************************************)
VisibilityOnlyAfterFilter == \A r \in checked : table[r].pred = "true"

(***************************************************************************)
(* Every scanner open() creates is destroyed: at most one is live, and     *)
(* none once the operator is closed or its open() failed, across the       *)
(* re-opens of a nested-loop join.                                         *)
(***************************************************************************)
ScannerReleased ==
  /\ liveScanners <= 1
  /\ opState \in {"closed", "failed"} => liveScanners = 0

(***************************************************************************)
(* close() never dereferences a null scanner (spec 5: release on every     *)
(* exit path of close(), including after an error).                        *)
(***************************************************************************)
CloseIsSafe == opState # "crashed"
=============================================================================
