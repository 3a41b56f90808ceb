# TLA+ models of the miniob query-execution core

This directory has TLA+ models of the query-execution code under
`src/src/observer`, and the TLC configurations that check them. The models
cover the typed values, the order-by, index-scan and update physical
operators, the statement binder, the expression-backed tuple and the index
metadata of the catalogue. `PROJECT.json` maps every definition to
the source lines it models. It also lists each run and what TLC must report
for it, the mutants that show each checked property can fail, the findings,
and the hazards of the code.

## 1. The system

Parts of the system, as the source names them:

| Part | Source | State | Operations |
|---|---|---|---|
| Typed value | `common/type/{char,date,float,vector,text}_type.cpp` | a value is a tag and a payload | `compare`, `cast_to`, `cast_cost`, `to_string`, float/vector arithmetic |
| Order-by operator | `sql/operator/order_by_physical_operator.{h,cpp}` | `key_values`, `ans_values`, `answer`, `now_index` | the constructor (`set_names`), `open` (`work`, `get_key_values`, `std::sort`), `next`, `current_tuple`, `close` |
| Index-scan operator | `sql/operator/index_scan_physical_operator.cpp` | bounds, inclusivity, `index_scanner_`, `record_handler_` | `open` (bound casts, `create_scanner`), `next` (`get_record`, `filter`, `visit_record`), `close` |
| Update operator | `sql/operator/update_physical_operator.cpp` | `records_`, `values_` | `open` (drain the child, coerce, delete/update/insert), `next`, `close` |
| Statement binder | `sql/stmt/{select,update,delete}_stmt.cpp` | binder context, table map, join chains | `SelectStmt::create`, `UpdateStmt::create`, `DeleteStmt::create` |
| Expression tuple | `sql/expr/expression_tuple.h` | child tuple, expressions | `find_cell`, `cell_at` |
| Index metadata | `storage/index/index_meta.cpp` | name, unique, field names | `init`, `to_json`, `from_json` |
| Order-by plan node | `sql/operator/order_by_logical_operator.*` | the ORDER BY keys and the projection list | the constructor |

How the parts interact:
- A parent operator drives each physical operator through open, then next
  until RECORD_EOF or an error, then close. A nested-loop join re-opens its
  inner child once for every outer row.
- The order-by operator drains its child in open, sorts, and then serves
  rows from its buffers.
- The index-scan operator casts CHARS bounds to DATES when the indexed column
  is DATES. It calls the B+tree scanner and the record handler, which live in
  storage. For every row that passes its residual predicates, it asks the
  transaction whether the row is visible.
- The update operator drains an index or table scan below it. It then
  deletes, modifies and re-inserts every collected record through the
  transaction.
- Comparison and casting of the typed value are used everywhere: in the
  sort comparator, in the scan bounds, and in coercing the SET value.
- The binders run before the operators exist. They decide whether a
  statement is built at all.

The hard behaviours here are these:
- the order of the calls inside one handler, and the error paths between
  them;
- an operator re-opened with stale members;
- an error of a child or of the transaction in the middle of a loop;
- sentinel results of comparison used as ordering results;
- the calendar rules of the date cast.

Everything runs in one thread per session. The concurrency that matters is
the interleaving of one operator's lifecycle with its parent's calls and
with the answers of storage and the transaction. That is what the models
explore.

Correctness, as the spec and the code's comments state it:
- **Ordered output.** The sort emits every child row once, in key order.
  NULL comes first for an ascending key and last for a descending one. Ties
  keep the child's order. An error or an incomparable key fails open().
- **Index scan.** The scan returns exactly the visible rows of the range
  that pass the predicates, in index order. Visibility is asked only of
  filtered rows. Scanners are released on every path.
- **Update.** The update reports SUCCESS exactly when every call succeeded.
  After SUCCESS, every matched row has its new value and nothing else has
  changed.
- **Binding.** A statement is built exactly when create() returns SUCCESS.
- **Dates.** A date text is accepted exactly when it names a calendar day,
  and rendering it gives the padded text back.
- **Comparison.** Comparing a and b gives the opposite of comparing b and a.
- **Name resolution.** A nested tuple asks its inner tuple first. It falls
  back to its own expressions only when the inner lookup reports not-found.
- **Catalogue.** An index written to the catalogue reads back equal. Reading
  a document ends with an error code, never an exception. It fails when a
  named column does not exist.

## 2. Modules

| Module | Models | Kind |
|---|---|---|
| `Values` | compare of every tag, CHARS->DATES/INTS cast, cast_cost, my_check_date, my2_check_date, DATES to_string | operators (pure algorithms) |
| `AbstractOrderBy` | what an ORDER BY operator promises its parent | abstract specification |
| `OrderByNames` | the `OrderByLogicalOperator` and `OrderByPhysicalOperator` constructors, `set_names`, the projected values and `current_tuple` | recursive operators over expression trees |
| `OrderBy` | `OrderByPhysicalOperator` | state machine, refines AbstractOrderBy |
| `IndexScan` | `IndexScanPhysicalOperator` | state machine |
| `Update` | `UpdatePhysicalOperator` | state machine |
| `SelectStmt` | `SelectStmt::create`, `UpdateStmt::create`, `DeleteStmt::create` | state machine over environment outcomes |
| `VectorArith` | `FloatType` and `VectorType` arithmetic: add, subtract, multiply, divide, negative, inner_product, cosine_distance, l2_distance | operators returning the set of outcomes |
| `TypedValue` | the date cast and rendering against a reference calendar, `compare` of operands of every tag either way round, and the arithmetic of `VectorArith` | state machine over operands, with algorithm checks |
| `ExpressionTuple` | `ExpressionTuple::find_cell`, `cell_at`, `spec_at`, `set_tuple` over nested tuples | state machine, with a reference resolution |
| `IndexMeta` | `IndexMeta::init`, `to_json`, `from_json` | state machine over the catalogue document |
| `MC*` | constants for TLC (model values, small domains) | instances |

How the state and actions correspond to the code:

- **Values.** A value is a record `[tag, v]`. CHARS carry their bytes as
  ASCII codes, because `compare_string` and `sscanf` work on bytes. DATES
  carry `y*10000+m*100+d`, as `Value::set_date` does. FLOATS carry an
  integer, since only the sign of a difference matters here. `ScanInt` and
  `ScanDate` model sscanf's `%d` and `%d-%d-%d`. `CDiv` and `CMod` model
  C++'s truncating `/` and `%`. Each conversion's result is handed to the
  next step as an operator argument (`ScanYear`, `ScanMonth`, `ScanDay`,
  `DateCastOf`, `DatePayload`). This keeps TLC's coverage analysis of the
  sort comparator, which calls `Compare` many times, small.
  - When a cast fails inside `CharType::compare` or `DateType::compare`, its
    rc is ignored and the zero payload of the temporary is compared
    (`DateGarbage`).
  - `CompareVector` returns `INT32_MAX` for lengths that differ.
  - `DateType::compare` reads the right operand's `int_value_` for every
    tag but CHARS. For a FLOATS operand that is the float's IEEE-754 bit
    pattern (`FloatBits`, `IntPayload`): 12.0 reads as 1094713344.
  - The INTS row of `Compare` and `NumericOf` of a non-CHARS value stand
    for `IntegerType::compare` and `Value::get_float`, which are not under
    `src/`. They follow spec 4.1, and no property is stated over them.
- **OrderBy.** The variables are the operator's members: `key_values`,
  `ans_values` (a row is named by its position in the child's output),
  `answer` and `now_index`. The child's rows, the step at which its next()
  fails, and the row at which an expression fails are chosen at Init.
  - `Open` is the whole of `open`, `work` and `get_key_values`, including
    the sort. The sort is `SortOutcomes`. When the comparator is a strict
    weak order over in-range indices, the outcome is every arrangement that
    the comparator orders. Otherwise the comparator breaks the precondition
    of `std::sort`, which is undefined behaviour, and any permutation is
    possible.
  - `KeyLess` is the comparator lambda, line for line.
  - `ImplementsAbstractOrderBy` maps the operator to `AbstractOrderBy` with
    `INSTANCE ... WITH` and checks the abstract specification as a PROPERTY.
  - `DebugBuild` says whether `ASSERT` is compiled in. When it is, a failed
    evaluation that leaves the Value UNDEFINED aborts the process (state
    `aborted`) before the rc check.
- **OrderByNames.** An expression is a record tagged with its `ExprType`.
  `Trees(d)` builds every tree of up to `d` levels over the statement's
  leaves. A unary minus is an arithmetic node with no right child (the
  nullptr that `set_names` guards against).
  - `set_names` is recursive, as in the code. It walks casts, comparisons,
    conjunctions and arithmetic down to field and aggregate leaves. It adds
    a cell name and the leaf to `names` and `name_exprs` together.
  - `OrderByLogicalOperator` and `PhysicalFromLogical` carry the lists from
    the plan node to the constructor.
  - `ProjectedValues` is the `all_values` loop of `get_key_values`.
    `CurrentTuple` is the `ValueListTuple` handed out by `next()`.
  - `FindCell` and `get_value` follow the spec: the first cell of the name
    asked for, and evaluation that fails when a leaf is not found.
  - Values are terms. A leaf of the child row evaluates to its own cell
    name, so two evaluations agree exactly when they read the same cells.
- **IndexScan.** A record is a rid with a DATES key and the outcome of its
  residual predicates (true, false or error). Each action models a whole
  path of the code:
  - `OpenLeftCastFails`, `OpenRightCastFails`, `OpenWithBounds` (which
    includes a null result of `create_scanner`) and `OpenNoRecordHandler`
    are the paths of `open`.
  - `Next1` is one call of `next`. Its loop is the recursive `Scan`.
  - `Close` is `close`.
  - The environment: `get_record` may fail at any call. The transaction's
    answer for each record (visible, invisible, locked) is fixed for the
    behaviour, because a record version's visibility to one transaction
    does not change while it runs. Each rid is visited at most once per
    scan.
  - The B+tree scanner is modelled from its contract: the entries between
    the bounds, in (key, rid) order.
- **Update.** The table is a function from rid to a record `[c, match]`.
  `Open` is the early return when the child's `open()` fails.
  `OpenCollect` is the rest of `open`:
  - the drain loop, cut short by the child's error;
  - the coercion of the value;
  - the recursive `Apply` over `records_`. `Apply` runs `delete_record`,
    `update_record` and `insert_record` in that order, and stops at the
    first failure.
  - `insert_record` fails on a duplicate key of a unique index.
- **SelectStmt.** Every call to the catalogue, the expression binder and
  `FilterStmt::create` is named by a tuple, and `fail` is the set of calls
  that fail. `Create` follows `SelectStmt::create`:
  - the join groups (`shamama`, `my_get_relation`, `bound_conditions`);
  - then the select list, GROUP BY, ORDER BY and HAVING;
  - then the check for an empty WHERE binding;
  - then the WHERE filter.

  `UpdateDeleteCreate` follows `UpdateStmt::create` and
  `DeleteStmt::create`.
- **TypedValue.** `Cast` is `CharType::cast_to` applied to a date text that
  is rendered from a year, a month and a day, padded or not. `Evaluate` is
  `Value::compare` of two operands chosen at Init. The operands are the date
  literal itself and values of every tag (`MCOperands`). The reference
  calendar (`LeapYear`, `DaysIn`) is written independently of the code.
  A second branch of Init picks an arithmetic operation `op` of FLOATS or
  VECTORS and two operands. `Arithmetic` then records its `outcome`, one
  element of `Apply(type, op, left, right)`.
- **VectorArith.** Each operation is an operator that returns the set of
  `[rc, out]` outcomes the build can produce. The operands are small
  integers, so sums and products are exact. sqrt stays symbolic:
  `l2_distance` is `[sq]` and `cosine_distance` is `[ip, nn, noise]`.
  `noise` is the rounding error of `sqrt(ln) * sqrt(rn)` when a norm is not
  a perfect square. In float32, `sqrt(2) * sqrt(2)` is `1.99999988`. A
  quotient is kept as the pair `<<l, r>>`. FloatType's vector operations
  first cast a CHARS operand to VECTORS (`AsVector`). `FloatType::
  cosine_distance` snaps a result within EPSILON of 0 to 0 (`Snap`);
  `VectorType::cosine_distance` does not.
- **ExpressionTuple.** Level k of a nest of `Depth` tuples holds the
  expressions `exprs[k]`. `child[k]` says whether `set_tuple` has given it
  the tuple of level k-1. Level 0 is the row of the current record.
  - `find_cell` and `get_value` are recursive, as in the code: the child
    first, then the first own expression of that name.
  - `SetTuple` attaches the tuples bottom-up. `NextRecord` moves the scan
    beneath, and the tuples keep their pointers.
  - `Resolve` is the resolution rule of spec section 4.2, written apart from
    the code.
  - An expression may fail to evaluate (`ExprMayFail`), as a failed cast
    does.
- **IndexMeta.** `CreateIndex` is `init` with a statement's name and
  columns. `Save` writes `to_json`. `Load` is `from_json`, of the saved
  document or of any document on disk (`ForeignDocs`). jsoncpp is modelled by
  what it does: `asInt` and `asBool` of a missing member are 0 and false. An
  array read past its end is null, and `asCString()` of null throws (the
  outcome `EXCEPTION`). `LoadFields` is the loop over `field_num`.

## 3. Runs

| Run | Expect | What it shows |
|---|---|---|
| `orderby` | pass | One open/next/close over every child of up to 3 rows refines `AbstractOrderBy`, including its liveness: under weak fairness of `next()`, the operator eventually reports EOF. The keys are FLOATS and DATES, each NULL or one of two values, and evaluation may fail. `ProjectionReadsBack`: once a row is out, every projection list reads it back through the output names as it reads the child's row. The lists are one expression of two levels, or two of one level, over `t.a`, `u.a`, an aggregate and a literal. (164,848 states) |
| `orderby_reopen` | violation | Re-opening the operator: `ans_values` is not cleared (finding). |
| `indexscan` | pass | `ScanMatchesRange`, `VisibilityOnlyAfterFilter`, `ScannerReleased` and `TypeOK` hold over two cycles. The table has 3 records. Bounds are DATES, a valid CHARS date or an invalid one, or absent. Every get_record and visit_record answer is explored. (3.6M states, 1 to 2.5 minutes) |
| `indexscan_close_after_failed_open` | violation | close() after a failed open() dereferences a null scanner (finding). |
| `update` | pass | `UpdateOutcome`, with and without a failing child `open()`: SUCCESS exactly when nothing failed and the unique index stays unique. Then the rows equal the expected bag of rows. A failed cast changes nothing. |
| `update_child_error` | violation | A scan error yields a partial update with SUCCESS (finding). |
| `stmt_create` | pass | `CreateContract` for SELECT shapes `<<1>>`, `<<2>>` and `<<1,1>>`, and for UPDATE and DELETE, with up to two failing calls. |
| `select_where_filter_error` | violation | A WHERE filter failure returns SUCCESS with no statement (finding). |
| `typed_value` | pass | `DateCastCorrect` over years 0, 1900, 2000, 2023 and 2024, months 0 to 13 at the edges, and days 0 to 32 at the edges, padded or not. `CompareAntisymmetric` over the date literal and DATES and CHARS operands, where both sides (`DateType::compare`, `CharType::compare`) are in `src/`. `VectorOpContract` (spec section 8) over FLOATS and VECTORS operations on the vectors [1,1], [1,2], [2] and the CHARS text "[1,1]": length mismatch gives INTERNAL, inner_product and l2_distance are symmetric, and the cosine distance of a vector with itself is exactly 0. (107,820 states) |
| `indexmeta` | pass | `RoundTrip`: every index of one to two columns that CREATE INDEX builds is read back from the catalogue equal. (2,594 states) |
| `indexmeta_field_num` | violation | A document without `field_num` loads as an index with no columns, and one whose `field_num` exceeds the array throws (finding). |
| `expression_tuple` | violation | `FindCellResolves` over two nested tuples of up to two expressions (literals, field references, failing expressions), with names `a` and `b`, and a row with column `a`. An error of the inner tuple reaches the caller as not-found (finding). |

Each property of a passing run has a mutant in `PROJECT.json`: a plausible
bug in the mapped code that TLC reports as a violation. Examples are NULLs
sorted last, an invisible row returned, visit_record called before the
filter, a forgotten `destroy()`, insert before delete, a join loop that
ignores errors, and a leap rule of "every fourth year". The mutant
operators are defined in the modules, just before the definition they
replace.

### Why the bounds are enough
- **Three rows** make every relative order of two keys appear, with a third
  row to break transitivity or to sit between two ties. Two keys let a tie
  on the first be decided by the second.
- **Two opens** are enough to meet every stale-member hazard. A third open
  sees the same state as the second.
- **Bound values** were chosen to straddle the keys. They include a CHARS
  literal that casts and one that names 2023-02-29.
- **Two nested tuples** of two expressions over two names are the smallest
  nest where an inner error meets an outer expression of the same name, or
  none.
- **Index documents** have up to two columns out of three table columns and
  one foreign name. `field_num` ranges from 0 to one past the longest array,
  so it can be shorter than the array, equal to it, or longer.
- **Projection expressions** of two levels over two fields of the same
  name in two tables, an aggregate and a literal reach every branch of
  `set_names`, a node under a node, a leaf repeated in one list, and cells
  that only the table name tells apart.
- **Date inputs** were chosen at each limit of the calendar: the leap-year
  exceptions 1900 and 2000, month and day 0, and one past the end.

### Fairness
Only `orderby` checks a liveness property. `OrderBy!FairSpec` assumes weak
fairness of `NextRow` and `NextEof`. This is justified because the parent
operator calls `next()` in a loop until it returns something other than
SUCCESS, and each call takes one of these two steps. The property is
`AbstractOrderBy!LiveSpec`, which has weak fairness of handing out the next
row and of reporting exhaustion. So the refinement says that the sorted
rows are all delivered and then EOF is reported. A `next()` that stops
advancing (the mutant `NextEofMissing`) violates it. All other properties
are safety properties, so no fairness is assumed for them. Each module has
a stuttering `Finished`/`Done` step for the point where the statement is
over. This means a run stops without a deadlock report only where the
program really stops.

## 4. What is not modelled, and why
- **Float values other than small integers.** Arithmetic is checked only
  on integer operands. The rounding of sqrt is the only float error that is
  modelled. The NaN of a zero vector's cosine is listed as a hazard.
- **`VectorType::cosine_distance` in the run.** It is kept out of
  `MCArithOps`. With it, `VectorOpContract` fails on `[1,1]` with itself:
  the result is `-1.19e-7`, not 0 (a hazard).
- **Casting a CHARS text to VECTORS.** The cast is unimplemented, so
  `"[1,1]"` as an operand gives UNIMPLEMENTED. This is listed as a hazard.
- **`set_value_from_str` and the to_string of FLOATS and VECTORS.** These
  are text formatting.
- **TEXT.** `TextType::compare` compares the texts that `to_string`
  fetches from the string pool, which is outside `src/`. The one behaviour
  a run could show is `CharType::compare` with a TEXT right operand. That
  call reads the pool id as a pointer, which is undefined behaviour, and it
  has no outcome short of "anything". It is listed as a hazard instead.
- **Comparisons with INTS and FLOATS on the other side.** `IntegerType`
  and `Value::get_int`/`get_float` are in files outside `src/`. So
  `CompareAntisymmetric` covers DATES and CHARS only. A DATES value
  compared with a FLOATS value reads the float's bit pattern on one side
  and its number on the other. Whatever `get_float` of a date gives, some
  float operand gives the same sign both ways round. This is listed as a
  hazard.
- **Operators with no child.** `open` of Update and OrderBy returns
  SUCCESS at once when `children_` is empty. The plan generator always
  attaches a child, so the models start with one.
- **Object lifetimes.** `ExpressionTuple` borrows its expression list and
  its child tuple, and `Update` keeps records moved out of the child. The
  models take these as values. The `records_` case is listed as a hazard.
- **Storage and transactions.** These are the B+tree, the record handler and
  the transaction managers. They are outside `src/` and are modelled from
  their contracts (marked `spec_modelled` in the map).
- **Some divergences are modelled but kept out of the passing runs.** Each
  is reproducible by setting a constant:
  - `ChildMayFail = TRUE` in `MCOrderBy.cfg`: a child error is swallowed
    and open() succeeds.
  - VECTORS keys of different lengths in `KeyDomain`: the sort runs with the
    `INT32_MAX` sentinel.
  - `DebugBuild = TRUE` in `MCOrderBy.cfg`: a failing key or projection
    aborts on the ASSERT instead of returning its error.

  TLC reports the run's property violated in each case. They are listed as
  hazards rather than as runs, because the project keeps one run per
  question.

## 5. Plan
Done, in this order:
1. `Values`
2. `OrderBy` with `AbstractOrderBy`
3. `IndexScan`
4. `Update`
5. `SelectStmt`
6. `TypedValue` (the date cast, the comparison matrix, and the arithmetic
   of `VectorArith`)
7. `ExpressionTuple`
8. `IndexMeta`
9. Liveness of `OrderBy`, checked through the refinement
10. `OrderByNames`
11. The child-open failure of `Update`, and the float bit pattern in
    `DateType::compare`

Next:
1. **Update over a live index scan.** A composition of `Update` with
   `IndexScan` as its child. It would check that the delete/insert phase
   never starts while the scan's cursor is live, and that rows re-inserted
   into the index are not scanned again (the Halloween problem).
2. **Transitivity of compare.** Transitivity across tags needs three
   operands. It would show whether the CHARS->INTS zero breaks it for
   mixed CHARS, INTS and DATES operands.
