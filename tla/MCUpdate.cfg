\* Every table of up to three records, with and without a unique index on
\* the updated column, every SET value and every failing trx call.
CONSTANTS
  Rids = {1, 2, 3}
  RidSpace = {1, 2, 3}
  KeyDomain <- MCKeyDomain
  ValueDomain <- MCValueDomain
  UniqueIndex = TRUE
  ChildMayFail = FALSE
  EnvMayFail = TRUE
SPECIFICATION Spec
INVARIANT UpdateOutcome
