\* The child scan's next() may return an error (a lock conflict, an I/O
\* error): open() must not report SUCCESS for a partial update.
CONSTANTS
  Rids = {1, 2, 3}
  RidSpace = {1, 2, 3}
  KeyDomain <- MCKeyDomain
  ValueDomain <- MCValueDomain
  UniqueIndex = FALSE
  ChildMayFail = TRUE
  EnvMayFail = FALSE
SPECIFICATION Spec
INVARIANT UpdateOutcome
