\* Two open/next/close cycles over every table of three records, every
\* bound pair, and every answer of get_record and visit_record.
CONSTANTS
  Rids = {1, 2, 3}
  KeyDomain <- MCKeyDomain
  BoundDomain <- MCBoundDomain
  NoBound = NoBound
  MaxOpens = 2
  EnvMayFail = TRUE
  CloseAfterFailedOpen = FALSE
SPECIFICATION Spec
INVARIANT TypeOK
INVARIANT ScanMatchesRange
INVARIANT VisibilityOnlyAfterFilter
INVARIANT ScannerReleased
