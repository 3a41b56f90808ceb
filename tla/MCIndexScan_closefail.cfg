\* The parent closes the operator after open() returned an error.
CONSTANTS
  Rids = {1, 2, 3}
  KeyDomain <- MCKeyDomain
  BoundDomain <- MCBoundDomain
  NoBound = NoBound
  MaxOpens = 2
  EnvMayFail = TRUE
  CloseAfterFailedOpen = TRUE
SPECIFICATION Spec
INVARIANT CloseIsSafe
