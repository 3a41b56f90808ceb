\* CREATE INDEX, save and reload, beside every document a table may be
\* opened with.
CONSTANTS
  TableFields = {c1, c2, c3}
  OtherNames = {x}
  IndexNames <- MCIndexNames
  BlankNames <- MCBlankNames
  NotString = NotString
  Absent = Absent
  MaxFields = 2
  ForeignDocs = TRUE
SPECIFICATION Spec
INVARIANT RoundTrip
