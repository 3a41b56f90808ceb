\* A document whose field_num disagrees with its field_name array.
CONSTANTS
  TableFields = {c1, c2, c3}
  OtherNames = {x}
  IndexNames <- MCIndexNames
  BlankNames <- MCBlankNames
  NotString = NotString
  Absent = Absent
  MaxFields = 2
  ForeignDocs = TRUE
SPECIFICATION Spec
INVARIANT LoadContract
