SPECIFICATION Spec
CONSTANTS
  MaxLog = 2
  NumCursors = 2
  MaxFails = 2
INVARIANTS TokenExact OneSession
PROPERTIES ReadsTheLog EventRead
CHECK_DEADLOCK FALSE
