CONSTANTS
  Max = 1
  Months = 2
  Paydays = 2
  p = p
  q = q
  Places <- Groups
  Foreign = 1
  Edits = 2
  MaxHist = 4
SPECIFICATION Spec
INVARIANTS
  TypeOK
  DepthHonest
  CreatedOnce
PROPERTIES
  NothingRetyped
  ClosedNotWritten
  AppliedAsPreviewed
  QuestionHonoured
