CONSTANTS
  Max = 2
  Months = 2
  Paydays = 2
  p = p
  q = q
  Places <- Groups
  Foreign = 2
  Edits = 2
  MaxHist = 4
SPECIFICATION Spec
PROPERTIES
  PocketNotRetyped
