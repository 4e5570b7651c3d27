CONSTANTS
  phone = phone
  laptop = laptop
  mov1 = mov1
  mov2 = mov2
  rent = rent
  salary = salary
  Leaves = {rent}
  Incomes = {}
  Ids = {mov1}
  MaxMonth = 3
  MaxAmount = 1
  MaxBudget = 1
  Openings = {1}
  Legacy <- OldRent
  Devices = {phone, laptop}
  Waits = FALSE
  EarlyData = FALSE
SPECIFICATION Spec
INVARIANTS OneReopened BaselineIsWhatWasClosed
PROPERTIES BookKept ClosesWhatWasShown
SYMMETRY Perms
CHECK_DEADLOCK FALSE
