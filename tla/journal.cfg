CONSTANTS
  phone = phone
  laptop = laptop
  mov1 = mov1
  mov2 = mov2
  rent = rent
  salary = salary
  Leaves = {rent, salary}
  Incomes = {salary}
  Ids = {mov1, mov2}
  MaxMonth = 2
  MaxAmount = 2
  MaxBudget = 0
  Openings = {}
  Legacy <- OldRent
  Devices = {phone}
  Waits = TRUE
  EarlyData = TRUE
SPECIFICATION Spec
INVARIANTS TypeOK ClosedMonthsBalanced
SYMMETRY Perms
CHECK_DEADLOCK FALSE
