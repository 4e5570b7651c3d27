CONSTANTS
  phone = phone
  laptop = laptop
  op1 = op1
  op2 = op2
  op3 = op3
  Clients = {phone, laptop}
  Ops = {op1, op2}
  BadOps = {}
  Tables = {"nodes"}
  LiveSlots = {"live"}
  Requests = {"closure", "start", "cycles"}
  NewUser = FALSE
  Revisits = FALSE
  Faults = {"network", "blocked"}
  MaxFaults = 1
SPECIFICATION Spec
INVARIANTS NothingStranded SameRevisionSameLedger
SYMMETRY Perms
CHECK_DEADLOCK FALSE
