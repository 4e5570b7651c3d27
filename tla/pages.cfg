CONSTANTS
  phone = phone
  laptop = laptop
  op1 = op1
  op2 = op2
  op3 = op3
  Clients = {phone}
  Ops = {op1, op2, op3}
  BadOps = {}
  Tables = {"nodes"}
  LiveSlots = {"live"}
  Requests = {}
  NewUser = FALSE
  Revisits = TRUE
  Faults = {"network","external"}
  MaxFaults = 1
SPECIFICATION Spec
INVARIANTS TypeOK NoSilentLoss
PROPERTIES RevisionNeverBack
CHECK_DEADLOCK FALSE
