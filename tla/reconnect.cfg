CONSTANTS
  phone = phone
  laptop = laptop
  op1 = op1
  op2 = op2
  op3 = op3
  Clients = {phone}
  Ops = {op1, op2}
  BadOps = {op1}
  Tables = {"nodes"}
  LiveSlots = {"live"}
  Requests = {"closure","cycles"}
  NewUser = FALSE
  Revisits = FALSE
  Faults = {"network","garbled","stream","external"}
  MaxFaults = 3
SPECIFICATION FairSpec
INVARIANTS DebtAnnounced
PROPERTIES ReconnectionSettles
CHECK_DEADLOCK FALSE
