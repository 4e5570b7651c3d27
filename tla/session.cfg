CONSTANTS
  phone = phone
  laptop = laptop
  op1 = op1
  op2 = op2
  op3 = op3
  Clients = {phone}
  Ops = {op1, op2}
  BadOps = {}
  Tables = {"nodes"}
  LiveSlots = {"live"}
  Requests = {"cycles"}
  NewUser = TRUE
  Revisits = FALSE
  Faults = {"network", "session", "stream"}
  MaxFaults = 1
SPECIFICATION FairSpec
PROPERTIES QueueReleased
CHECK_DEADLOCK FALSE
