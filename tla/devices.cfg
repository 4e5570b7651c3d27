CONSTANTS
  phone = phone
  laptop = laptop
  op1 = op1
  op2 = op2
  op3 = op3
  Clients = {phone, laptop}
  Ops = {op1, op2}
  BadOps = {}
  Tables = {"nodes", "cells"}
  LiveSlots = {"live"}
  Requests = {}
  NewUser = FALSE
  Revisits = FALSE
  Faults = {"network","external"}
  MaxFaults = 1
SPECIFICATION Spec
INVARIANTS Inv
PROPERTIES NoLostUpdate
SYMMETRY Perms
CHECK_DEADLOCK FALSE
