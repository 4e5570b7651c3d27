CONSTANTS
  trip = trip
  car = car
  Order <- TwoPockets
  MaxMonth = 2
  MaxAmount = 1
  Flows = {0, 2}
  Users <- NewOrOld
  MaxTyped = 1
SPECIFICATION Spec
CHECK_DEADLOCK FALSE
INVARIANTS TypeOK BalanceExplained MaximaExact ServerAgrees ConversionConserves
PROPERTIES FloorKept
