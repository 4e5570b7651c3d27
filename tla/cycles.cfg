CONSTANTS
  salary = salary
  trip = trip
  Leaves = {salary, trip}
  Pockets = {trip}
  Lengths <- ShortMonths
  Window = 1
  Users <- Everyone
SPECIFICATION Spec
CHECK_DEADLOCK FALSE
INVARIANTS TypeOK CalendarSound EverythingPlaced RoundTrip
PROPERTIES Conserved ClosedKept
