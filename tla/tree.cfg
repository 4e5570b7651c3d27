CONSTANTS
  MaxNode = 4
  MaxMonth = 2
  Users <- Everyone
SPECIFICATION Spec
CHECK_DEADLOCK FALSE
INVARIANTS TypeOK NothingOrphaned GridAddsUp
PROPERTIES FiguresKept ClosedKept
