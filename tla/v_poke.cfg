SPECIFICATION Spec
CONSTANTS
  o1 = o1
  o2 = o2
  Operators = {o1}
  Backlog = 1
  MaxAsks = 0
  MaxFaults = 0
INVARIANTS
  StopsCleanly
CHECK_DEADLOCK FALSE
