SPECIFICATION FairSpec
CONSTANTS
  o1 = o1
  o2 = o2
  Operators = {o1}
  Backlog = 1
  MaxAsks = 4
  MaxFaults = 1
PROPERTIES
  CallEnds
CHECK_DEADLOCK FALSE
