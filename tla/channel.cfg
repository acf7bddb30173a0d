SPECIFICATION FairSpec
CONSTANTS
  o1 = o1
  o2 = o2
  Operators = {o1, o2}
  Backlog = 0
  MaxAsks = 2
  MaxFaults = 1
INVARIANTS
  TypeOK
  NoStrayConnection
PROPERTIES
  AnswerAwaited
  CallEnds
  CommandReplied
  StopEnds
CHECK_DEADLOCK FALSE
